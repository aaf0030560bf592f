# MuxLane (bedrock-gateway) in TLA+

MuxLane is an HTTP gateway: clients speak the OpenAI or the Anthropic protocol to it,
it forwards their requests to AWS Bedrock and other upstreams, and a dashboard shows
what it did. It is one Python process: one asyncio event loop that runs every request,
one writer thread that puts the request log into SQLite, and locks around what the two
share.

This directory holds TLA+ models of the parts whose correctness lies in orders of
events that tests hardly reach, the TLC configurations that check them, and proofs
that TLAPS checks. `PROJECT.json` maps every definition to the lines it stands for,
lists the runs, the mutants that show each property can fail, the hazards and the
theorems. Paths below are relative to the repository's root.

    tlc -workers 2 -config Upstream.cfg MCUpstreamCall    # one run
    tlapm UpstreamProofs.tla                              # one module's proofs

Contents: 1 inventory, 2 modules and how they correspond to the code, 3 runs,
4 disagreements found, 5 proofs, 6 abstractions and limits, 7 plan.

## 1. Inventory

### Components

| component | state | operations | models |
|---|---|---|---|
| upstream call: `_handle_sync`, `_handle_stream`, `_open_upstream_stream`, which `_handle_messages_stream` calls too (server.py) | locals of one coroutine: body, attempt, strips, the two one-shot flags, deadline, exit stack; `retry_count` | arrive, pre-strip, send, answer, hand a stream over, back off, self-heal three kinds of 400, give up | `UpstreamCall` |
| learned cache (unsupported_param_cache.py, unsupported_param.py) | dict of dicts model -> path -> (lesson, expiry), a lock | record, lookup with pruning, strip | `LearnedCache` |
| remediation of a refused name (unsupported_param.py) | none | recognise a 400, repair a body | operators of `UpstreamCall`, `LearnedCache` |
| projection and reasoning strip (responses_compatibility.py) | none | rewrite a refused input item by item | `InputProjection`, when in `UpstreamCall` |
| converter and Anthropic dialect (converter.py, dialect_anthropic.py) | call index of one stream | request, whole answer and chunks of a chat client of Claude | `ChatDialect` |
| Messages-to-Responses request and answer (messages_to_responses.py) | none | request to items, response to message | `MessagesDialect` |
| Messages-to-Responses stream (messages_to_responses.py, server.py) | block indices, open blocks, sent flags, terminal, usage | one handler per Responses event, EOF, break | `StreamAdapter` |
| embeddings request (embeddings.py) | none | parse, default, validate, build native bodies, render | `EmbeddingsRequest` |
| embeddings fan-out (server.py) | semaphore, shared deadline, one task per text, gathered results | receive, acquire, attempt, settle, trip, sleep, gather | `EmbeddingsFanout` |
| metrics store (dashboard/metrics.py, storage.py) | minute buckets, recent log, writer queue and batch, two SQLite tables | record, enqueue, persist, evict, write a batch, reload | `MetricsStore` |
| rate limiter (dashboard/security.py) | per client, the hits in its window | check, reset | `RateLimiter` |
| gauges (dashboard/health.py) | two counters | enter, leave, floored at zero | in `UpstreamCall`, `EmbeddingsFanout`, `RawPassthrough`, `RequestLifecycle` |
| raw pass-through, native invocation: `_handle_raw_passthrough`, `_handle_messages_sync` (server.py:1750-1892, 2580-2700) | retry loops of their own, an exit stack | send, back off, drain a refusal, hand a stream over | `RawPassthrough` |
| native Messages relay (server.py:2718-2867, converter.py:465-535) | frame buffer of one stream | decode cut frames, forward, fail | `MessageRelay` |
| metrics middleware and key check (dashboard/middleware.py, server.py:781) | per request: released flag; records | count in, check, dispatch, wrap or buffer, record and release once | `RequestLifecycle` |
| usage of an answer (dashboard/middleware.py) | tail of the last chunk | read tokens off lines or a JSON body | `UsageScan` |
| upstream health verdict (metrics.py:855-920) | consecutive errors, time of last 401/403 | derive a status | its inputs in `RequestLifecycle` |
| registry, configuration, other dialects, transports, auth | none after start-up | pure functions | as constants, or not modelled |
| dashboard API and UI, logging, model report, entry points | none, or only log lines | rendering | not modelled |

`PROJECT.json` "components" has every part with its status and the reason.

### How they interact

- An endpoint resolves the model, converts the body and awaits an upstream call. All
  calls share the learned cache and the upstream gauge; a call of another client can
  run wherever one awaits. The cache is read under its lock and applied after it.
- A stream handler returns with the connection still open; the response's generator
  owns it from then on and closes it in a `finally`.
- The stream adapter sits between an open upstream stream and a generator: the upstream's
  events go in, the client's frames come out, one by one.
- The embeddings endpoint starts one task per text. They share a semaphore, a deadline
  and the retry counter of the HTTP request.
- A client of another dialect sends its whole history with every request; what the
  gateway made of an answer comes back to it as history in the next one. A mistake in one
  direction is met by the other a turn later.
- The metrics middleware is outermost: it counts a request in before its key is looked
  at, and wraps or buffers what the handler returned. A handler's generator runs as soon
  as the head is out, the middleware's only when its first chunk is asked for.
- The metrics middleware calls `record_request` on the event loop when a request ends;
  that puts a row into the writer thread's queue and writes closed minutes itself.
- The dashboard's API checks the rate limiter before it reads any of it.

### What is hard, and what makes each part correct

| part | hard behaviour | what must hold |
|---|---|---|
| upstream call | one `while` with three `continue`s that use no attempt; timeouts that may or may not be resent; a deadline looked at in four places; an exit stack closed on some paths and handed over on others | bounded sends, nothing sent late or twice as it was, one final answer, always an answer, exact gauge and retry count |
| learned cache | lessons shared between models and calls, expiring, renaming | a table keyed by model and path; bodies are altered only where their own model objected lately |
| stream adapter | interleaved items, blocks announced lazily, closed by one of several events, any end | the documented frame order; the content and verdict a non-streaming client would get; an end |
| embeddings | out-of-order results, permits kept through sleeps, a deadline that passes during a sleep | bounded connections; a whole answer in order or an error; native requests a provider takes; each text tried; none resent late |
| metrics store | two threads, a full queue, failing storage, restarts, minutes without traffic, eviction | rows neither duplicated, reordered nor mislaid; a stored minute is whole; closed minutes get stored; the panel is right after a restart |
| pass-through and middleware | two nested generators, one begun late or never; an exit stack that an exception leaves behind; a drain outside any `try`; a buffered body that breaks | each counted request recorded once, with what its client was told, and both gauges down after it; connections closed |
| dialects and conversations | tool calls and results reordered and regrouped in two directions, answers whole or in pieces, repairs of a refused history in either order, chunks that end anywhere | the model is told all that was said, once, in order; requests the upstream accepts; usage as counted |
| rate limiter | lazily dropped hits, exact boundaries | no window over the limit; nobody turned away for others |

The hazards behind this table, each at its line, are in `PROJECT.json` "hazards".

## 2. Modules

| module | what it is |
|---|---|
| `LearnedCache` | the cache and the remediation of one named thing |
| `UpstreamCall` | EXTENDS `LearnedCache`: many calls at once over one cache and one gauge |
| `CallContract` | abstract: what one call promises the endpoint that makes it |
| `RawPassthrough` | the retry loops beside the shared ones |
| `MessageRelay` | the native relay over cut frames |
| `RequestLifecycle` | EXTENDS both: requests through the middlewares, with these handlers |
| `StreamAdapter` | the adapter, its generator, an upstream and a client |
| `MessageStream` | abstract: the order of events a Messages client relies on |
| `ChatDialect`, `MessagesDialect`, `InputProjection`, `UsageScan` | pure operators: two translations in both directions, the repairs of a refused history, the token count |
| `Conversation` | a client and a model over these operators, turn after turn |
| `EmbeddingsRequest` | pure operators: an embeddings request and its answer |
| `EmbeddingsFanout` | EXTENDS it: one embeddings request and its tasks |
| `MetricsStore` | recorder, writer thread, SQLite and restarts |
| `RateLimiter` | the limiter |
| `MCUpstreamCall`, `MCRequestLifecycle`, `MCConversation`, `MCEmbeddings` | small instances |
| `SortedSeqs` | sets of numbers in order, and the elements of a sequence that a set of positions selects; used by `MetricsStore`, `StreamAdapter`, `MessageRelay` and the operators of `Conversation` |
| `SortedSeqsProofs` | lemmas about them |
| `UpstreamProofs`, `StreamProofs`, `LifecycleProofs`, `ConversationProofs`, `MetricsProofs`, `EmbeddingsProofs`, `RateLimiterProofs` | theorems about one model each |

Definitions named "Variant: ..." are the mutants of the definition below them; nothing
else uses them.

### UpstreamCall with LearnedCache

Every call has a `pc` and a `frame`, the locals of its coroutine; one step of a call is
what runs between two awaits. `Arrive` is the endpoint with the cache lookup;
`StripNext` applies one learned lesson, in dict order, outside the lock; `Depart` sets
the deadline and enters the loop. While a call is in `wait` the upstream has its
request, and one action per ending follows: `Succeed`, `OpenStream`, `Throttled`,
`ConnectTimeout`, `Broken` and the four kinds of refusal. `Backoff` and `Wake` are the
sleep and the next turn; `LoopTop` has the loop's own exits. `EndStream` is the
generator that was given the connection.

The sync and the stream path are one model with the places in which they differ as
conditions on `mode` (the stream path does not sleep after its last connect timeout).
Surfaces differ in which self-heals they arm (`Arms`). A native Messages stream, chat for
a Claude or Azure model and images arm none, which is the surface "plain". (The native
`_handle_messages_sync` has a loop of its own: `RawPassthrough`'s "invoke".)

A body is what the self-heals can tell apart: the set of things (fields and tool types)
it carries openly, those inside its `additional_tools` items, whether the mantle
validator would refuse its input and whether that can be repaired, and whose reasoning
blobs it replays. `namedAt` is a history variable: when each model last refused each
thing; the properties about bodies are stated with it.

### CallContract

Per call a phase and a supply of sends. A call begins, attempts while it has supply,
and is answered, or is given an open stream that is later closed. `Safety` says no more;
`Contract` adds that a call that has begun is answered or opened. `UpstreamCall` maps
its states to it in `Abs`.

### StreamAdapter and MessageStream

`ad` is the adapter's object; `OnEvent` and the operators above it are `on_event` and
its helpers as functions from a state and an event to a state and frames. `outbox` holds
the frames not yet yielded: `generate()` yields one, and may be left by its client, at
each. The upstream is external: it says items, parts, deltas and done events in any
order the Responses API has, up to `MaxLanes` items at once, with parts announced or
begun by their first delta and arguments in pieces or whole; it may repeat its verdict,
break, or end anywhere. The client is external too: it folds frames into a message and
is "confused" by one it cannot place. `MessageStream` is the grammar of the class
comment of `AnthropicStreamAdapter`, as a state machine over what the client has.

### RawPassthrough, MessageRelay and RequestLifecycle

A request has a `kind` (what it asks for), a `mode` (how its handler works) and a `pc`.
`Arrive` is the metrics middleware with the key check inside it. `RawPassthrough` handles
the kinds with retry loops of their own: "sync" and "stream" are the two loops of
`_handle_raw_passthrough`, "invoke" is that of `_handle_messages_sync`. One action per way
an attempt can end; `Drained` and `DrainFails` are the `aread()` of a refused stream.
`Handle` is every other handler; for a native stream it opens the upstream, which
`MessageRelay` then reads: an upstream sends frames in halves, `Chunk` takes whatever has
arrived, decodes what is whole and keeps the rest.

`Dispatch` is what the middleware does with the handler's answer: it records it, or wraps
or buffers its body. `flow` is the handler's generator and `begun` the wrapping one; the
first runs once the head is out, the second when its first chunk is asked for, or never
(`NeverBegun`). `held` are the connections somebody will close, `dropped` those that only
the interpreter will, when it finalizes the objects (`Collect`). `records`, `sends`,
`lateSends` and `told` are history variables.

### Conversation with its dialects

`Ask` is a client's turn, with its history translated by the gateway; `AnswerWhole`,
`AnswerStreamed`, and `OpenStream`, `Pass`, `EndStream` are the model's answer translated
back, which the client adds to its history; `BreakOff` ends a stream early. `Counted` is what
the model counted for an answer, `said` what both have said in the model's own terms. Four wires: a chat client of Claude
(`ChatDialect`), an Anthropic client of Claude, an Anthropic client of a Responses model
(`MessagesDialect`; its streams are `StreamAdapter`'s, which agree with whole answers),
and a Responses client with a history of items from several models, whose request is
refused (`Refused`) and repaired by `InputProjection`, in either order of the two repairs.
Texts are sequences of named pieces and arguments are members of a set, so that a piece
lost, doubled or moved is visible. `UsageScan` reads the tokens off the answer's lines for
every way its chunks can be cut.

### EmbeddingsFanout with EmbeddingsRequest

`Receive` is the endpoint: the request of a client is parsed, given its profile's default
dimensions and checked; it is refused, or `bodies` becomes its native requests, one per
text (Titan) or one in all (Cohere). A task per native request acquires the semaphore, in
the order of the texts, tries, settles, or trips and either sleeps, keeping its permit, or
gives up. `late` becomes true at any time: it stands for every relation of the shared
deadline to the tasks. `Answer` is what follows `gather`: the first failure by index
decides; otherwise the adapter renders. A vector is known by the text, the dimensions and
the task it was made of. The answer to a batch has any number of them, none to one more
than its texts.

### MetricsStore

A request is its number in the order of recording, a bucket the set of requests it
counts. `Record` is the locked section of `record_request`; `Enqueue` and `Persist` are
what it does after it; the writer thread takes, fills and writes a batch row by row, as
`executemany` does in autocommit. A write may fail (`WriteFails`), or raise what the
thread does not catch (`WriterDies`, for the requests in `Unbindable`). `Stop` may come
between any two steps, since nothing flushes at shutdown; `Start` reloads.

### RateLimiter

`check()` is one step, `Admit` or `Reject`: all callers are on the event loop and it
awaits nothing. `admitted` and `advised` are history variables.

## 3. Runs

| run | checks | instance and why it is enough |
|---|---|---|
| `upstream` | types; bounded sends; bodies altered only where refused; exact gauge; nothing sent late or unrepaired; refinement of `CallContract!Contract`, with liveness | two calls, two models, three things of which one renames to another, two attempts, two strips, clock 0..1 with a TTL and a budget of one tick: lessons expire, the deadline passes between an answer and its resend, every self-heal fires and a cap is reached in either mode; no symmetry |
| `lifecycle` | types; requests counted out once; connections accounted for; records tell the answers; a faithful relay; no late retry of an invocation; refinement of `CallContract!Contract` with liveness; connections closed | two requests: two pass-throughs, a native stream beside a dashboard page, an invocation beside a listing, another endpoint beside one; each with or without the key; up to two retries and three frames of two halves: every loop is exhausted, late and throttled; every generator ends, breaks, is left, or never begins |
| `conversation` | the model is told all that was said; requests the upstream accepts; usage recorded as counted, with two named exceptions | three turns on each of four wires: a call, its result and an answer to it meet in one history; answers of up to three blocks, whole, streamed or cut anywhere; every setting of thinking, effort and tools that decides a branch, thinking and effort with and without a limit that is within the budget |
| `embeddings` | bounded connections; an answer after no failure, each vector at its text's place; native requests their provider takes; each text tried; no late resend; answered | requests of all four profiles with one, two and three texts, and with each single mistake; batches of two; two permits, so that one of three texts always waits; two attempts each |
| `metrics` | rows accounted for and in order; stored minutes whole; closed minutes stored; panel recent; the queue drains | four requests in four minutes, two lives, a queue and a batch of two, one minute of retention and a recent log of two: each limit is exceeded, minutes without traffic, eviction and the reload occur; one unbindable row |
| `stream_orderly` | event order (refinement of `MessageStream`); agreement with the sync answer; the upstream's own verdict; an end | two items, two parts each, up to two at once, deltas or none, with every verdict, repeated verdicts, breaks and hang-ups |
| `limiter` | no window over the limit; rejections justified | two clients, limit 2, window of three ticks, clock 0..6: two full windows |
| `upstream_prestrip`, `stream_cut`, `metrics_writer`, `conversation_tools`, `lifecycle_gauges` | statements of the repository that the code does not keep, section 4 | |

`CHECK_DEADLOCK FALSE` stands in `Embeddings.cfg`, `Lifecycle.cfg`, `LifecycleGauges.cfg`,
`Conversation.cfg`, `ConversationTools.cfg`, `Metrics.cfg` and `MetricsWriter.cfg`: a request that is answered
and a conversation that is over do nothing more, and a process may end for good. In the
other models a finished system stutters or its clock ends in an explicit step.

### Fairness

- The event loop runs a coroutine that is ready and ends a sleep that is over: weak
  fairness of each step of a call, a task, and the generator.
- httpx's connect, read, write and pool timeouts end an attempt the upstream leaves
  silent: weak fairness of "the attempt ends somehow", never of one outcome. They are
  timeouts per operation: an upstream that sends a little for ever is not stopped by
  them, and the stream model assumes that an upstream says finitely much.
- The writer is a thread of its own and is scheduled: weak fairness of its step.
- In `RequestLifecycle` the loops, the other handlers, the dispatch, the reading of a body
  that is buffered, the end of a wrapped stream whose source has ended, and the closing of
  a generator whose reader is gone are weakly fair. A native upstream need not send or
  end, and nobody need read a stream: `StreamsAreClosed` says what holds without it.
- Nothing is assumed of clients: no fairness on arriving, on reading a stream to its end,
  on requests being recorded, on the process ending.

## 4. Disagreements found

Each is a run that TLC ends with a counterexample, with the quoted line in `PROJECT.json`.

1. "later requests pre-strip the same field before sending so the first attempt already
   succeeds" (server.py:98-100). A rename lesson applied after a drop lesson puts the
   dropped field back.
2. "never synthesize success" (messages_to_responses.py:676). A stream that ends cleanly
   inside its terminal block, whose data is then unreadable, is reported as a success
   because the event type was readable.
3. "Never let a storage error kill the writer thread" (storage.py:404). `OverflowError`
   and `UnicodeEncodeError` of a row that cannot be bound are no `sqlite3.Error`.
4. Chat completions for Claude models are listed "sync + stream" alike (README.md:167).
   Streamed tool calls all have the index 0 (dialect_anthropic.py:139), so a client merges
   several calls of one answer into one.
5. The gauge of requests is bumped "for the duration of each request" (middleware.py:233-234)
   and that of connections comes down "even if the wrapped block raises" (health.py:107-108).
   Both come down in the `finally` of a generator, and one whose client has gone before its
   first chunk is asked for never runs: the request is over, its connection is left to the
   interpreter and it stays in the gauge of requests for good. A buffered body that raises
   (middleware.py:397) and a refused pass-through stream whose body cannot be read
   (server.py:1861-1868) do the same to one gauge each.

Others were met without a run of their own. What the passing properties say of them is
said here, and with the hazards in `PROJECT.json`.

- `max_retries` is documented as "total attempts before giving up" (README.en.md:134), but
  self-heals send on top of it; the proved bound is `MaxRetries + MaxStrips + 2`.
- The retry deadline is to bound "the entire retry sequence" (server.py:649). The stream
  loop of a pass-through retries without a look at it (server.py:1861), and its sync loop
  looks before it sleeps, not after. The model does as they do; `NoLateRetry` is about
  invocations only.
- "401/403 from upstream means our credentials are broken" (metrics.py:434), but the
  gateway's own 401 for a wrong key goes through the same middleware and raises the same
  flag. `RecordsTellTheAnswers` says that an upstream's 401 raises it, not that nothing
  else does.
- "never a partial vector list" (server.py:2243), but nothing compares the vectors of a
  Cohere answer with its texts (embeddings.py:567): fewer or more go on with a 200.
  `WholeOrError` counts them only where one request is made per text.
- A limit that the client names goes on beside whatever thinking budget it named or the
  gateway made (4096 of a "high" effort, 1024 at the least, server.py:993-1014, 1654-1664),
  also if Bedrock refuses the two together. `BodiesAcceptable` rules this out only for the
  limits the gateway fills in.
- The usage of a Responses stream is looked for in "the `response.completed` frame, the only
  carrier of usage in that dialect" (middleware.py:166), but one that ends incomplete has it
  in `response.incomplete`, and is recorded with none; and a chat answer leaves out the
  cached input the model reported (converter.py:237). `UsageRecorded` names both.
- The projection calls itself "lossless" (responses_compatibility.py:20), but tools without
  a name or a label are one to it, images of developer messages are dropped, and so is a
  reasoning item with visible content but no valid summary. The conversations stay clear of
  these.

## 5. Proofs

All theorems hold for any number of calls, models and clients and any bounds, under the
named assumptions on the constants, which the runs evaluate.

**UpstreamProofs.** `TypeCorrect`: one lemma per kind of step (leave, send, back off,
resend, record), then one per action. `SendsAreBounded`: the bound is not inductive; it
needs to know that every send was paid for. `SendLedger` says so: while a call waits or
sleeps, its sends are at most one more than its attempt number, its strips and its one-
shot heals together, and each of these is below its cap. `NothingSentLate` and
`NothingSentBlindly` follow from one lemma about all steps that send (`SendingStep`): it
is the first send, a wake-up with a new attempt before the deadline, or a repair before
the deadline; and every repair changes the body, since the thing named was in it, the
projection differs from it, or it had blobs. `LessonsAreKeyed`: recording under a held
key replaces, under a new key takes a position beyond all others. `BodiesAreFaithful`: the
invariant `Soundness` adds what the property lacks: every lesson in the cache, and every
lesson a call still has to apply, comes from a refusal of its own model recent enough at
the time of the lookup; a later refusal and the passing of time keep that. `GaugeIsExact`:
by the finite set of calls that hold a connection; each step adds one, removes one or
keeps it. `RetriesAreCounted`: `RetryLedger` ties the retry counter to the attempt number.
`CallKeepsContract`: every step maps to a step of `CallContract` or to a stutter. The
supply of sends needs `SendLedger`, so that an attempt of the contract is enabled when the
code sends.

**StreamProofs.** The invariant relates the two ends of the adapter with what is still
between them. `Matches`: the adapter's open blocks are the parts and calls in progress of
the upstream's items, each at its index, so there are never more than `lanes` (`Busy`).
`Reads(c, o, d, n)` says that a client `c` that reads the frames `o` becomes `d`, step
by step, is never confused and has at most `n` blocks open on the way. `OutboxInv`: there
is such a `d` for the frames not yet yielded, and it has exactly what the upstream has said
(`Follows`). Every handler of `on_event` is then a lemma: the frames it appends are read
from one follower to the next (`Opening`, `Saying`, `Closing`, and the `...Answered`
lemmas). `Placed` says that block indices are given once each, and in the order of the
response if its items come one after another, which is what agreement with
`to_anthropic_response` is about. Out of the one invariant come `StreamTypeCorrect`,
`VerdictsAreTheUpstreams`, `StreamsAgreeWithSync` and the refinement
`AdapterKeepsEventOrder` (each frame yielded is a step of `MessageStream`).

**ConversationProofs.** All that `conversation` checks, for conversations of any length and
any sets of options and answers that have the forms the dialects know (`ShapesAssumption`,
`UsagesAssumption`; by `OptionsAssumption` every model has a positive limit of its own, as
config.py gives it; `ArgumentsAssumption` says that the arguments the modelled model uses
are among the objects).

`UsageIsRecorded`: a text of half lines `Spells` its lines and perhaps the first half of
one more. Splitting it gives these lines and that half (`SplitIs`, `WholeLinesAre`), so a
scan over chunks is, after each of them, where a scan of the lines so far would be
(`ChunkScanned`, `ScanningGoesOn`, `StreamScanned`): where the chunks end is of no
consequence. `Spent` is what there is to be found of an answer, by wire and ending. `UsageInv` adds to the property what a streamed chat answer needs
(`StreamInv`): what is left of its events ends with the model's usage, its input tokens are
known from the first event on, and the client gets one usage chunk, after the last event.

`BodiesAreAcceptable`: for the three dialects that are translated, by cases on thinking,
limit and tools (`LimitsAre`, `BuiltFits`); a body stays what was built. For a codex client
the items are followed. Whatever it says, its history has only items of known forms
(`ItemForm`: an argument is a text or an object, and a call that failed is no
`function_call`). The projection leaves an item out or `Mends` it, and keeps every
output as it is; a resend also needs a history in which calls and outputs pair up
(`Related`), so each call that is left has its output (`ProjectMends`). The strip undoes
none of this, and the projection none of the strip's work (`StripMends`), which makes
`BodyInv` inductive under both orders of the repairs.

`HistoryIsFaithful`: what the client has said is what its history tells the model.
`HistInv` says so of the state, a request that is under way, and a stream, and is inductive
with the two invariants above. For each wire there is an operator for what one message tells
(`MessageTells`, `SystemSays`, `ItemSays`, `BlockSays`, `CodexAtoms`, `DeveloperSays`), and
what a history tells is these joined up. Most of the proof is that this goes along
with `\o`: what `s \o t` tells is what `s` tells and then what `t` tells (`HeardConcat`,
`ChatConcat`, `InputConcat`, `AtomsConcat`, `DeveloperConcat`), although systems are
filtered out, calls split messages and contents become items on the way. A step
of the conversation then needs only its own messages:

- A turn of a client tells what the client says by it (`ChatTurnIs`, `MessageTurnIs`,
  `CodexTurnIs`). The parts `MessageItems` gathers come out in their places, by
  induction over the blocks (`OneMoreBlock`, `MessageItemsSay`).
- A whole answer, translated, tells what the model is to see of it (`RenderedSays`,
  `ResponsesAnswer`, `CodexAnswer`).
- Of a streamed chat answer the invariant says that the chunks a client has and the events
  to come add up to the answer (`AddsUp`), in text, calls and arguments each. An event
  moves from one side to the other (`ChunksTell`, `PassAddsUp`); at the end the client
  has put together the answer (`AnswerTells`, `AssembledIs`). This last lemma is where one
  call at most is needed: all chunks of arguments are index 0's.
- A repair turns every item into one that says the same, or into none if it said nothing,
  or into instructions if it was a developer's; the tools lifted out of the items are
  offered beside them (`ProjectedSays`, `ProjectKeeps`, `ProjectOffers`, `StripKeeps`,
  `StripOffers`). The projection needs its own check `safe` for that.

**MetricsProofs.** `MinuteInv`: a bucket that is not flushed is all its minute got in this
life; what is on its way to the table is whole and over; only minutes that are over are
flushed. With it `DiskMinutesAreWhole` and `ClosedMinutesAreOnDisk`. `AccountInv` puts the
rows on one line, from the table through the writer's batch and its queue to the recorder
(`OnLine`): the line is increasing, it has every row that was neither dropped nor lost, and
all of it but the table is of this life: `RowsAreAccounted`. `PanelShowsTheRecent` is
inductive on its own with these, from what `Newest` gives when the largest number is added
(`NewestWithNewer`) and what a reload reads back.

**LifecycleProofs.** Everything `lifecycle` checks but liveness, for any number of requests,
retries and frames. The ground is `PlaceInv`: where a request, its answer, its generator and
its connection can be together. It is proved action by action. A step is then reduced to a
move: what a loop does to its counters (`LoopMove`), what anything does to the connections
(`GaugeMove`), to the record of its own request (`Arrives`, `Finishes`, `Goes`), and that it
leaves the others alone (`Alone`). From these moves follow the ledgers. `Ledger` ties sends,
retries and attempt together and bounds them by the limit; with `LateLedger` it gives
`InvocationsRetryInTime`. `GaugeInv` counts the connections: `GaugeIsAccounted`. `RecordsInv`
counts the requests that wait to be recorded, says that a recorded one is over, why one that
is over may have none (`Excused`), and that the run of errors is what the records say, each by
adding or removing one element:
`RequestsAreCountedOnce`, `RecordsAreTruthful`, `LifecycleTypeCorrect`.
`PassthroughKeepsContract`: each step maps to a step of `CallContract` or a stutter, with
the fuel of a send paid by `Ledger`.

`RelayKeepsEvents` is about the frames, however they are cut. While a stream is well
(`Underway`), the frames the upstream has begun are some `g` followed by some `h`: the
client has the known ones of `g`, and what the gateway keeps, with what is on the wire, are
the halves of `h`, of the last perhaps only the first (`Cut`). Once an error has ended it
(`GivenUp`), the client has the known ones of such a `g` and one error, and there is a
reason for it. The heart is `DecodedIs`: what can be decoded of a chunk is a beginning of
`h`, and at most one half is left over.

**EmbeddingsProofs.** `FanoutInv`: the permits and the tasks that hold one make up the
semaphore, the gauge is the tasks that have sent (`Counted`), and a task is done only
after an attempt (`Tried`). `WholeInv` adds how many native requests there are for each
profile, and that an answer is given when all are done; with it `AnswersAreWhole`.
`NativesAreAcceptable` adds that the bodies stay those that were built of a request that
passed the checks. `FanoutTypeCorrect`: the retry counter is a sum over the tasks; it is
bounded since it never exceeds the number of pairs of a task and one of the backoffs that
task may have had (`Backoffs`), of which a step that counts a retry adds one.

**RateLimiterProofs.** The limiter forgets hits that no window needs any more.
`LimiterInv` says what it keeps: the bucket is the tail of the admissions, in order, and
what was dropped is older than a window. From it `LimiterTypeCorrect`,
`WindowsAreLimited` and `RejectionsAreJustified`.

**SortedSeqsProofs.** That a finite set of numbers has exactly one increasing listing
(`OneListing`, `AscendingIs`), how listings behave under concatenation and a new largest
element, that selecting from two sequences laid end to end is selecting from each
(`SelectedConcat`), which elements a flattened sequence has (`FlattenElements`), that
flattening goes along with `\o`, as then does every translation that does so element by
element (`FlatConcat`, `FlatThrough`), and that what is not selected may as well be flattened
as nothing (`FlattenPicked`). Induction over data is had from the least element of a non-empty set of
numbers (`LeastNumber`, `Induction`), and over sequences from that (`SeqInduction`): the
statement is put as a set, of numbers or of sequences, so that no prover has to instantiate a
theorem with an operator.

`OneLessonPerKey` and `RetriesCounted` are proved and no run states them: they are steps on
the way to the others.

Every safety property that a passing run checks is thus stated by a theorem. Only
model-checked is liveness, which the prover does not reach: `HonoursContract` and
`PassthroughHonoursContract` beyond their safety, `StreamsAreClosed`, `StreamsEnd`,
`Answered`, `QueuedRowsAreTaken`.

## 6. Abstractions and limits

- **Bodies** are sets: a field or tool type that occurs twice counts once. The texts of
  the 400s are not modelled; which recogniser fires is a choice of the upstream, and no
  text is recognised by two of them.
- **Errors** of a call are one outcome: which of 500, 502, 504 or the upstream's status
  it is, is told apart only in `EmbeddingsFanout`, where the order of failures decides.
- **Time** is in ticks up to a horizon; a sleep that would end later ends there. Clocks
  do not run backwards.
- **Cancellation**: a client that leaves ends its own generator (`EndStream`,
  `ClientGone`). A generator that is never begun, and so never reaches its `finally`, is in
  `RequestLifecycle` (`NeverBegun`).
- **Lifecycle**: the safety properties of `lifecycle` state what holds beside the leaks of
  section 4, which `lifecycle_gauges` shows: `CountedOutOnce` says which requests do reach
  their record, `ConnectionsAccounted` which never leave a connection behind. Also as in the
  code: a stream that breaks is recorded with the 200 of its head; an error frame may follow
  `message_stop`; an invocation notes a retry it then has no turn for, and its broken
  connection is a 500 and not retried. Left out: the timeout flag of a record; frames of one chunk are
  processed in one step, since nothing is awaited between them but the client; requests
  for public pages bring no key, and statuses that are not recorded are not told apart.
- **Conversations**: explicit nulls, stop reasons other than a tool's, and lines without
  usage are left out; parts beside an assistant's calls, which the converter renders as
  the text of a Python list, are not sent by the modelled client. A codex client keeps of
  a reasoning item its summary, and a failed request of its ends the conversation.
- **Instructions**: the system prompt of a Messages request, native or translated
  (`_system_to_instructions`), goes on with every request as it came and is not modelled;
  that of a chat client, which is gathered from its messages, is.
- **Projection**: opaque state nested in messages or tool schemas, required fields that
  are missing, developer messages without a type, and the counts for the log are left out.
  Reasoning items have no visible content (`shown` is empty): the loss of it, section 4,
  cannot occur in the model.
- **Stream adapter**: the upstream sends the argument events the API documents; refusal
  parts and the framing of lines are left out; a call cut off by an incomplete response
  is reported as `tool_use`, as the code does. The cut of a block is confined to the run
  `stream_cut`: there a delta cut off before its data is also taken for output 0, part 0,
  and may reach a block that is closed, before the error frame that follows.
- **Metrics**: one recorder, the event loop, because every caller is on it. Latencies,
  token counts and counters are the set of requests they are computed from. A wait for
  the storage's lock is not a step. `flush_pending`, `cleanup_storage` and
  `AsyncWriter.stop` have no callers in the program.
- **Embeddings**: which of several mistakes a refusal names, token totals and the numbers
  in a vector are left out. A batch may be answered with any number of vectors up to one
  more than its texts. A read timeout is among the reasons to give up.
- **External** parts (upstream, client, SQLite, httpx) are modelled by what the code may
  meet, and never assumed to be well behaved beyond what is said here.

## 7. Plan

Done: the core (`LearnedCache`, `UpstreamCall`, `CallContract`); `StreamAdapter` with
`MessageStream`, `RateLimiter`, `MetricsStore`, `EmbeddingsFanout`; the requests around
them: `RawPassthrough`, `MessageRelay` and `RequestLifecycle`, `EmbeddingsRequest`, and the
dialects in `Conversation`; proofs of all safety that the passing runs check.

Open, in this order:

1. The verdict of `upstream_health` over the state `RequestLifecycle` keeps for it, with
   ages.
2. The last minute of a life, which nothing flushes: a property of `MetricsStore` over
   restarts once the program flushes at shutdown.
3. Bounds: a third call, two items with more pieces, a second restart, where the time
   for a run allows.

### Not modelled

- Model registry and configuration: pure functions of files read at start-up, over
  strings; the values the models use are their CONSTANTS. Their cases are enumerable and
  are what unit tests are good at.
- Upstream authentication and transports: signatures, headers and URLs, no state.
- Loop lag, descriptors, expiry of credentials (health.py): sampled numbers that nothing
  in the program reads but the page that shows them.
- Dashboard pages, logging, the model report and the entry points: rendering and I/O.
- `StreamAdapter`'s peers without state: the Responses, audio, image and embeddings
  dialects pass bodies through.
