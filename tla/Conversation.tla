---------------------------- MODULE Conversation ----------------------------
(***************************************************************************)
(* A client talks to a model of another dialect through the gateway, turn  *)
(* after turn: it sends its whole history, the gateway translates it, the  *)
(* model answers, the gateway translates the answer back, whole or as a    *)
(* stream, and the client adds it to its history.                          *)
(*                                                                         *)
(* wire "chat" is an OpenAI chat client of a Claude model, "native" an     *)
(* Anthropic client of one, "responses" an Anthropic client of a Responses *)
(* model, whose streams StreamAdapter shows to agree with whole answers,   *)
(* and "codex" a Responses client of one, which keeps its history in items *)
(* of its own and may have talked to other models in between: its requests *)
(* are repaired only after they were refused.                              *)
(***************************************************************************)
EXTENDS MessagesDialect, InputProjection, UsageScan

CONSTANTS
  Wires,     \* of "chat", "native", "responses" and "codex"
  MaxTurns,  \* bound: requests of a conversation
  Options,   \* what a first request may ask for beside its messages
  Shapes,    \* of each wire: the kinds of blocks, or output items, an answer may have
  Usages     \* what the model may report

BlockKinds(w) ==
  CASE w = "codex" -> {"message", "call", "object_call", "own", "own_alone", "foreign", "id_alone"}
    [] w = "responses" -> {"message", "refusal", "call", "broken_call", "reasoning"}
    [] OTHER -> {"text", "thinking", "call", "bare_call"}
Plainly(o) == o.thinking.kind = "unset" /\ o.effort = "unset" /\ o.tools = {}
Usage == [input : Nat, creation : Nat, read : Nat, cached : Nat, output : Nat]

ASSUME WiresAssumption == Wires \subseteq {"chat", "native", "responses", "codex"}
\* Every model has a limit of its own (config.py), and later requests may ask for nothing.
ASSUME OptionsAssumption ==
  /\ \A o \in Options :
       /\ o.thinking \in [kind : {"unset", "adaptive", "disabled", "enabled"}, budget : Nat]
       /\ o.max_tokens \in Nat /\ o.default_max \in Nat \ {0}
  /\ \E o \in Options : Plainly(o)
ASSUME ShapesAssumption == \A w \in Wires : Shapes[w] \subseteq Seq(BlockKinds(w))
ASSUME UsagesAssumption == Usages \subseteq Usage
\* The objects a call may have as its arguments, which the model of the calls below names.
ASSUME ArgumentsAssumption == "x" \in Objects

VARIABLES
  wire,
  turn,     \* requests so far
  pc,       \* "client", "asked", "streaming" or "over"
  history,  \* the client's messages
  system,   \* what the client said as its system prompt
  said,     \* history: what client and model said, in the model's terms
  body,     \* what the gateway sent, until the answer begins
  answer,   \* the model's answer, while it is streamed
  events,   \* what is left of its stream
  chunks,   \* what the client has got of it
  tokens,   \* input tokens the stream remembers
  merged,   \* history: several calls were streamed in one answer
  used,     \* history: tokens the model counted for the last answer, see Counted
  recorded  \* tokens the metrics middleware recorded of it

talk == <<wire, turn, history, system, said>>
stream == <<answer, events, chunks, tokens>>
vars == <<talk, body, pc, stream, merged, used, recorded>>

NoBody == [messages |-> <<>>, system |-> <<>>]

Init ==
  /\ wire \in Wires
  /\ turn = 0 /\ pc = "client" /\ history = <<>> /\ system = <<>> /\ said = <<>>
  /\ body = NoBody
  /\ answer = <<>> /\ events = <<>> /\ chunks = <<>> /\ tokens = 0
  /\ merged = FALSE
  /\ used = [in |-> 0, out |-> 0, cached |-> 0, ended |-> "whole"] /\ recorded = NothingFound

-----------------------------------------------------------------------------
\* The client and the model, with names for all they say by turn and place.

Word(t, k) == <<t, k, "a">>
Words(t, k) == <<Word(t, k), <<t, k, "b">>>>
Id(t, k) == <<t, k>>
Image == [type |-> "image", source |-> "url"]

ClaudeBlock(kind, t, k) ==
  CASE kind = "call" -> ToolUse(Id(t, k), "x")
    [] kind = "bare_call" -> ToolUse(Id(t, k), "empty")
    [] kind = "thinking" -> [type |-> "thinking", text |-> Words(t, k)]
    [] kind = "text" -> Text(Words(t, k))

OutputText(t) == [type |-> "output_text", text |-> t]
OutputItem(kind, t, k) ==
  CASE kind = "message" -> [item |-> "message", parts |-> <<OutputText(Words(t, k)), OutputText(<<>>)>>]
    [] kind = "refusal" -> [item |-> "message", parts |-> <<[type |-> "refusal"]>>]
    [] kind = "call" -> [item |-> "function_call", id |-> Id(t, k), arguments |-> Json("x")]
    [] kind = "broken_call" -> [item |-> "function_call", id |-> Id(t, k), arguments |-> <<Json("x")[1]>>]
    [] kind = "reasoning" -> [item |-> "reasoning"]

\* A codex client keeps its calls' payloads as objects too, with statuses the validator
\* does not know, and reasoning with whatever another model left there.
Call(type, id, payload, status) ==
  [item |-> type, id |-> id, payload |-> payload, status |-> status]
Reasoning(opaque, valid, text) ==
  [item |-> "reasoning", opaque |-> opaque, summary |-> [valid |-> valid, text |-> text], shown |-> <<>>]
CodexItem(kind, t, k) ==
  CASE kind = "message" -> MessageItem("assistant", <<OutputText(Words(t, k))>>)
    [] kind = "call" -> Call("function_call", Id(t, k), Plain(Json("x")), "completed")
    [] kind = "object_call" -> Call("custom_tool_call", Id(t, k), [form |-> "object", value |-> "x"], "failed")
    [] kind = "own" -> Reasoning("bedrock", TRUE, Words(t, k))
    [] kind = "own_alone" -> Reasoning("bedrock", FALSE, <<>>)
    [] kind = "foreign" -> Reasoning("foreign", TRUE, Words(t, k))
    [] kind = "id_alone" -> Reasoning("none", FALSE, <<>>)

AnswerOf(shape, u) ==
  IF wire = "codex"
  THEN [output |-> [k \in DOMAIN shape |-> CodexItem(shape[k], turn, k)], usage |-> u]
  ELSE IF wire = "responses"
  THEN [output |-> [k \in DOMAIN shape |-> OutputItem(shape[k], turn, k)],
        status |-> "completed", usage |-> u]
  ELSE [content |-> [k \in DOMAIN shape |-> ClaudeBlock(shape[k], turn, k)], usage |-> u]

\* What the model is to see of its answer when it comes back: thinking is never shown
\* to it again, except where nothing is translated.  A chat message has one text,
\* before its calls, and a blank one rather than none.
By(role, blocks) == [k \in DOMAIN blocks |-> [by |-> role, what |-> blocks[k]]]
SeenChat(blocks) ==
  LET text == TextsOf(blocks)
      calls == OfType(blocks, "tool_use")
  IN By("assistant", (IF text # <<>> THEN <<Text(text)>> ELSE IF calls = <<>> THEN <<Text(Blank)>>
                      ELSE <<>>) \o calls)
SeenOutput(i) ==
  CASE i.item = "message" -> OfType(i.parts, "output_text")
    [] i.item = "function_call" ->
         <<[i EXCEPT !.arguments = IF @ = Json("x") THEN @ ELSE Json("empty")]>>
    [] OTHER -> <<>>
\* What a codex client's item says, whatever its form; reasoning says its summary.
MessageAtoms(i) ==
  IF IsDeveloper(i) THEN <<>>
  ELSE By(i.role, [k \in DOMAIN i.parts |->
                     IF i.parts[k].type \in TextItems THEN Text(i.parts[k].text) ELSE i.parts[k]])
CodexAtoms(i) ==
  CASE i.item = "message" -> MessageAtoms(i)
    [] i.item \in TextItems -> By(IF i.item = "output_text" THEN "assistant" ELSE "user", <<Text(i.text)>>)
    [] i.item = "agent_message" ->
         By("user", [k \in DOMAIN OfType(i.parts, "input_text") |-> Text(OfType(i.parts, "input_text")[k].text)])
    [] i.item \in CallItems ->
         By("assistant", <<ToolUse(i.id, IF i.payload.form = "object" THEN i.payload.value ELSE Loads(i.payload.text))>>)
    [] i.item \in OutputItems -> By("user", <<ToolResult(i.id, i.text)>>)
    [] i.item = "reasoning" ->
         IF i.summary.valid /\ i.summary.text # <<>>
         THEN By("assistant", <<[type |-> "thinking", text |-> i.summary.text]>>) ELSE <<>>
    [] i.item = "additional_tools" -> <<>>
    [] OTHER -> By("user", <<i>>)
AtomsOf(items) == FlattenSeq([k \in DOMAIN items |-> CodexAtoms(items[k])])
DeveloperTexts(items) ==
  LET ds == Selected(items, {k \in DOMAIN items : IsDeveloper(items[k])}) IN [k \in DOMAIN ds |-> DeveloperText(ds[k])]

Seen(a) ==
  CASE wire = "codex" -> AtomsOf(a.output)
    [] wire = "chat" -> SeenChat(a.content)
    [] wire = "native" -> By("assistant", a.content)
    [] wire = "responses" ->
         By("assistant", FlattenSeq([k \in DOMAIN a.output |-> SeenOutput(a.output[k])]))

\* Calls the client has to answer, as it knows them.
CallsOf(m) ==
  IF m.role # "assistant" THEN <<>>
  ELSE IF wire = "chat" THEN IF "calls" \in DOMAIN m THEN [k \in DOMAIN m.calls |-> m.calls[k].id] ELSE <<>>
  ELSE LET uses == OfType(m.content, "tool_use") IN [k \in DOMAIN uses |-> uses[k].id]
OpenCalls ==
  IF wire = "codex"
  THEN LET calls == Selected(history, {k \in DOMAIN history :
                               history[k].item \in CallItems /\ history[k].id[1] = turn})
       IN [k \in DOMAIN calls |-> calls[k].id]
  ELSE IF history = <<>> THEN <<>> ELSE CallsOf(history[Len(history)])

\* A turn of the client: its messages, its system prompt, and what it says by them.
Turn(messages, prompt, what) == [messages |-> messages, system |-> prompt, said |-> By("user", what)]
Result(k) == <<"result", turn, k>>

ChatTurns ==
  LET ids == OpenCalls
      user(c) == [role |-> "user", content |-> c]
      hint == [role |-> "system", content |-> Parts(<<[type |-> "text", text |-> Words(turn, 0)]>>)]
  IN IF ids # <<>>
     THEN {Turn([k \in DOMAIN ids |-> [role |-> "tool", id |-> ids[k], text |-> <<Result(k)>>]], <<>>,
                [k \in DOMAIN ids |-> ToolResult(ids[k], <<Result(k)>>)])}
     ELSE {Turn(<<user(Plain(Words(turn, 1)))>>, <<>>, <<Text(Words(turn, 1))>>),
           Turn(<<user(Parts(<<[type |-> "text", text |-> Words(turn, 1)], Image, [type |-> "thinking"]>>)), hint>>,
                <<Words(turn, 0)>>, <<Text(Words(turn, 1)), Image>>),
           Turn(<<hint, user(Parts(<<[type |-> "no_image"]>>))>>, <<Words(turn, 0)>>, <<Text(Blank)>>)}

\* An Anthropic client says it all in one message; its results may be text or blocks.
MessageTurns ==
  LET ids == OpenCalls
      block(k) == [type |-> "tool_result", id |-> ids[k],
                   content |-> IF k = 1 THEN [form |-> "text", text |-> <<Result(k)>>]
                               ELSE [form |-> "blocks", blocks |-> <<Text(<<Result(k)>>), Image>>]]
      results == [k \in DOMAIN ids |-> block(k)]
      all(blocks) == <<[role |-> "user", content |-> blocks]>>
      words == Text(Words(turn, 1))
      part(b) == PartOf(b, "user")[1]
      output(k) == [item |-> "function_call_output", id |-> ids[k],
                    text |-> IF k = 1 THEN <<Result(k)>> ELSE <<Result(k)>> \o Json("image")]
      told(blocks) == IF wire = "native" THEN results \o blocks
                      ELSE [k \in DOMAIN ids |-> output(k)] \o [k \in DOMAIN blocks |-> part(blocks[k])]
  IN {Turn(all(results \o blocks), <<>>, told(blocks)) :
        blocks \in {<<words>>, <<Image, words>>} \union (IF ids = <<>> THEN {} ELSE {<<>>})}

\* A codex client: plain words and an image, bare text after a hint for the model,
\* another agent's words and further tools, or what only its own machine can do.  One
\* that was interrupted goes on without the results of its calls.
Tool(key, options) == [key |-> key, options |-> options]
Standing == <<Tool("exec", "none"), Tool("web_search", "search_content_types")>>
Further == <<Tool("exec", "none"), Tool("plan", "none")>>
CodexTurns ==
  LET ids == OpenCalls
      words == Words(turn, 1)
      hint == MessageItem("developer", <<InputText(Words(turn, 0))>>)
      spoken ==
        {<<MessageItem("user", <<[type |-> "text", text |-> words], [type |-> "input_image"]>>)>>,
         <<hint, [item |-> "input_text", text |-> words]>>,
         <<[item |-> "additional_tools", tools |-> Further],
           [item |-> "agent_message", parts |-> <<InputText(words), [type |-> "encrypted_content"]>>]>>,
         <<[item |-> "local_shell_call"]>>}
      results == [k \in DOMAIN ids |->
                    [item |-> "function_call_output", id |-> ids[k], text |-> <<<<"result", turn, k>>>>]]
  IN {Turn(items, DeveloperTexts(items), <<>>) :
        items \in IF ids = <<>> THEN spoken ELSE {results, <<MessageItem("user", <<InputText(words)>>)>>}}

Turns ==
  CASE wire = "chat" -> ChatTurns
    [] wire = "codex" -> {[t EXCEPT !.said = AtomsOf(t.messages)] : t \in CodexTurns}
    [] OTHER -> MessageTurns

-----------------------------------------------------------------------------
\* The gateway

\* What of a request goes to the model; of a codex client, all of it as it is.
Built(ms, o) ==
  CASE wire = "codex" ->
         [messages |-> ms, system |-> <<>>, tools |-> Standing, context |-> "foreign", healed |-> {}]
    [] wire = "chat" ->
         [messages |-> ChatMessages(ms), system |-> ChatSystem(ms), limits |-> ChatLimits(o),
          tool_choice |-> ToolChoice(o.choice, o.tools), tools |-> o.tools, asked |-> o]
    [] wire = "native" ->
         [messages |-> ms, system |-> <<>>, limits |-> Limits(o, o.thinking),
          tool_choice |-> o.choice, tools |-> o.tools, asked |-> o]
    [] wire = "responses" ->
         [messages |-> ResponsesInput(ms), system |-> <<>>,
          limits |-> [max_tokens |-> IF o.max_tokens # 0 THEN o.max_tokens ELSE o.default_max,
                      thinking |-> Thinking("unset", 0), temperature |-> TRUE],
          tool_choice |-> ResponsesToolChoice(o.choice, o.tools), tools |-> o.tools, asked |-> o]

\* The client speaks and sends its history, later requests with nothing beside it.
Bare == CHOOSE o \in Options : Plainly(o)

Ask ==
  /\ pc = "client" /\ turn < MaxTurns
  /\ turn' = turn + 1
  /\ \E t \in Turns :
       /\ history' = history \o t.messages
       /\ system' = system \o t.system
       /\ said' = said \o t.said
       /\ \E o \in IF turn = 0 THEN Options ELSE {Bare} : body' = Built(history', o)
  /\ pc' = "asked"
  /\ UNCHANGED <<wire, stream, merged, used, recorded>>

\* The validator refuses the items or the opaque reasoning: each is repaired once, if
\* that changes anything and is safe, or the client gets the error.
Resend(kind, safe, repaired) ==
  IF kind \notin body.healed /\ safe /\ repaired # body
  THEN body' = [repaired EXCEPT !.healed = @ \union {kind}] /\ UNCHANGED pc
  ELSE pc' = "over" /\ UNCHANGED body

Refused ==
  /\ pc = "asked" /\ wire = "codex"
  /\ \/ LET p == Project(body) IN Resend("projected", p.safe, p.body)
     \/ Resend("stripped", TRUE, StripReasoning(body))
  /\ UNCHANGED <<talk, stream, merged, used, recorded>>

\* The model's answer has reached the client, and was recorded with these tokens.
Told(a, messages, found) ==
  /\ history' = history \o messages
  /\ said' = said \o Seen(a)
  /\ recorded' = found
  /\ body' = NoBody
  /\ pc' = "client"
  /\ UNCHANGED <<wire, turn, system>>

\* What the model counted for it: Claude's cached tokens are beside its input, those of a
\* Responses model in it.
Counted(a, ended) ==
  used' = [in |-> IF wire \in {"chat", "native"} THEN InputTotal(a.usage) ELSE a.usage.input,
           out |-> a.usage.output,
           cached |-> a.usage.creation + a.usage.read,
           ended |-> ended]

\* The usage of a chat answer, as the middleware finds it in its JSON.
ChatUsage(u) == [input |-> u.prompt, creation |-> 0, read |-> 0, output |-> u.completion]
ItemsUsage(u) == [input |-> u.input, creation |-> 0, read |-> 0, output |-> u.output]

Whole(a) ==
  CASE wire = "chat" ->
         LET r == RenderChat(a) IN Told(a, <<r.message>>, JsonUsage(ChatUsage(r.usage)))
    [] wire = "native" ->
         Told(a, <<[role |-> "assistant", content |-> a.content]>>, JsonUsage(a.usage))
    [] wire = "responses" ->
         LET r == RenderMessages(a)
         IN Told(a, <<[role |-> "assistant", content |-> r.content]>>, JsonUsage(r.usage))
    [] wire = "codex" -> Told(a, a.output, JsonUsage(ItemsUsage(a.usage)))

AnswerWhole ==
  /\ pc = "asked"
  /\ \E shape \in Shapes[wire], u \in Usages :
       Whole(AnswerOf(shape, u)) /\ Counted(AnswerOf(shape, u), "whole")
  /\ UNCHANGED <<stream, merged>>

\* The lines with usage of a stream of Anthropic events, or of a Responses stream, which
\* tells it with its end: "completed", or "incomplete" at the limit of its tokens.
StreamLines(a, ended) ==
  IF wire = "codex"
  THEN <<Line(IF ended = "completed" THEN "response.completed" ELSE "response.incomplete",
              ItemsUsage(a.usage))>>
  ELSE IF wire = "native"
  THEN <<Line("message_start", [a.usage EXCEPT !.output = 1]),
         Line("message_delta", [input |-> 0, creation |-> 0, read |-> 0, output |-> a.usage.output])>>
  ELSE <<Line("message_start", SplitUsage([input |-> 0, cached |-> 0, output |-> 0])),
         Line("message_delta", SplitUsage(a.usage))>>

AnswerStreamed ==
  /\ pc = "asked" /\ wire # "chat"
  /\ \E shape \in Shapes[wire], u \in Usages, ended \in {"completed", "incomplete"} :
       LET a == AnswerOf(shape, u)
       IN /\ Counted(a, ended)
          /\ \E c \in Cuttings(HalvesOf(StreamLines(a, ended))) :
               Told(a, IF wire = "codex" THEN a.output
                       ELSE <<[role |-> "assistant",
                               content |-> IF wire = "native" THEN a.content ELSE RenderMessages(a).content]>>,
                    ScanStream(c))
  /\ UNCHANGED <<stream, merged>>

\* The events of Claude's answer: every text and every object comes in two pieces, the
\* empty object in none.
BlockEvents(b) ==
  LET start == IF b.type = "tool_use" THEN [type |-> "block_start", block |-> b.type, id |-> b.id]
               ELSE [type |-> "block_start", block |-> b.type]
      text == IF b.type # "tool_use" THEN b.text ELSE IF b.input = "empty" THEN <<>> ELSE Json(b.input)
  IN <<start>> \o [k \in DOMAIN text |-> [type |-> "delta", block |-> b.type, text |-> <<text[k]>>]]
     \o <<[type |-> "block_stop"]>>

EventsOf(a) ==
  <<[type |-> "message_start", usage |-> a.usage]>>
  \o FlattenSeq([k \in DOMAIN a.content |-> BlockEvents(a.content[k])])
  \o <<[type |-> "message_delta", usage |-> a.usage,
        stop |-> IF OfType(a.content, "tool_use") # <<>> THEN "tool_use" ELSE "end_turn"]>>

OpenStream ==
  /\ pc = "asked" /\ wire = "chat"
  /\ \E shape \in Shapes[wire], u \in Usages :
       /\ answer' = AnswerOf(shape, u)
       /\ events' = EventsOf(answer')
       /\ merged' = (merged \/ Len(OfType(answer'.content, "tool_use")) > 1)
  /\ chunks' = <<>> /\ tokens' = 0
  /\ body' = NoBody
  /\ pc' = "streaming"
  /\ UNCHANGED <<talk, used, recorded>>

Pass ==
  /\ pc = "streaming" /\ events # <<>>
  /\ tokens' = Remembered(Head(events), tokens)
  /\ chunks' = chunks \o Chunks(Head(events), tokens')
  /\ events' = Tail(events)
  /\ UNCHANGED <<talk, body, pc, answer, merged, used, recorded>>

\* The model breaks off: an error chunk and the end, and no answer for the client.
BreakOff ==
  /\ pc = "streaming" /\ events # <<>>
  /\ chunks' = chunks \o Chunks([type |-> "exception"], tokens)
  /\ events' = <<>>
  /\ pc' = "over"
  /\ UNCHANGED <<talk, body, answer, tokens, merged, used, recorded>>

\* How a client puts chunks together: the texts in order, and each call from the
\* chunks of its index, of which the first has its id.
OfKind(kind) == Selected(chunks, {k \in DOMAIN chunks : chunks[k].kind = kind})
Joined(cs) == FlattenSeq([k \in DOMAIN cs |-> cs[k].text])
Assembled ==
  LET starts == OfKind("call")
      parts == OfKind("arguments")
      first(i) == Selected(starts, {k \in DOMAIN starts : starts[k].index = i})[1]
      pieces(i) == Selected(parts, {k \in DOMAIN parts : parts[k].index = i})
      indices == Ascending({starts[k].index : k \in DOMAIN starts})
      calls == [k \in DOMAIN indices |->
                  [id |-> first(indices[k]).id,
                   arguments |-> FlattenSeq([j \in DOMAIN pieces(indices[k]) |-> pieces(indices[k])[j].arguments])]]
  IN ChatMessage(Joined(OfKind("content")), Joined(OfKind("reasoning")), calls)

EndStream ==
  /\ pc = "streaming" /\ events = <<>>
  /\ \E c \in Cuttings(HalvesOf(<<Line("chunk", ChatUsage(OfKind("usage")[1].usage))>>)) :
       Told(answer, <<Assembled>>, ScanStream(c)) /\ Counted(answer, "completed")
  /\ answer' = <<>> /\ chunks' = <<>> /\ tokens' = 0
  /\ UNCHANGED <<events, merged>>

Next == Ask \/ Refused \/ AnswerWhole \/ AnswerStreamed \/ OpenStream \/ Pass \/ BreakOff \/ EndStream

Spec == Init /\ [][Next]_vars

-----------------------------------------------------------------------------
\* What the model is sent, block by block.
Atoms ==
  IF wire = "codex" THEN AtomsOf(body.messages)
  ELSE IF wire = "responses"
  THEN FlattenSeq([k \in DOMAIN body.messages |->
         LET i == body.messages[k]
         IN CASE i.item = "message" -> By(i.role, i.parts)
              [] i.item = "function_call" -> By("assistant", <<i>>)
              [] OTHER -> By("user", <<i>>)])
  ELSE FlattenSeq([k \in DOMAIN body.messages |->
         By(body.messages[k].role, body.messages[k].content)])

\* The tools a codex client has offered, and those its request offers now.
Offers(tools, items) ==
  {tools[k].key : k \in DOMAIN tools}
    \union UNION {{items[k].tools[j].key : j \in DOMAIN items[k].tools} :
                   k \in {n \in DOMAIN items : items[n].item = "additional_tools"}}

\* In every turn the model is sent the whole conversation: all that the client and the
\* model itself have said, once each, in their order and by who said it, whichever way
\* its answers came; calls keep their ids and arguments, and their results the ids of
\* their calls; also after a refused request was repaired, which in addition keeps its
\* instructions and tools.  Except when several calls were streamed in one chat answer.
HistoryFaithful ==
  pc = "asked" /\ ~merged =>
    /\ Atoms = said
    /\ IF wire = "codex"
       THEN /\ body.system \o DeveloperTexts(body.messages) = system
            /\ Offers(body.tools, body.messages) = Offers(Standing, history)
       ELSE body.system = system

\* README.md:167 lists chat completions for Claude models "sync + stream" alike: the
\* exception is none.
StreamedCallsSurvive == pc = "asked" => Atoms = said

\* What is recorded of an answer is what the model counted for it, whole or streamed,
\* wherever the chunks of a stream end, and cached tokens once; except where the gateway
\* does not pass it on or look at it, and then never more than was counted: a chat
\* answer tells the input that was not cached (convert_usage), and the usage of a
\* Responses stream that ends incomplete is in an event that is not scanned.
UsageRecorded ==
  /\ recorded.in <= used.in /\ recorded.out <= used.out
  /\ ~(wire = "codex" /\ used.ended = "incomplete") =>
       /\ recorded.out = used.out
       /\ recorded.in = IF wire = "chat" THEN used.in - used.cached ELSE used.in

\* Bedrock takes no temperature with thinking, no budget under 1024 (README.md:805), no
\* limit within the budget, and no tool choice without tools.  The gateway sends none of
\* the first two; a limit it fills in itself is above the budget it sends with it, but one
\* that a client names goes on as it is, whatever the budget, in either dialect and also
\* where the budget was made of an effort or raised to the least; and a tool choice
\* without tools goes on only from a client of the model's own dialect.  A request of
\* items it repairs has none of the forms the repairs are there for, and no call or
\* result alone.
LimitsFit ==
  LET l == body.limits
  IN /\ l.temperature => l.thinking.kind = "unset"
     /\ l.thinking.kind = "enabled" => l.thinking.budget >= MinBudget
     /\ IF body.asked.max_tokens # 0 THEN l.max_tokens = body.asked.max_tokens
        ELSE l.thinking.kind = "enabled" => l.max_tokens > l.thinking.budget
     /\ wire # "native" /\ body.tools = {} => body.tool_choice = "unset"
ItemFits(i) ==
  CASE i.item = "message" -> i.role # "developer" /\ \A k \in DOMAIN i.parts : i.parts[k].type # "text"
    [] i.item \in CallItems ->
         /\ i.payload.form = "text" /\ i.status # "failed"
         /\ \E k \in DOMAIN body.messages :
              body.messages[k].item \in OutputItems /\ body.messages[k].id = i.id
    [] i.item = "reasoning" -> i.opaque # "foreign" /\ (i.opaque = "bedrock" \/ i.summary.valid)
    [] OTHER -> i.item \in OutputItems \union PassedItems
BodiesAcceptable ==
  pc = "asked" =>
    IF wire = "codex"
    THEN /\ "projected" \in body.healed => \A k \in DOMAIN body.messages : ItemFits(body.messages[k])
         /\ "stripped" \in body.healed =>
              \A k \in DOMAIN body.messages :
                body.messages[k].item = "reasoning" => body.messages[k].opaque = "none"
    ELSE LimitsFit
=============================================================================
