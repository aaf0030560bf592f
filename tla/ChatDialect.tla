----------------------------- MODULE ChatDialect -----------------------------
(***************************************************************************)
(* converter.py and dialect_anthropic.py: an OpenAI chat conversation is   *)
(* told to a Claude model as Anthropic Messages, and its answer is told    *)
(* back as one chat message or as a stream of chunks.                      *)
(*                                                                         *)
(* A text is a sequence of pieces, so that a stream can cut it; the JSON   *)
(* text of an object is one that json.loads reads back.                    *)
(***************************************************************************)
EXTENDS SortedSeqs

CONSTANTS Objects  \* arguments of tool calls; "empty" is {}

ASSUME ObjectsAssumption == "empty" \in Objects

Json(x) == <<[json |-> x, part |-> 1], [json |-> x, part |-> 2]>>

\* json.loads with its except: text that is no object's becomes {}.
Loads(text) == IF \E x \in Objects : text = Json(x) THEN CHOOSE x \in Objects : text = Json(x)
               ELSE "empty"

Text(t) == [type |-> "text", text |-> t]
ToolUse(id, x) == [type |-> "tool_use", id |-> id, input |-> x]
ToolResult(id, t) == [type |-> "tool_result", id |-> id, text |-> t]
Blank == <<" ">>

TextsOf(blocks) == FlattenSeq([k \in DOMAIN blocks |->
                     IF blocks[k].type = "text" THEN blocks[k].text ELSE <<>>])
ThoughtsOf(blocks) == FlattenSeq([k \in DOMAIN blocks |->
                        IF blocks[k].type = "thinking" THEN blocks[k].text ELSE <<>>])
OfType(blocks, t) == Selected(blocks, {k \in DOMAIN blocks : blocks[k].type = t})

-----------------------------------------------------------------------------
\* The request

\* A chat message's content is a text, null, or parts.
NoContent == [form |-> "null"]
Plain(t) == [form |-> "text", text |-> t]
Parts(ps) == [form |-> "parts", parts |-> ps]

\* An image is taken from a data: or another URL; one without either vanishes, as
\* thinking does; a part of another type is told as its JSON.
PartBlocks(p) ==
  CASE p.type = "text" -> <<Text(p.text)>>
    [] p.type = "image" -> <<[type |-> "image", source |-> p.source]>>
    [] p.type \in {"no_image", "thinking"} -> <<>>
    [] OTHER -> <<Text(Json(p.type))>>

\* convert_content_to_anthropic, with a string content as its one text block.
ContentBlocks(c) ==
  CASE c.form = "null" -> <<Text(Blank)>>
    [] c.form = "text" -> <<Text(c.text)>>
    [] c.form = "parts" ->
         LET blocks == FlattenSeq([k \in DOMAIN c.parts |-> PartBlocks(c.parts[k])])
         IN IF blocks = <<>> THEN <<Text(Blank)>> ELSE blocks

\* _convert_assistant_tool_calls: text, if any, comes before the calls; parts are told
\* as Python writes a list.
CallBlocks(m) ==
  LET text == CASE m.content.form = "null" -> <<>>
                [] m.content.form = "text" -> m.content.text
                [] m.content.form = "parts" -> IF m.content.parts = <<>> THEN <<>> ELSE <<"[...]">>
      calls == [k \in DOMAIN m.calls |-> ToolUse(m.calls[k].id, Loads(m.calls[k].arguments))]
      blocks == (IF text = <<>> THEN <<>> ELSE <<Text(text)>>) \o calls
  IN IF blocks = <<>> THEN <<Text(Blank)>> ELSE blocks

\* convert_message.  An assistant message has calls if its tool_calls are there.
ConvertMessage(m) ==
  CASE m.role = "tool" ->
         [role |-> "user", content |-> <<ToolResult(m.id, m.text)>>]
    [] m.role = "assistant" /\ "calls" \in DOMAIN m ->
         [role |-> "assistant", content |-> CallBlocks(m)]
    [] OTHER -> [role |-> m.role, content |-> ContentBlocks(m.content)]

\* extract_system_and_messages: texts of system messages are joined, wherever they are.
SystemTexts(m) ==
  CASE m.content.form = "null" -> <<>>
    [] m.content.form = "text" -> <<m.content.text>>
    [] m.content.form = "parts" ->
         LET texts == OfType(m.content.parts, "text")
         IN [k \in DOMAIN texts |-> texts[k].text]

IsSystem(m) == m.role = "system"
ChatSystem(ms) ==
  LET system == Selected(ms, {k \in DOMAIN ms : IsSystem(ms[k])})
  IN FlattenSeq([k \in DOMAIN system |-> SystemTexts(system[k])])
ChatMessages(ms) ==
  LET rest == Selected(ms, {k \in DOMAIN ms : ~IsSystem(ms[k])})
  IN [k \in DOMAIN rest |-> ConvertMessage(rest[k])]

\* convert_tool_choice: only if there are tools, and unknown values are left out.
ToolChoice(choice, tools) ==
  IF tools = {} THEN "unset"
  ELSE CASE choice = "required" -> "any"
         [] choice \in {"auto", "none"} \union (tools \ {"required"}) -> choice
         [] OTHER -> "unset"

\* Thinking: "unset", "adaptive", "disabled", or "enabled" with a budget.
Thinking(kind, budget) == [kind |-> kind, budget |-> budget]
MinBudget == 1024
Effort == [minimal |-> 128, low |-> 1024, medium |-> 2048, high |-> 4096]

\* map_reasoning_effort: some models think adaptively, whatever the effort.
MapEffort(effort, adaptive) ==
  IF effort \notin DOMAIN Effort THEN Thinking("unset", 0)
  ELSE IF adaptive THEN Thinking("adaptive", 0) ELSE Thinking("enabled", Effort[effort])

\* "Budget tokens minimum clamp (Bedrock requires >= 1024)".
Clamped(t) == IF t.kind = "enabled" /\ t.budget < MinBudget THEN [t EXCEPT !.budget = MinBudget] ELSE t

\* The limits of the Bedrock body, of a chat and of a Messages request alike: 0 stands
\* for a max_tokens the client left out.
Limits(o, t) ==
  LET thinking == Clamped(t)
  IN [max_tokens |-> IF o.max_tokens # 0 THEN o.max_tokens
                     ELSE IF t.kind = "enabled" THEN thinking.budget + o.default_max
                     ELSE o.default_max,
      thinking |-> thinking,
      temperature |-> t.kind = "unset"]

\* thinking takes precedence over reasoning_effort.
ChatLimits(o) ==
  Limits(o, IF o.thinking.kind # "unset" THEN o.thinking ELSE MapEffort(o.effort, o.adaptive))

-----------------------------------------------------------------------------
\* The answer

ChatMessage(text, thoughts, calls) ==
  LET content == IF text = <<>> THEN NoContent ELSE Plain(text)
  IN IF calls = <<>> THEN [role |-> "assistant", content |-> content, reasoning |-> thoughts]
     ELSE [role |-> "assistant", content |-> content, reasoning |-> thoughts, calls |-> calls]

\* parse_bedrock_response and convert_usage: texts are joined, and so are thoughts.
RenderChat(answer) ==
  LET tools == OfType(answer.content, "tool_use")
      calls == [k \in DOMAIN tools |-> [id |-> tools[k].id, arguments |-> Json(tools[k].input)]]
  IN [message |-> ChatMessage(TextsOf(answer.content), ThoughtsOf(answer.content), calls),
      finish |-> IF calls # <<>> THEN "tool_calls" ELSE "stop",
      usage |-> [prompt |-> answer.usage.input, completion |-> answer.usage.output]]

\* transform_stream: the chunks for one event, and the input tokens it remembers.  Every
\* call is given the index 0.
Chunks(e, tokens) ==
  CASE e.type = "message_start" -> <<[kind |-> "role"]>>
    [] e.type = "block_start" /\ e.block = "tool_use" ->
         <<[kind |-> "call", index |-> 0, id |-> e.id, arguments |-> <<>>]>>
    [] e.type = "delta" /\ e.block = "text" -> <<[kind |-> "content", text |-> e.text]>>
    [] e.type = "delta" /\ e.block = "tool_use" ->
         <<[kind |-> "arguments", index |-> 0, arguments |-> e.text]>>
    [] e.type = "delta" /\ e.block = "thinking" -> <<[kind |-> "reasoning", text |-> e.text]>>
    [] e.type = "message_delta" ->
         <<[kind |-> "finish", finish |-> IF e.stop = "tool_use" THEN "tool_calls" ELSE "stop"],
           [kind |-> "usage", usage |-> [prompt |-> tokens, completion |-> e.usage.output]]>>
    [] e.type = "exception" -> <<[kind |-> "error"], [kind |-> "done"]>>
    [] OTHER -> <<>>

\* Input tokens of a message_delta count if it has any.
Remembered(e, tokens) ==
  CASE e.type = "message_start" -> e.usage.input
    [] e.type = "message_delta" /\ e.usage.input # 0 -> e.usage.input
    [] OTHER -> tokens
=============================================================================
