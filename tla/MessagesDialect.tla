--------------------------- MODULE MessagesDialect ---------------------------
(***************************************************************************)
(* messages_to_responses.py without its streams: an Anthropic Messages     *)
(* request is told to a Responses model as input items, and its response   *)
(* is told back as one message.                                            *)
(***************************************************************************)
EXTENDS ChatDialect

-----------------------------------------------------------------------------
\* The request

\* _text_image_part: a thinking block, or an image without a source, gives nothing.
PartOf(b, role) ==
  CASE b.type = "text" ->
         <<[type |-> IF role = "assistant" THEN "output_text" ELSE "input_text", text |-> b.text]>>
    [] b.type = "image" -> <<[type |-> "input_image", source |-> b.source]>>
    [] OTHER -> <<>>

\* _tool_result_to_text: a text, or blocks of which the texts are joined with the JSON
\* of the others.
ResultText(c) ==
  CASE c.form = "null" -> <<>>
    [] c.form = "text" -> c.text
    [] c.form = "blocks" ->
         FlattenSeq([k \in DOMAIN c.blocks |->
           IF c.blocks[k].type = "text" THEN c.blocks[k].text ELSE Json(c.blocks[k].type)])

CallItem(b) ==
  IF b.type = "tool_use"
  THEN [item |-> "function_call", id |-> b.id, arguments |-> Json(b.input)]
  ELSE [item |-> "function_call_output", id |-> b.id, text |-> ResultText(b.content)]

RoleItem(role, parts) ==
  IF parts = <<>> THEN <<>> ELSE <<[item |-> "message", role |-> role, parts |-> parts]>>

\* Variant: the parts before a call are not flushed, and come with those after it.
NextBlockLate(role, s, b) ==
  IF b.type \in {"tool_use", "tool_result"}
  THEN [s EXCEPT !.items = Append(@, CallItem(b))]
  ELSE [s EXCEPT !.pending = @ \o PartOf(b, role)]

\* Parts are gathered into one role message until a call or a result comes.
NextBlock(role, s, b) ==
  IF b.type \in {"tool_use", "tool_result"}
  THEN [items |-> s.items \o RoleItem(role, s.pending) \o <<CallItem(b)>>, pending |-> <<>>]
  ELSE [s EXCEPT !.pending = @ \o PartOf(b, role)]

\* _message_to_items.
MessageItems(m) ==
  LET gathered[n \in 0..Len(m.content)] ==
        IF n = 0 THEN [items |-> <<>>, pending |-> <<>>]
        ELSE NextBlock(m.role, gathered[n - 1], m.content[n])
      end == gathered[Len(m.content)]
  IN end.items \o RoleItem(m.role, end.pending)

\* to_responses_request: its input.
ResponsesInput(ms) == FlattenSeq([k \in DOMAIN ms |-> MessageItems(ms[k])])

\* _tool_choice_to_responses: as asked only if tools are offered too.
ResponsesToolChoice(choice, tools) ==
  IF tools = {} THEN "unset"
  ELSE CASE choice = "any" -> "required"
         [] choice \in {"auto", "none"} \union (tools \ {"any"}) -> choice
         [] OTHER -> "unset"

-----------------------------------------------------------------------------
\* The answer

\* responses_usage_to_anthropic: "mutually-exclusive buckets".
SplitUsage(u) ==
  LET cached == IF u.cached <= u.input THEN u.cached ELSE u.input
  IN [input |-> u.input - cached, creation |-> 0, read |-> cached, output |-> u.output]

OutputBlocks(i) ==
  CASE i.item = "message" ->
         LET texts == OfType(i.parts, "output_text")
         IN [k \in DOMAIN texts |-> Text(texts[k].text)]
    [] i.item = "function_call" -> <<ToolUse(i.id, Loads(i.arguments))>>
    [] OTHER -> <<>>

Stop(resp) ==
  CASE \E k \in DOMAIN resp.output : resp.output[k].item = "function_call" -> "tool_use"
    [] resp.status = "incomplete" /\ resp.reason = "max_output_tokens" -> "max_tokens"
    [] OTHER -> "end_turn"

\* to_anthropic_response.
RenderMessages(resp) ==
  [content |-> FlattenSeq([k \in DOMAIN resp.output |-> OutputBlocks(resp.output[k])]),
   stop_reason |-> Stop(resp),
   usage |-> SplitUsage(resp.usage)]

=============================================================================
