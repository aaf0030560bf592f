-------------------------- MODULE InputProjection --------------------------
(***************************************************************************)
(* responses_compatibility.py: what the two one-time repairs do to the     *)
(* input of a Responses request that Bedrock's validator refused, item by  *)
(* item.  UpstreamCall has when they are made; here is what they make.     *)
(*                                                                         *)
(* Left out: opaque state inside messages, required fields that are        *)
(* missing or of another type, and the counts for the log.                 *)
(***************************************************************************)
EXTENDS ChatDialect

TextItems == {"input_text", "output_text", "text"}
CallItems == {"function_call", "custom_tool_call"}
OutputItems == {"function_call_output", "custom_tool_call_output"}
PassedItems == {"item_reference", "web_search_call"}
StatusesKept == {"completed", "in_progress", "none"}
Contexts == {"auto", "current_turn", "all_turns"}

\* Variant: a call without an output is not noticed.
OutputsRelated(items) ==
  LET at(kinds, id) == {k \in DOMAIN items : items[k].item \in kinds /\ items[k].id = id}
  IN \A k \in DOMAIN items : items[k].item \in OutputItems =>
       \E c \in DOMAIN items : at(CallItems, items[k].id) = {c}

\* analyze_history: every call has one output, every output one call.
Related(items) ==
  LET at(kinds, id) == {k \in DOMAIN items : items[k].item \in kinds /\ items[k].id = id}
      ids == {items[k].id : k \in {j \in DOMAIN items : items[j].item \in CallItems \union OutputItems}}
  IN \A id \in ids : \E c, o \in DOMAIN items : at(CallItems, id) = {c} /\ at(OutputItems, id) = {o}

-----------------------------------------------------------------------------
\* _project_item: the items one becomes, and whether a resend is safe with them.

Becomes(items) == [items |-> items, safe |-> TRUE]
Unmapped(i) == [items |-> <<i>>, safe |-> FALSE]
MessageItem(role, parts) == [item |-> "message", role |-> role, parts |-> parts]
InputText(t) == [type |-> "input_text", text |-> t]

ProjectBareText(i) ==
  Becomes(<<MessageItem(IF i.item = "output_text" THEN "assistant" ELSE "user", <<InputText(i.text)>>)>>)

\* Another agent's words become the user's; a part that is nothing but opaque goes, and
\* any other that is no text makes the item one that cannot be mapped.
ProjectAgentMessage(i) ==
  LET words == Selected(i.parts, {k \in DOMAIN i.parts : i.parts[k].type # "encrypted_content"})
  IN IF words = <<>> \/ \E k \in DOMAIN words : words[k].type \notin TextItems THEN Unmapped(i)
     ELSE Becomes(<<MessageItem("user", [k \in DOMAIN words |-> InputText(words[k].text)])>>)

\* A call's payload is text, or an object, which _coerce_json_string writes as text.
AsText(payload) == IF payload.form = "object" THEN Plain(Json(payload.value)) ELSE payload
ProjectCall(i) ==
  Becomes(<<[i EXCEPT !.payload = AsText(@),
                      !.status = IF i.item = "custom_tool_call" /\ @ \notin StatusesKept
                                 THEN "none" ELSE @]>>)

\* Opaque state is "bedrock" if its prefix is Bedrock's.  With neither such state nor a
\* valid summary there is nothing to replay.
ProjectReasoning(i) ==
  LET own == [i EXCEPT !.opaque = IF @ = "bedrock" THEN @ ELSE "none"]
  IN IF i.summary.valid THEN Becomes(<<own>>)
     ELSE IF own.opaque = "bedrock" THEN Becomes(<<[own EXCEPT !.summary = [valid |-> TRUE, text |-> <<>>]]>>)
     ELSE Becomes(<<>>)

ProjectMessage(i) ==
  Becomes(<<[i EXCEPT !.parts = [k \in DOMAIN @ |-> IF @[k].type = "text" THEN InputText(@[k].text) ELSE @[k]]]>>)

ProjectItem(i) ==
  CASE i.item \in TextItems -> ProjectBareText(i)
    [] i.item = "agent_message" -> ProjectAgentMessage(i)
    [] i.item \in CallItems -> ProjectCall(i)
    [] i.item = "reasoning" -> ProjectReasoning(i)
    [] i.item = "message" -> ProjectMessage(i)
    [] i.item \in OutputItems \union PassedItems -> Becomes(<<i>>)
    [] OTHER -> Unmapped(i)  \* calls with side effects of their own, or unknown

-----------------------------------------------------------------------------
\* project_mantle_input

\* A tool is known by a key: its type and name.  The first of each is kept.
MergeTools(existing, lifted) ==
  LET all == existing \o lifted
  IN Selected(all, {k \in DOMAIN all : \A j \in 1..(k - 1) : all[j].key # all[k].key})

NormalTool(t) == IF t.key = "web_search" THEN [t EXCEPT !.options = "none"] ELSE t

\* The text of a developer message, which is folded into the instructions if it has any.
DeveloperText(i) ==
  FlattenSeq([k \in DOMAIN i.parts |-> IF i.parts[k].type \in {"input_text", "text"} THEN i.parts[k].text ELSE <<>>])

IsDeveloper(i) == i.item = "message" /\ i.role = "developer"
Folded(i) == IsDeveloper(i) /\ DeveloperText(i) # <<>>

Project(b) ==
  LET items == b.messages
      extra == Selected(items, {k \in DOMAIN items : items[k].item = "additional_tools"})
      lifted == FlattenSeq([k \in DOMAIN extra |-> extra[k].tools])
      inside == Selected(items, {k \in DOMAIN items : items[k].item # "additional_tools" /\ ~Folded(items[k])})
      made == [k \in DOMAIN inside |-> ProjectItem(inside[k])]
      developer == Selected(items, {k \in DOMAIN items : Folded(items[k])})
      tools == IF lifted = <<>> THEN b.tools ELSE MergeTools(b.tools, lifted)
  IN [safe |-> /\ \A k \in DOMAIN made : made[k].safe /\ ~IsDeveloper(inside[k])
               /\ Related(items),
      body |-> [b EXCEPT !.messages = FlattenSeq([k \in DOMAIN made |-> made[k].items]),
                         !.system = @ \o [k \in DOMAIN developer |-> DeveloperText(developer[k])],
                         !.tools = [k \in DOMAIN tools |-> NormalTool(tools[k])],
                         !.context = IF @ \in Contexts THEN @ ELSE "auto"]]

-----------------------------------------------------------------------------
\* strip_encrypted_reasoning

\* _has_visible_reasoning.
ShowsReasoning(i) == i.shown # <<>> \/ (i.summary.valid /\ i.summary.text # <<>>)

StripItem(i) ==
  IF i.item # "reasoning" \/ i.opaque = "none" THEN <<i>>
  ELSE IF ShowsReasoning(i) THEN <<[i EXCEPT !.opaque = "none"]>>
  ELSE <<>>

StripReasoning(b) ==
  [b EXCEPT !.messages = FlattenSeq([k \in DOMAIN @ |-> StripItem(@[k])])]
=============================================================================
