--------------------------- MODULE MCConversation ---------------------------
(***************************************************************************)
(* A small instance of Conversation.                                       *)
(***************************************************************************)
EXTENDS Conversation

CONSTANT lookup  \* a tool

Claude == {<<"text", "text">>, <<"thinking", "call">>, <<"text", "bare_call">>,
           <<"call", "text", "call">>, <<"thinking">>}
Responses == {<<"message", "reasoning", "message">>, <<"reasoning", "message", "call">>,
              <<"call", "broken_call", "message">>, <<"refusal">>}
Codex == {<<"own", "message", "call">>, <<"foreign", "object_call", "call">>, <<"own_alone", "message">>,
          <<"id_alone", "message">>}
MCShapes == [w \in Wires |-> CASE w = "responses" -> Responses [] w = "codex" -> Codex [] OTHER -> Claude]

MCUsages == {[input |-> 5, creation |-> 2, read |-> 3, cached |-> 3, output |-> 4],
             [input |-> 2, creation |-> 0, read |-> 0, cached |-> 6, output |-> 0]}

Option(max, thinking, effort, adaptive, tools, choice) ==
  [max_tokens |-> max, thinking |-> thinking, effort |-> effort, adaptive |-> adaptive,
   default_max |-> 900, tools |-> tools, choice |-> choice]

NoThinking == Thinking("unset", 0)
MCOptions ==
  {Option(max, thinking, "unset", FALSE, {}, "unset") :
     max \in {0, 2000}, thinking \in {NoThinking, Thinking("adaptive", 0), Thinking("disabled", 0),
                                      Thinking("enabled", 100), Thinking("enabled", 3000)}}
  \union {Option(max, NoThinking, effort, adaptive, {}, "unset") :
            max \in {0, 2000}, effort \in DOMAIN Effort, adaptive \in BOOLEAN}
  \union {Option(0, NoThinking, "unset", FALSE, tools, choice) :
            tools \in {{}, {lookup}}, choice \in {"auto", "none", "required", "any", lookup}}
=============================================================================
