---------------------------- MODULE MessageStream ----------------------------
(***************************************************************************)
(* What a client of /v1/messages may count on while it reads one event     *)
(* stream: the event order documented at AnthropicStreamAdapter            *)
(* (messages_to_responses.py:372-393) and checked frame by frame by        *)
(* assert_valid_anthropic_stream (tests/test_messages_to_responses.py).    *)
(*                                                                         *)
(*   message_start                                                         *)
(*     (content_block_start  content_block_delta*  content_block_stop)*    *)
(*   message_delta  message_stop                                           *)
(*                                                                         *)
(* or, at any time before message_delta, one error frame and no more.      *)
(***************************************************************************)
EXTENDS Naturals, Sequences, FiniteSets

CONSTANTS
  BlockKinds,  \* "text" and "tool_use"
  Endings,     \* what message_delta may say: stop_reason and usage
  Text         \* what a delta may add to a block

VARIABLES
  phase,   \* how far the message has come
  blocks,  \* the content blocks so far, by index, with their text and if they are open
  ending,  \* what message_delta said, once it has
  overlap  \* how many blocks may be open at once, fixed for the stream

vars == <<phase, blocks, ending, overlap>>

OpenBlocks == {i \in DOMAIN blocks : blocks[i].open}

Init ==
  /\ phase = "new"
  /\ blocks = <<>>
  /\ ending = "none"
  /\ overlap \in Nat

MessageStart ==
  /\ phase = "new"
  /\ phase' = "started"
  /\ UNCHANGED <<blocks, ending, overlap>>

\* A block starts at the next index, with at most overlap - 1 others open.
BlockStart(kind) ==
  /\ phase = "started"
  /\ Cardinality(OpenBlocks) < overlap
  /\ blocks' = Append(blocks, [kind |-> kind, text |-> <<>>, open |-> TRUE])
  /\ UNCHANGED <<phase, ending, overlap>>

\* Only an open block gets text.
BlockDelta(i, t) ==
  /\ phase = "started"
  /\ i \in OpenBlocks
  /\ blocks' = [blocks EXCEPT ![i].text = @ \o t]
  /\ UNCHANGED <<phase, ending, overlap>>

BlockStop(i) ==
  /\ phase = "started"
  /\ i \in OpenBlocks
  /\ blocks' = [blocks EXCEPT ![i].open = FALSE]
  /\ UNCHANGED <<phase, ending, overlap>>

\* The message ends well only with every block closed.
MessageDelta(e) ==
  /\ phase = "started"
  /\ OpenBlocks = {}
  /\ phase' = "told"
  /\ ending' = e
  /\ UNCHANGED <<blocks, overlap>>

MessageStop ==
  /\ phase = "told"
  /\ phase' = "done"
  /\ UNCHANGED <<blocks, ending, overlap>>

Fail ==
  /\ phase \in {"new", "started"}
  /\ phase' = "failed"
  /\ UNCHANGED <<blocks, ending, overlap>>

Next ==
  \/ MessageStart
  \/ \E kind \in BlockKinds : BlockStart(kind)
  \/ \E i \in DOMAIN blocks, t \in Text : BlockDelta(i, t)
  \/ \E i \in DOMAIN blocks : BlockStop(i)
  \/ \E e \in Endings : MessageDelta(e)
  \/ MessageStop
  \/ Fail

Safety == Init /\ [][Next]_vars
=============================================================================
