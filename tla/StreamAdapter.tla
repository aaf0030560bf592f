---------------------------- MODULE StreamAdapter ----------------------------
(***************************************************************************)
(* One /v1/messages stream answered by a Responses upstream:               *)
(* AnthropicStreamAdapter of messages_to_responses.py, driven by           *)
(* generate() of _handle_messages_via_responses_stream in server.py.       *)
(*                                                                         *)
(* The upstream is external.  It says a few output items, each a message   *)
(* with text parts, a function call or a reasoning item, up to `lanes` of  *)
(* them at once; then its verdict; and it may fall silent, break or end    *)
(* at any point, a block cut in two included.  The adapter turns each      *)
(* event into frames, which generate() yields to the client one by one.    *)
(***************************************************************************)
EXTENDS Integers, SortedSeqs

CONSTANTS
  MaxItems,   \* bound: output items of a response
  MaxParts,   \* bound: content parts of a message item
  MaxPieces,  \* bound: deltas of a part, or of the arguments of a call
  MaxLanes    \* bound: items in progress at once

ASSUME AdapterAssumption == {MaxItems, MaxParts, MaxPieces, MaxLanes} \subseteq Nat \ {0}

VARIABLES
  lanes,    \* how many items this upstream has in progress at once
  items,    \* the output items it has begun, see Item
  verdict,  \* its terminal event, "none" until it is sent
  reported, \* the events whose response object carried usage
  ad,       \* the adapter's fields, see AdapterState
  outbox,   \* frames translated and not yet yielded
  gen,      \* where generate() is
  client    \* what the client has made of the frames it got, see ClientState

vars == <<lanes, items, verdict, reported, ad, outbox, gen, client>>
upstream == <<lanes, items, verdict, reported>>

Outputs == 0..(MaxItems - 1)
Parts == 0..(MaxParts - 1)
None == -1

\* pieces[p]: how much of content part p (of the arguments, for a call) has been said.
\* stage: between two parts, inside one, its arguments complete, or done.
Item == [kind : {"message", "function_call", "reasoning"},
         pieces : Seq(0..MaxPieces), stage : {"live", "part", "said", "done"}]

\* The k-th piece of part p of item o: what deltas are made of.
Piece == Outputs \X Parts \X (1..MaxPieces)
PiecesOf(o, p, n) == [k \in 1..n |-> <<o, p, k>>]

Succeeding == {"completed", "max_output_tokens", "content_filter"}
Verdict == Succeeding \union {"failed", "error"}

\* _text_index, _tool_index (index and delta_sent), _open_indices, _terminal...  The
\* indices of an output are _by_output[o], in ascending order.
AdapterState ==
  [started : BOOLEAN, terminal : {"none", "success", "error"}, next : Nat,
   open : SUBSET Nat, text : [Outputs \X Parts -> Nat \union {None}],
   tool : [Outputs -> Nat \union {None}], sent : SUBSET Outputs,
   sawToolUse : BOOLEAN, usage : {"zero", "created", "final"}]

NewAdapter ==
  [started |-> FALSE, terminal |-> "none", next |-> 0, open |-> {},
   text |-> [k \in Outputs \X Parts |-> None], tool |-> [o \in Outputs |-> None],
   sent |-> {}, sawToolUse |-> FALSE, usage |-> "zero"]

-----------------------------------------------------------------------------
(* The translation: an adapter state and an event give the next state and  *)
(* the frames to yield.                                                    *)

Frame(type, index, what) == [type |-> type, index |-> index, what |-> what]
Out(a, frames) == [ad |-> a, frames |-> frames]

\* _start_message, which every block start and a success go through.
StartMessage(a) == IF a.started THEN <<>> ELSE <<Frame("message_start", None, <<>>)>>

\* Variant: a text block takes an index and does not use it up.
OpenTextAtNext(a, o, p) ==
  IF a.text[<<o, p>>] # None
  THEN Out(a, <<>>)
  ELSE Out([a EXCEPT !.started = TRUE, !.text[<<o, p>>] = a.next,
                     !.open = @ \union {a.next}],
           Append(StartMessage(a), Frame("content_block_start", a.next, "text")))

\* _open_text_block: once per part.
OpenTextBlock(a, o, p) ==
  IF a.text[<<o, p>>] # None
  THEN Out(a, <<>>)
  ELSE Out([a EXCEPT !.started = TRUE, !.next = @ + 1, !.text[<<o, p>>] = a.next,
                     !.open = @ \union {a.next}],
           Append(StartMessage(a), Frame("content_block_start", a.next, "text")))

\* _open_tool_block: once per output.
OpenToolBlock(a, o) ==
  IF a.tool[o] # None
  THEN Out(a, <<>>)
  ELSE Out([a EXCEPT !.started = TRUE, !.next = @ + 1, !.tool[o] = a.next,
                     !.open = @ \union {a.next}, !.sawToolUse = TRUE],
           Append(StartMessage(a), Frame("content_block_start", a.next, "tool_use")))

\* Variant: every index asked for is closed, the closed ones too.
CloseAgain(a, S) ==
  Out([a EXCEPT !.open = @ \ S],
      [k \in 1..Cardinality(S) |-> Frame("content_block_stop", Ascending(S)[k], <<>>)])

\* _close_index of each of the indices S, and _close_all_open.
Close(a, S) ==
  LET still == Ascending(S \intersect a.open)
  IN Out([a EXCEPT !.open = @ \ S],
         [k \in DOMAIN still |-> Frame("content_block_stop", still[k], <<>>)])

\* _by_output.get(o).
BlocksOf(a, o) == ({a.text[<<o, p>>] : p \in Parts} \union {a.tool[o]}) \ {None}

StopReason(v, sawToolUse) ==
  IF sawToolUse THEN "tool_use"
  ELSE IF v = "max_output_tokens" THEN "max_tokens" ELSE "end_turn"

\* _finalize: a success closes what is open and tells why it stopped.
Finalize(a, v, used) ==
  LET u == IF used THEN "final" ELSE a.usage
  IN Out([a EXCEPT !.started = TRUE, !.open = {}, !.usage = u, !.terminal = "success"],
         StartMessage(a) \o Close(a, a.open).frames \o
         <<Frame("message_delta", None, <<StopReason(v, a.sawToolUse), u>>),
           Frame("message_stop", None, <<>>)>>)

\* terminate_error: at most one error frame, and none after a success.
TerminateError(a) ==
  IF a.terminal # "none"
  THEN Out(a, <<>>)
  ELSE Out([a EXCEPT !.terminal = "error"], <<Frame("error", None, <<>>)>>)

\* Variant: an upstream that hangs up has said what it had to say.
FinishOnDisconnect(a) ==
  IF a.terminal # "none" THEN Out(a, <<>>) ELSE Finalize(a, "completed", FALSE)

\* finalize_on_disconnect: an end without a terminal event is an error.
FinalizeOnDisconnect(a) == TerminateError(a)

\* The events.  o and p are output_index and content_index; what is the delta, the
\* arguments, the item's type or the response's usage, as the event has them.
Event(type, o, p, what) == [type |-> type, o |-> o, p |-> p, what |-> what]

\* A delta opens its block, if its part was not announced.
TextDelta(a, e) ==
  LET opened == OpenTextBlock(a, e.o, e.p)
  IN Out(opened.ad, Append(opened.frames,
           Frame("content_block_delta", opened.ad.text[<<e.o, e.p>>], e.what)))

\* Arguments of a call that was not announced are dropped.
ArgumentsDelta(a, e) ==
  IF a.tool[e.o] = None THEN Out(a, <<>>)
  ELSE Out([a EXCEPT !.sent = @ \union {e.o}],
           <<Frame("content_block_delta", a.tool[e.o], e.what)>>)

\* Variant: the complete arguments are sent after their deltas.
ArgumentsRepeated(a, e) ==
  IF a.tool[e.o] = None THEN Out(a, <<>>)
  ELSE LET closed == Close(a, {a.tool[e.o]})
       IN Out(closed.ad, <<Frame("content_block_delta", a.tool[e.o], e.what)>> \o closed.frames)

\* The complete arguments are sent only if no delta of them was.
ArgumentsDone(a, e) ==
  IF a.tool[e.o] = None THEN Out(a, <<>>)
  ELSE LET closed == Close(a, {a.tool[e.o]})
       IN IF e.o \notin a.sent /\ e.what # <<>>
          THEN Out(closed.ad, <<Frame("content_block_delta", a.tool[e.o], e.what)>> \o closed.frames)
          ELSE closed

\* on_event.  Anything after a terminal, and any event not named, is dropped.
OnEvent(a, e) ==
  IF a.terminal # "none" THEN Out(a, <<>>)
  ELSE CASE e.type = "created" ->
              Out([a EXCEPT !.started = TRUE,
                            !.usage = IF e.what = "usage" THEN "created" ELSE @],
                  StartMessage(a))
         [] e.type = "item.added" ->
              IF e.what = "function_call" THEN OpenToolBlock(a, e.o) ELSE Out(a, <<>>)
         [] e.type = "part.added" -> OpenTextBlock(a, e.o, e.p)
         [] e.type = "text.delta" -> TextDelta(a, e)
         [] e.type = "arguments.delta" -> ArgumentsDelta(a, e)
         [] e.type = "arguments.done" -> ArgumentsDone(a, e)
         [] e.type = "part.done" -> Close(a, {a.text[<<e.o, e.p>>]})
         [] e.type = "item.done" -> Close(a, BlocksOf(a, e.o))
         [] e.type \in Succeeding -> Finalize(a, e.type, e.what = "usage")
         [] e.type \in {"failed", "error"} -> TerminateError(a)

-----------------------------------------------------------------------------
(* generate() and translate().                                             *)

\* translate() has yielded every frame it had and awaits more of the upstream.
Listening == gen = "reading" /\ outbox = <<>>

\* A block arrives: on_event.
Hear(e) ==
  /\ Listening
  /\ LET t == OnEvent(ad, e) IN ad' = t.ad /\ outbox' = t.frames
  /\ UNCHANGED <<gen, client>>

\* What is told after the last block: nothing, if a terminal was.
EndWith(t) ==
  /\ Listening
  /\ ad' = t.ad
  /\ outbox' = t.frames
  /\ gen' = "ending"
  /\ UNCHANGED <<upstream, client>>

\* The upstream closes its stream.
EndOfStream == EndWith(FinalizeOnDisconnect(ad))

\* Variant: the connection is closed and the client not told.
BreakSilently == EndWith(Out(ad, <<>>))

\* A read timeout, or any other exception of the connection.
Break == EndWith(TerminateError(ad))

\* The stream closes cleanly inside a block.  Its JSON does not parse, so what is left
\* of the event is its type and the defaults of on_event.
CutShort(type) ==
  LET cut == OnEvent(ad, Event(type, 0, 0, <<>>))
      end == FinalizeOnDisconnect(cut.ad)
  IN EndWith(Out(end.ad, cut.frames \o end.frames))

\* What a message_delta says: the stop reason and whose usage.
Endings == {"end_turn", "max_tokens", "tool_use"} \X {"zero", "created", "final"}

\* The client, external: what it has of the message, "confused" by a frame that the
\* event order does not allow.
ClientState == [phase : {"new", "started", "told", "done", "failed", "confused"},
                blocks : Seq([kind : {"text", "tool_use"}, text : Seq(Piece), open : BOOLEAN]),
                ending : Endings \union {"none"}]

Understand(c, f) ==
  LET at == f.index + 1   \* the client's place for the block
      reads == c.phase = "started"
      holds == reads /\ at \in DOMAIN c.blocks
  IN CASE f.type = "message_start" /\ c.phase = "new" -> [c EXCEPT !.phase = "started"]
       [] f.type = "content_block_start" /\ reads /\ at = Len(c.blocks) + 1 ->
            [c EXCEPT !.blocks = Append(@, [kind |-> f.what, text |-> <<>>, open |-> TRUE])]
       [] f.type = "content_block_delta" /\ holds /\ c.blocks[at].open ->
            [c EXCEPT !.blocks[at].text = @ \o f.what]
       [] f.type = "content_block_stop" /\ holds /\ c.blocks[at].open ->
            [c EXCEPT !.blocks[at].open = FALSE]
       [] f.type = "message_delta" /\ reads -> [c EXCEPT !.phase = "told", !.ending = f.what]
       [] f.type = "message_stop" /\ c.phase = "told" -> [c EXCEPT !.phase = "done"]
       [] f.type = "error" /\ c.phase \in {"new", "started"} -> [c EXCEPT !.phase = "failed"]
       [] OTHER -> [c EXCEPT !.phase = "confused"]

\* One frame goes to the client.
Yield ==
  /\ gen \in {"reading", "ending"}
  /\ outbox # <<>>
  /\ client' = Understand(client, Head(outbox))
  /\ outbox' = Tail(outbox)
  /\ UNCHANGED <<upstream, ad, gen>>

\* generate() returns: finally, the upstream connection is closed.
Leave ==
  /\ gen = "ending"
  /\ outbox = <<>>
  /\ gen' = "ended"
  /\ UNCHANGED <<upstream, ad, outbox, client>>

\* The client hangs up: generate() is cancelled where it is and only its finally runs.
ClientGone ==
  /\ gen \in {"reading", "ending"}
  /\ gen' = "gone"
  /\ outbox' = <<>>
  /\ UNCHANGED <<upstream, ad, client>>

-----------------------------------------------------------------------------
(* The upstream, external: an orderly Responses stream.                    *)

InProgress == {o \in DOMAIN items : items[o].stage # "done"}

\* Item i, which is output i - 1, moves on and event e says so.
Says(i, item, e) ==
  /\ verdict = "none"
  /\ items' = [items EXCEPT ![i] = item]
  /\ Hear(e)
  /\ UNCHANGED <<lanes, verdict, reported>>

Created(used) ==
  /\ verdict = "none" /\ items = <<>>
  /\ reported' = IF used THEN reported \union {"created"} ELSE reported
  /\ Hear(Event("created", 0, 0, IF used THEN "usage" ELSE "none"))
  /\ UNCHANGED <<lanes, items, verdict>>

AddItem(kind) ==
  /\ verdict = "none"
  /\ Len(items) < MaxItems /\ Cardinality(InProgress) < lanes
  /\ items' = Append(items, [kind |-> kind, stage |-> "live",
                             pieces |-> IF kind = "function_call" THEN <<0>> ELSE <<>>])
  /\ Hear(Event("item.added", Len(items), 0, kind))
  /\ UNCHANGED <<lanes, verdict, reported>>

\* A text part, announced or (lazily) begun by its first delta.
AddPart(i) ==
  LET it == items[i]
      p == Len(it.pieces)
      begun(n) == [it EXCEPT !.stage = "part", !.pieces = Append(@, n)]
  IN /\ it.kind = "message" /\ it.stage = "live" /\ p < MaxParts
     /\ \/ Says(i, begun(0), Event("part.added", i - 1, p, "output_text"))
        \/ Says(i, begun(1), Event("text.delta", i - 1, p, PiecesOf(i - 1, p, 1)))

\* The next delta of the part, or of the arguments, in progress.
SayMore(i) ==
  LET it == items[i]
      n == Len(it.pieces)
      k == it.pieces[n] + 1
      type == IF it.kind = "message" THEN "text.delta" ELSE "arguments.delta"
  IN /\ \/ it.kind = "message" /\ it.stage = "part"
        \/ it.kind = "function_call" /\ it.stage = "live"
     /\ k <= MaxPieces
     /\ Says(i, [it EXCEPT !.pieces[n] = k], Event(type, i - 1, n - 1, <<<<i - 1, n - 1, k>>>>))

PartDone(i) ==
  /\ items[i].kind = "message" /\ items[i].stage = "part"
  /\ Says(i, [items[i] EXCEPT !.stage = "live"],
          Event("part.done", i - 1, Len(items[i].pieces) - 1, <<>>))

\* The arguments are complete, and told whole: all of what the deltas said, or more
\* than nothing or nothing when there was none.
CompleteArguments(i) ==
  /\ items[i].kind = "function_call" /\ items[i].stage = "live"
  /\ \E n \in 0..MaxPieces :
       /\ items[i].pieces[1] \in {0, n}
       /\ Says(i, [items[i] EXCEPT !.stage = "said", !.pieces = <<n>>],
               Event("arguments.done", i - 1, 0, PiecesOf(i - 1, 0, n)))

ItemDone(i) ==
  /\ items[i].stage \in (CASE items[i].kind = "message" -> {"live", "part"}
                           [] items[i].kind = "function_call" -> {"said"}
                           [] items[i].kind = "reasoning" -> {"live"})
  /\ Says(i, [items[i] EXCEPT !.stage = "done"], Event("item.done", i - 1, 0, <<>>))

\* The terminal event; only "completed" waits for the items.
GiveVerdict(v, used) ==
  /\ verdict = "none"
  /\ v = "completed" => InProgress = {}
  /\ verdict' = v
  /\ reported' = IF used /\ v \in Succeeding THEN reported \union {"final"} ELSE reported
  /\ Hear(Event(v, 0, 0, IF used THEN "usage" ELSE "none"))
  /\ UNCHANGED <<lanes, items>>

\* A terminal event more, after the first.
RepeatVerdict(v) ==
  /\ verdict # "none"
  /\ Hear(Event(v, 0, 0, "usage"))
  /\ UNCHANGED upstream

\* The blocks a stream may be cut in, by what the upstream may say next; of a cut
\* response.incomplete the adapter makes what it makes of a cut response.completed.
Cuttable ==
  IF verdict # "none" THEN {}
  ELSE {"completed"}
         \union {"item.done" : i \in InProgress}
         \union {"text.delta" : i \in {j \in InProgress : items[j].kind = "message"}}
         \union {"arguments.delta" : i \in {j \in InProgress : items[j].kind = "function_call"}}

UpstreamSays ==
  \/ \E used \in BOOLEAN : Created(used)
  \/ \E kind \in {"message", "function_call", "reasoning"} : AddItem(kind)
  \/ \E i \in DOMAIN items : \/ AddPart(i) \/ SayMore(i) \/ PartDone(i)
                              \/ CompleteArguments(i) \/ ItemDone(i)
  \/ \E v \in Verdict, used \in BOOLEAN : GiveVerdict(v, used)
  \/ \E v \in Verdict : RepeatVerdict(v)

Ends == EndOfStream \/ Break

-----------------------------------------------------------------------------
Init ==
  /\ lanes \in 1..MaxLanes
  /\ items = <<>> /\ verdict = "none" /\ reported = {}
  /\ ad = NewAdapter
  /\ outbox = <<>>
  /\ gen = "reading"
  /\ client = [phase |-> "new", blocks |-> <<>>, ending |-> "none"]

Over == gen \in {"ended", "gone"} /\ UNCHANGED vars

Next == UpstreamSays \/ Ends \/ Yield \/ Leave \/ ClientGone \/ Over

Spec == Init /\ [][Next]_vars

\* An upstream whose bytes may also end, cleanly, inside a block.
CutSpec == Init /\ [][Next \/ \E type \in Cuttable : CutShort(type)]_vars

\* The event loop runs generate(), its client reads or hangs up, and an upstream that
\* says no more is ended by the read timeout; what it says is finite.
FairSpec == Spec /\ WF_vars(Yield \/ Leave) /\ WF_vars(UpstreamSays \/ Ends)

-----------------------------------------------------------------------------
(* Properties.                                                             *)

\* Every variable has its type.
TypeOK ==
  /\ lanes \in 1..MaxLanes
  /\ items \in Seq(Item) /\ Len(items) <= MaxItems
  /\ verdict \in Verdict \union {"none"}
  /\ reported \subseteq {"created", "final"}
  /\ ad \in AdapterState /\ ad.open \subseteq 0..(ad.next - 1)
  /\ gen \in {"reading", "ending", "ended", "gone"}
  /\ client.phase \in {"new", "started", "told", "done", "failed", "confused"}
  /\ \A f \in ToSet(outbox) : f.index \in Nat \union {None}

\* The frames keep the event order of an Anthropic stream, with no more blocks open at
\* once than the upstream has items in progress; so an upstream that says its items
\* one after another gets strictly sequential blocks.
Contract == INSTANCE MessageStream WITH
  BlockKinds <- {"text", "tool_use"},
  Text <- {<<>>} \union {PiecesOf(o, p, n) : o \in Outputs, p \in Parts, n \in 1..MaxPieces}
          \union {<<t>> : t \in Piece},
  phase <- client.phase, blocks <- client.blocks, ending <- client.ending, overlap <- lanes
KeepsEventOrder == Contract!Safety

\* What to_anthropic_response makes of the items said so far, and of the verdict: a
\* block of every part of a message and of every call, in this order.
SyncContent == UNION {{<<i, p>> : p \in DOMAIN items[i].pieces} : i \in DOMAIN items}
SyncBlock(s) ==
  LET it == items[s[1]]
  IN [kind |-> IF it.kind = "message" THEN "text" ELSE "tool_use",
      text |-> PiecesOf(s[1] - 1, s[2] - 1, it.pieces[s[2]])]
Precedes(s, t) == s[1] < t[1] \/ (s[1] = t[1] /\ s[2] < t[2])
SyncStopReason ==
  StopReason(verdict, \E i \in DOMAIN items : items[i].kind = "function_call")

\* A client that streams gets what a client that does not would get of the same
\* response: the same blocks with the same text and arguments, each piece once; in the
\* same order, if the items come one after another; the same stop reason, and the same
\* usage, if the last event has one.
Streamed(k) == [kind |-> client.blocks[k].kind, text |-> client.blocks[k].text]
StreamAgreesWithSync ==
  client.phase = "done" =>
    /\ \E place \in Bijection(SyncContent, DOMAIN client.blocks) :
         \A s \in SyncContent :
           /\ Streamed(place[s]) = SyncBlock(s)
           /\ lanes = 1 => \A t \in SyncContent : Precedes(s, t) => place[s] < place[t]
    /\ client.ending[1] = SyncStopReason
    /\ "final" \in reported => client.ending[2] = "final"

\* A success is told only of a response the upstream said was complete, or incomplete
\* for the reason told; a failure only of one that failed or broke off.
\* messages_to_responses.py:691: "Treat EOF without a Responses terminal event as an
\* upstream error", and :676: "never synthesize success".
VerdictIsTheUpstreams ==
  /\ client.phase \in {"told", "done"} => verdict \in Succeeding
  /\ client.phase = "failed" => verdict \notin Succeeding

\* A client that stays is told how its message ended, and then its upstream connection
\* is closed, whatever the upstream does.
StreamsEnd == <>(gen = "gone" \/ (gen = "ended" /\ client.phase \in {"done", "failed"}))
=============================================================================
