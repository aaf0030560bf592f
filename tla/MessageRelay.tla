---------------------------- MODULE MessageRelay ----------------------------
(***************************************************************************)
(* The generator of _handle_messages_stream (server.py) over               *)
(* decode_event_stream_chunk (converter.py): AWS event-stream frames come  *)
(* in chunks that end anywhere, and are forwarded as Anthropic events.     *)
(*                                                                         *)
(* A frame is two halves: of an event, the payload is there with the       *)
(* second; of an exception, its type with the first and its message with   *)
(* the second.                                                             *)
(***************************************************************************)
EXTENDS Naturals, Sequences, SequencesExt, SortedSeqs

CONSTANTS
  Streams,   \* the requests that may be native Messages streams
  MaxFrames  \* bound: frames an upstream sends on one stream

\* "start", "block" and "stop" stand for the events that are forwarded; "odd" is one of
\* another type or whose payload is no JSON, "shapeless" JSON that is no object.
Forwarded == {"start", "block", "stop"}
Kinds == Forwarded \union {"odd", "shapeless", "exception"}

VARIABLES
  told,    \* history: the frames the upstream has begun
  wire,    \* halves under way
  buf,     \* buf of generate()
  frames,  \* what generate() has yielded
  eof      \* how the upstream's connection ended: "none", "clean" or "broken"

relay == <<told, wire, buf, frames, eof>>

RelayInit ==
  /\ told = [r \in Streams |-> <<>>] /\ wire = [r \in Streams |-> <<>>]
  /\ buf = [r \in Streams |-> <<>>] /\ frames = [r \in Streams |-> <<>>]
  /\ eof = [r \in Streams |-> "none"]

Half(kind, part) == [kind |-> kind, part |-> part]

\* The halves an upstream has sent of the frames it began.
LastHalf(r) == IF wire[r] # <<>> THEN wire[r][Len(wire[r])]
               ELSE IF buf[r] # <<>> THEN buf[r][Len(buf[r])] ELSE Half("none", 2)

\* Bedrock's order of events: a start first, nothing but odd events after the stop.
\* An exception is its last frame.
MaySend(s, kind) ==
  /\ Len(s) < MaxFrames
  /\ kind \in {"block", "stop"} => s # <<>>
  /\ kind = "start" => s = <<>>
  /\ s # <<>> => s[Len(s)] \notin {"exception"}
  /\ "stop" \in ToSet(s) => kind = "odd"

SendHalf(r) ==
  /\ eof[r] = "none"
  /\ \/ /\ LastHalf(r).part = 2
        /\ \E kind \in Kinds :
             /\ MaySend(told[r], kind)
             /\ told' = [told EXCEPT ![r] = Append(@, kind)]
             /\ wire' = [wire EXCEPT ![r] = Append(@, Half(kind, 1))]
     \/ /\ LastHalf(r).part = 1
        /\ wire' = [wire EXCEPT ![r] = Append(@, Half(LastHalf(r).kind, 2))]
        /\ UNCHANGED told
  /\ UNCHANGED <<buf, frames, eof>>

\* The upstream closes, or the connection breaks or falls silent.
UpstreamEnds(r) ==
  /\ eof[r] = "none"
  /\ \E how \in {"clean", "broken"} : eof' = [eof EXCEPT ![r] = how]
  /\ UNCHANGED <<told, wire, buf, frames>>

-----------------------------------------------------------------------------
\* The halves at which _EVENT_FRAME_RE matches: an event's second, an exception's first.
Matched(b) == {i \in DOMAIN b : IF b[i].kind = "exception" THEN b[i].part = 1 ELSE b[i].part = 2}

\* decode_event_stream_chunk: the kinds decoded, and what the caller keeps.
Decoded(b) == LET found == Selected(b, Matched(b)) IN [k \in DOMAIN found |-> found[k].kind]

\* Variant: the buffer is emptied after every chunk.
Emptied(b) == <<>>

Kept(b) ==
  LET m == Matched(b)
      last == IF m = {} THEN 0 ELSE CHOOSE i \in m : \A j \in m : j <= i
  IN SubSeq(b, last + 1, Len(b))

\* Where the generator ends before the events of a chunk do.
Fatal(events) == {k \in DOMAIN events : events[k] \in {"exception", "shapeless"}}

\* The events that are passed on.
Known(events) == Selected(events, {k \in DOMAIN events : events[k] \in Forwarded})

\* The frames yielded for the events of one chunk: unknown ones are skipped, the first
\* fatal one becomes an error frame and the end.
Yielded(events) ==
  LET fatal == Fatal(events)
      upto == IF fatal = {} THEN Len(events) ELSE (CHOOSE k \in fatal : \A j \in fatal : k <= j) - 1
      good == Known(SubSeq(events, 1, upto))
  IN IF fatal = {} THEN good ELSE Append(good, "error")

\* One chunk, as large as what has arrived.  ended: generate() returns.
Chunk(r) ==
  /\ wire[r] # <<>>
  /\ LET b == buf[r] \o wire[r]
     IN /\ frames' = [frames EXCEPT ![r] = @ \o Yielded(Decoded(b))]
        /\ buf' = [buf EXCEPT ![r] = Kept(b)]
  /\ wire' = [wire EXCEPT ![r] = <<>>]
  /\ UNCHANGED <<told, eof>>

EndedBy(r) == Fatal(Decoded(buf[r] \o wire[r])) # {}

\* aiter_bytes is at its end: silence, or one error frame.  A break may come before
\* what is under way is read.
EndOfStream(r) ==
  /\ \/ /\ eof[r] = "clean" /\ wire[r] = <<>>
        /\ UNCHANGED frames
     \/ /\ eof[r] = "broken"
        /\ frames' = [frames EXCEPT ![r] = Append(@, "error")]
  /\ UNCHANGED <<told, wire, buf, eof>>
=============================================================================
