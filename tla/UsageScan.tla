------------------------------ MODULE UsageScan ------------------------------
(***************************************************************************)
(* The tokens the metrics middleware reads off an answer                   *)
(* (dashboard/middleware.py): out of the lines of a stream whose chunks    *)
(* end anywhere, or out of the JSON of a whole answer.                     *)
(*                                                                         *)
(* A line comes in two halves, the second with its line break.             *)
(***************************************************************************)
EXTENDS FiniteSetsExt, SortedSeqs

\* Lines that carry no usage are passed over and left out here.  "chunk" is an OpenAI
\* chat chunk: prompt and completion tokens are its input and output.
Line(kind, usage) == [kind |-> kind, usage |-> usage]
HalvesOf(lines) ==
  [n \in 1..(2 * Len(lines)) |-> [line |-> lines[(n + 1) \div 2], part |-> IF n % 2 = 1 THEN 1 ELSE 2]]

\* _anthropic_input_total: cached tokens are input as well.
InputTotal(u) == u.input + u.creation + u.read

\* _parse_sse_line: of the events of a Responses stream it knows one.
LineUsage(line) ==
  CASE line.kind = "message_start" -> [in |-> InputTotal(line.usage), out |-> 0]
    [] line.kind \in {"chunk", "message_delta", "response.completed"} ->
         [in |-> InputTotal(line.usage), out |-> line.usage.output]
    [] line.kind = "response.incomplete" -> [in |-> 0, out |-> 0]

\* _scan_lines, going on from what was found before: the last number that is not zero.
LastCounted(before, numbers) ==
  LET counted == {k \in DOMAIN numbers : numbers[k] # 0}
  IN IF counted = {} THEN before ELSE numbers[Max(counted)]
ScanLines(found, lines) ==
  [in |-> LastCounted(found.in, [k \in DOMAIN lines |-> LineUsage(lines[k]).in]),
   out |-> LastCounted(found.out, [k \in DOMAIN lines |-> LineUsage(lines[k]).out])]

\* The lines that are whole in a text of halves, and what is left of it.
WholeLines(text) ==
  LET ends == {k \in DOMAIN text : k > 1 /\ text[k].part = 2 /\ text[k - 1].part = 1}
      whole == Selected(text, ends)
  IN [k \in DOMAIN whole |-> whole[k].line]

\* Variant: what follows the last line break is not kept for the next chunk.
CarryNothing(carry, chunk) == [carry |-> <<>>, lines |-> WholeLines(chunk)]

\* _split_sse_lines.
SplitLines(carry, chunk) ==
  LET text == carry \o chunk
      last == Max({0} \union {k \in DOMAIN text : text[k].part = 2})
  IN [carry |-> SubSeq(text, last + 1, Len(text)), lines |-> WholeLines(SubSeq(text, 1, last))]

NothingFound == [in |-> 0, out |-> 0]

\* wrapped(): the chunks of a stream, and then what is left.
ScanStream(chunks) ==
  LET after[n \in 0..Len(chunks)] ==
        IF n = 0 THEN [carry |-> <<>>, found |-> NothingFound]
        ELSE LET split == SplitLines(after[n - 1].carry, chunks[n])
             IN [carry |-> split.carry, found |-> ScanLines(after[n - 1].found, split.lines)]
      end == after[Len(chunks)]
  IN ScanLines(end.found, WholeLines(end.carry))

\* _parse_json_usage.
JsonUsage(u) == [in |-> InputTotal(u), out |-> u.output]

\* The ways a text can come in chunks: after which halves a chunk ends.
ChunksOf(text, cuts) ==
  LET at == Ascending(cuts \union {0, Len(text)})
  IN [k \in 1..(Len(at) - 1) |-> SubSeq(text, at[k] + 1, at[k + 1])]
Cuttings(text) == {ChunksOf(text, cuts) : cuts \in SUBSET (1..(Len(text) - 1))}
=============================================================================
