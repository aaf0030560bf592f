-------------------------- MODULE EmbeddingsRequest --------------------------
(***************************************************************************)
(* embeddings.py: an OpenAI embeddings request is parsed, given the        *)
(* profile's default dimensions, checked against what the profile's        *)
(* adapter takes, and built into native requests; their vectors are        *)
(* rendered as one list.                                                   *)
(*                                                                         *)
(* Which of several mistakes a refusal names, the wording of errors and    *)
(* the numbers in a vector are left out: a vector is known by the text,    *)
(* dimensions and task the upstream made it of.                            *)
(***************************************************************************)
EXTENDS Naturals, Sequences, SequencesExt

CONSTANTS
  MaxBatch  \* max_inputs of the Cohere profiles (96)

ASSUME MaxBatchAssumption == MaxBatch \in Nat \ {0}

Unset == 0  \* dimensions or a limit that is None

-----------------------------------------------------------------------------
\* What adapters take

Tasks == [document |-> "search_document", query |-> "search_query",
          classification |-> "classification", clustering |-> "clustering"]

\* CohereEmbedV4Adapter: its profiles differ in their task.
Cohere(policy, fixed) ==
  [family |-> "cohere", max_inputs |-> MaxBatch, dimensions |-> {256, 512, 1024, 1536},
   default |-> 1024, policy |-> policy, fixed |-> fixed]

Titan == [family |-> "titan", max_inputs |-> Unset, dimensions |-> {256, 512, 1024},
          default |-> 1024, policy |-> "symmetric", fixed |-> "none"]

Profiles == [document |-> Cohere("fixed", "document"), query |-> Cohere("fixed", "query"),
             dynamic |-> Cohere("accepted", "none"), titan |-> Titan]

-----------------------------------------------------------------------------
\* parse_request

\* _normalize_input: an input is one text, a list of texts, or something else, such as
\* tokens.
Blanks == {"", " "}

InputParses(input) ==
  /\ input.form \in {"text", "list"}
  /\ input.texts # <<>>
  /\ \A k \in DOMAIN input.texts : input.texts[k] \notin Blanks

\* decode_input_type strips the word and ignores its case.
Word(w) == IF w = " Query " THEN "query" ELSE w

\* Dimensions are none (null), or one value, which has to be a positive number.
Parses(r) ==
  /\ ~r.unknown_field
  /\ r.model # "blank"
  /\ InputParses(r.input)
  /\ r.encoding_format \in {"float", "base64"}
  /\ \A k \in DOMAIN r.dimensions : r.dimensions[k] > 0
  /\ r.user # "bad"
  /\ r.input_type # "absent" => Word(r.input_type) \in DOMAIN Tasks

Parsed(r) ==
  [inputs |-> r.input.texts, encoding_format |-> r.encoding_format,
   dimensions |-> IF r.dimensions = <<>> THEN Unset ELSE r.dimensions[1],
   task |-> IF r.input_type = "absent" THEN "none" ELSE Word(r.input_type)]

-----------------------------------------------------------------------------
\* apply_default_dimensions and EmbeddingsAdapter.validate

WithDimensions(ir, cap) ==
  IF ir.dimensions = Unset THEN [ir EXCEPT !.dimensions = cap.default] ELSE ir

\* _validate_task: the dynamic profile needs a task, and no other takes one.
TaskFits(ir, cap) == (ir.task # "none") = (cap.policy = "accepted")

\* Variant: the limit of a batch is off by one.
FitsOneMore(ir, cap) ==
  /\ cap.max_inputs # Unset => Len(ir.inputs) <= cap.max_inputs + 1
  /\ ir.dimensions # Unset => ir.dimensions \in cap.dimensions
  /\ TaskFits(ir, cap)

Fits(ir, cap) ==
  /\ cap.max_inputs # Unset => Len(ir.inputs) <= cap.max_inputs
  /\ ir.dimensions # Unset => ir.dimensions \in cap.dimensions
  /\ TaskFits(ir, cap)

-----------------------------------------------------------------------------
\* Native requests

\* _resolve_task: the client's task, else the profile's.
TaskOf(ir, cap) ==
  IF cap.family = "titan" THEN "none"
  ELSE Tasks[IF ir.task # "none" THEN ir.task ELSE cap.fixed]

Native(texts, ir, cap) ==
  [texts |-> texts, dimensions |-> ir.dimensions, task |-> TaskOf(ir, cap)]

\* build_requests: one text in each of Titan's, all texts in Cohere's one.
NativeBodies(ir, cap) ==
  IF cap.family = "titan"
  THEN [k \in DOMAIN ir.inputs |-> Native(<<ir.inputs[k]>>, ir, cap)]
  ELSE <<Native(ir.inputs, ir, cap)>>

\* The k-th vector of a native response; one beyond the texts is of none of them.
Vector(body, k, format) ==
  [text |-> IF k \in DOMAIN body.texts THEN body.texts[k] ELSE "none",
   dimensions |-> body.dimensions, task |-> body.task, format |-> format]
=============================================================================
