--------------------------- MODULE MCUpstreamCall ---------------------------
(***************************************************************************)
(* Small instances of UpstreamCall.                                        *)
(***************************************************************************)
EXTENDS UpstreamCall, TLC

CONSTANTS
  max_tokens, max_completion_tokens,  \* a field, and what it is renamed to
  web_search,  \* a tool type
  m1, m2,         \* two upstream models
  c1, c2          \* two calls

MCPath == [t \in Things |-> t]
MCRename == [t \in {max_tokens} |-> max_completion_tokens]

Plain(ts) == [things |-> ts, hidden |-> {}, shape |-> "clean", blobs |-> "none"]

Ask(mode, surface, model, body) ==
  [mode |-> mode, surface |-> surface, model |-> model, body |-> body]

\* A replayed Codex history: a tool offered in the tools list and again in an
\* additional_tools item, input items to project, reasoning of another model.
Replay == [things |-> {web_search}, hidden |-> {web_search}, shape |-> "safe", blobs |-> "bedrock"]
\* One whose input cannot be projected, with reasoning Bedrock did not mint.
Foreign == [things |-> {max_tokens, max_completion_tokens}, hidden |-> {}, shape |-> "unsafe", blobs |-> "foreign"]

\* Both modes and every heal, for two models.
MixedRequests == {Ask("sync", "mantleGpt", m1, Replay),
                  Ask("stream", "mantleGpt", m1, Foreign),
                  Ask("stream", "openai", m2, Plain({max_tokens})),
                  Ask("sync", "plain", m1, Plain({max_tokens}))}

\* The fields of one model, one of them under its old and its new name.
FieldRequests == {Ask("sync", "openai", m1, Plain({max_tokens})),
                  Ask("stream", "plain", m1, Plain({max_tokens})),
                  Ask("stream", "mantle", m1, Foreign)}

=============================================================================
