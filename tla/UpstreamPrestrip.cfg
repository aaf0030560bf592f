CONSTANTS
  c1 = c1
  c2 = c2
  m1 = m1
  m2 = m2
  max_tokens = max_tokens
  max_completion_tokens = max_completion_tokens
  web_search = web_search
  Calls = {c1, c2}
  Models = {m1}
  Things = {max_tokens, max_completion_tokens}
  Paths = {max_tokens, max_completion_tokens}
  Path <- MCPath
  Rename <- MCRename
  TTL = 3
  Requests <- FieldRequests
  MaxRetries = 2
  MaxStrips = 2
  BaseDelay = 1
  Budget = 3
  Horizon = 2
SPECIFICATION Spec
INVARIANT KnownRefusedNotSentFirst
