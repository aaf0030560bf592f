CONSTANTS
  c1 = c1
  c2 = c2
  m1 = m1
  m2 = m2
  max_tokens = max_tokens
  max_completion_tokens = max_completion_tokens
  web_search = web_search
  Calls = {c1, c2}
  Models = {m1, m2}
  Things = {max_tokens, max_completion_tokens, web_search}
  Paths = {max_tokens, max_completion_tokens, web_search}
  Path <- MCPath
  Rename <- MCRename
  TTL = 1
  Requests <- MixedRequests
  MaxRetries = 2
  MaxStrips = 2
  BaseDelay = 1
  Budget = 1
  Horizon = 1
SPECIFICATION FairSpec
INVARIANTS
  TypeOK
  BoundedSends
  OnlyRefusedThingsChange
  SlotsMatchConnections
PROPERTIES
  NoSendAfterDeadline
  NoBlindResend
  KeepsContract
  HonoursContract
