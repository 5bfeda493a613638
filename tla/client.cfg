\* A call, a handler and the read loop share a connection that is dropped, and sendMu.
CONSTANTS
  None = None
  Connectors = {t1}
  Sessions = {}
  Conns = {c1}
  Modes <- OnlyConnect
  Calls = {k1}
  Handlers = {h1}
  Replies = {"result", "badversion"}
  StaleIds = {"stale"}
  MaxInbox = 2
SPECIFICATION ClientFairSpec
INVARIANTS NoStrandedCall ReplyIntegrity
PROPERTIES LossEndsCalls DeadlinesEndCalls CloseEnds
