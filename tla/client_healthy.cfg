\* A call on the next connection while the previous one fails its calls.
CONSTANTS
  None = None
  Connectors = {t1}
  Sessions = {r1}
  Conns = {c1, c2}
  Modes <- OnlyReconnect
  Calls = {k1}
  Handlers = {}
  Replies = {"result"}
  StaleIds = {}
  MaxInbox = 1
SPECIFICATION ClientSpec
INVARIANT HealthyCallsNotFailed
