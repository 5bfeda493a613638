\* A connection is upgraded while Close runs.
CONSTANTS
  None = None
  Peers = {p1, p2}
  Starters = {u1}
  Talkers = {}
  Waiters = {}
  Calls = {}
  QueueCap = 1
SPECIFICATION Spec
INVARIANT CloseDisconnectsAll
