\* A peer that comes and goes, two calls and its own messages, and Close.
CONSTANTS
  None = None
  Peers = {p1}
  Starters = {u1}
  Talkers = {p1}
  Waiters = {}
  Calls = {k1, k2}
  QueueCap = 1
SPECIFICATION FairSpec
INVARIANT NoStrandedInvoke
PROPERTIES PeerLossEndsInvokes CloseEnds
