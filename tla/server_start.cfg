\* Two Starts, Close, two connections and a call to one of them.
CONSTANTS
  None = None
  Peers = {p1, p2}
  Starters = {u1, u2}
  Talkers = {}
  Waiters = {w1}
  Calls = {k1}
  QueueCap = 1
SYMMETRY Symmetric
SPECIFICATION Spec
INVARIANTS PeersAreServed NoListenerLeft InvokeFailsWithItsPeer
