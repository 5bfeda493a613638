\* Two goroutines call ConnectWithReconnect at the same time.
CONSTANTS
  None = None
  Connectors = {t1, t2}
  Sessions = {r1, r2}
  Conns = {c1, c2, c3}
  Modes <- OnlyReconnect
SYMMETRY Symmetric
SPECIFICATION Spec
INVARIANTS ReaderOwnsConnection CloseStopsGoroutines
PROPERTY ImplementsLink
