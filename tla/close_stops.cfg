\* Two Connects overlap: the second overwrites the connection of the first.
CONSTANTS
  None = None
  Connectors = {t1, t2}
  Sessions = {r1}
  Conns = {c1, c2}
  Modes <- OnlyConnect
SPECIFICATION Spec
INVARIANT CloseStopsGoroutines
