\* The same caller uses ConnectWithReconnect and then Connect, which races the reconnect loop.
CONSTANTS
  None = None
  Connectors = {t1}
  Sessions = {r1}
  Conns = {c1, c2}
  Modes <- BothModes
SPECIFICATION FairSpec
INVARIANT NoLostWakeup
PROPERTIES Reconnects CloseReturns
