CONSTANTS
  None = None
  s1 = s1
  s2 = s2
  c1 = c1
  c2 = c2
  c3 = c3
  Servers = {s1, s2}
  Conns = {c1, c2, c3}
  Clients <- SmallClients
  Deployments <- SmallDeployments
  Cap = 1
  MaxCrashes = 1
  Launchers = {TRUE, FALSE}
SPECIFICATION FairSpec
INVARIANTS NothingServedAfterReturn
PROPERTIES SignalsStop UpgradesEnd StdioEndsWithParent CrashesDoNotBlockPath DialEnds
CHECK_DEADLOCK FALSE
