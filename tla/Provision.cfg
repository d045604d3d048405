SPECIFICATION FairSpec
CONSTANTS
  Servers = {s1, s2}
  Hosts = {h1, h2}
  NoHost = NoHost
  Requests = {r1, r2}
  Timeout = 1
  MaxTime = 2
  MaxCrashes = 1
  MaxFaults = 1
CHECK_DEADLOCK FALSE
INVARIANTS
  OnlineHasTarget
  TargetIsInstalled
  OrphansAreRaced
PROPERTIES
  InstallationSettles
