SPECIFICATION Spec
CONSTANTS
  Servers = {s1}
  Hosts = {h1}
  NoHost = NoHost
  Requests = {r1}
  Timeout = 1
  MaxTime = 0
  MaxCrashes = 0
  MaxFaults = 0
CHECK_DEADLOCK FALSE
INVARIANT DeletedIsNotScraped
