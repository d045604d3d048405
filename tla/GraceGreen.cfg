SPECIFICATION Spec
CONSTANTS
  Proxies = {p1}
  Poller = Poller
  Checkers = {k1}
  NoTime = NoTime
  NoEdit = NoEdit
  AlertAfter = 2
  MaxTime = 3
  MaxConfig = 1
  MaxFlips = 1
  MaxCrashes = 1
  MaxLost = 0
CHECK_DEADLOCK FALSE
PROPERTY GreenOnlyAfterRed
