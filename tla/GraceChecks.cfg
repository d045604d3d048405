SPECIFICATION FairSpec
CONSTANTS
  Proxies = {p1}
  Poller = Poller
  Checkers = {k1}
  NoTime = NoTime
  NoEdit = NoEdit
  AlertAfter = 2
  MaxTime = 3
  MaxConfig = 2
  MaxFlips = 1
  MaxCrashes = 1
  MaxLost = 1
CHECK_DEADLOCK FALSE
INVARIANTS
  OneRedPerOutage
  FlagMeansAlert
PROPERTIES
  OutageReported
  RowTellsTruth
