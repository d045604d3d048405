SPECIFICATION LoopsSpec
CONSTANTS
  AiKeyIds = {k1}
  Editors = {e1}
  MaxKeyEdits = 2
  MaxKeyTrouble = 1
  FailThreshold = 2
  BalanceLevels = {"normal", "depleted"}
  LoopGroups = {{"check", "probe"}, {"sync"}}
  SnapUsers = {1, 2, 3, 4}
  PageLimit = 2
  RevenueBatch = 1
  MaxSourceSteps = 4
  MaxSnapTrouble = 1
  Servers = {s1, s2}
  Metrics = {"cpu"}
  MaxLoadSteps = 3
  MaxPollTrouble = 1
  Askers = {a1, a2}
  CacheKeys = {page, windows}
  Queries = {up, usage}
  MaxQueries = 2
  Ttl = 1
  MaxMoments = 2
  MaxAsks = 4
  MaxPromTrouble = 1
CHECK_DEADLOCK FALSE
INVARIANTS
  KeysHold
  SnapshotHolds
  ReadersHold
PROPERTIES
  LiveStaysListed
  LoopsSettle
