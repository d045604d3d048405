SPECIFICATION ConsoleSpec
CONSTANTS
  Writers = {w1, w2}
  DocRoles = {ra}
  MaxNodes = 4
  MaxDocTx = 2
  FeedLimit = 1
  Uploaders = {u1, u2}
  MaxAttachments = 3
  MaxDocuments = 4
  MaxRequests = 4
  Staff = {s1, s2}
  TeamIds = {t1, t2}
  TeamClerks = {c1, c2}
  MaxTeamRequests = 3
  Nobody = Nobody
  Keep = Keep
  Accts = {a1, a2}
  AcctRoles = {x1, x2, x3}
  Catalogue = {"users", "other"}
  Console = Console
  AcctClerks = {k1, k2}
  MaxAcctRequests = 3
  MaxBackends = 3
  Codes = {q1, q2}
  Hosts = {h1, h2}
  Sites = {site}
  NoSite = NoSite
  BackendClerks = {e1, e2}
  MaxBackendRequests = 2
  MaxBackendTrouble = 1
  AdminHosts = {d1, d2}
  NoPrefix = NoPrefix
  Askers = {o1, o2}
  MaxAsks = 2
  MaxAdminTrouble = 1
CHECK_DEADLOCK FALSE
INVARIANTS
  DocumentsHold
  FeedLosesNothing
  VersionNamesContent
  AttachmentsHold
  TeamsHold
  AccountsHold
  BackendsHold
  AdminHolds
