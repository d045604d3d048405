SPECIFICATION MCSpec
CONSTANTS
  Mailboxes = {1, 2}
  Chats = {a1, a2}
  Users = {ann}
  Owner <- TwoOfAnn
  a1 = a1
  a2 = a2
  ann = ann
  h1 = h1
  Admins = {ann}
  Members = {}
  Requests = {h1, h2}
  Channels = {"status", "patch", "oauth"}
  Nobody = Nobody
  Batch = 1
  MaxChanges = 3
  MaxCrashes = 1
  MaxTelegram = 1
INVARIANTS
  StampIsFresh
  StampMeansTold
PROPERTIES
  OutageNoticed
