SPECIFICATION MCSpec
CONSTANTS
  Mailboxes = {1}
  Chats = {a1}
  Users = {ann}
  Owner <- OnlyAnn
  a1 = a1
  a2 = a2
  ann = ann
  h1 = h1
  Admins = {ann}
  Members = {ann}
  Requests = {h1}
  Channels = {"patch"}
  Nobody = Nobody
  Batch = 1
  MaxChanges = 5
  MaxCrashes = 0
  MaxTelegram = 0
INVARIANT StampOfThisOutage
