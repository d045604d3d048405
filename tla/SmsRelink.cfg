SPECIFICATION MCSpec
CONSTANTS
  Sids = {d1}
  NoSid = NoSid
  SmsIds = {1}
  Free = Free
  Chats = {c1, c2}
  Users = {u1}
  NoUser = NoUser
  Second = h2
  Other = c2
  Handlers = {h1, h2}
  Monitor = Monitor
  MaxAttempts = 2
  Batch = 1
  MaxCrashes = 1
  MaxChanges = 2
INVARIANTS
  AnsweredMeansReserved
  DeliveriesHold
PROPERTIES
  ImplementsLedger
  RetryableSettles
