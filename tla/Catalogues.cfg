SPECIFICATION CataloguesSpec
CONSTANTS
  Boxes = {1, 2}
  Numbers = {y1}
  Apps = {app}
  NoName = NoName
  MailTeams = {m1}
  NoTeam = NoTeam
  MaxMailCalls = 2
  MaxTries = 2
  MaxMailTrouble = 1
  FeedBoxes = {f1}
  FeedTeams = {ft}
  Pool = Pool
  MaxLetters = 3
  Dates = {0, 1, 2}
  PageSize = 1
  MaxFeedSteps = 3
  Tags = {c1, c2}
  Terms = {q1, q2}
  MaxTagLetters = 1
  MaxTagSteps = 4
  SmsClerks = {n1, n2}
  SmsTeams = {g1, g2}
  Spare = Spare
  Phones = {p1, p2}
  MaxNumbers = 2
  MaxTexts = 3
  MaxSmsRequests = 2
  MaxSmsTrouble = 1
  People = {r1, r2}
  NoPerson = NoPerson
  Chats = {z1, z2}
  Nicks = {i1, i2}
  NoNick = NoNick
  BotRoles = {b1, b2}
  Visitors = {v1, v2}
  MaxVisits = 2
  MaxChanges = 2
  MaxRefusals = 1
CHECK_DEADLOCK FALSE
INVARIANTS
  MailboxesHold
  LettersHold
  NumbersHold
  LinksHold
PROPERTIES
  NumbersMoveByTransfer
  ChatStaysWithPerson
