------------------------- MODULE MailDispatchProofs -------------------------
(***************************************************************************)
(* Theorems about MailDispatch, for every set of messages, chats and       *)
(* users, every limit on attempts, every batch and every bound: types,     *)
(* what is stored, reserved and fanned out, the invariant that keeps       *)
(* failed deliveries within reach of pass B, and the refinement of         *)
(* DeliveryLedger.                                                         *)
(***************************************************************************)
EXTENDS MailDispatch, FiniteSetTheorems, TLAPS

----------------------------------------------------------------------------
(* Types                                                                    *)

\* The type invariant in the parts a step disturbs one at a time.
TablesOK ==
  /\ account \in {"absent", "present", "deleted"}
  /\ message \in [Uids -> Messages]
  /\ delivery \in [Uids -> [Chats -> Rows]]
  /\ \A u \in Uids, c \in Chats : Reserved(u, c) => Stored(u)
  /\ \A u \in Uids : Stored(u) => account = "present"
PeopleOK ==
  /\ alive \subseteq Chats /\ blocked \subseteq Chats
  /\ team \subseteq Users /\ admins \subseteq Users
IterationOK ==
  /\ pc \in {"sleep", "list", "walk", "reserve", "send", "mark", "fanout", "drain"}
  /\ seesAll \subseteq Chats
  /\ cache = {} \/ \E S \in SUBSET Chats : cache = {S}
  /\ todo \subseteq Uids
  /\ current \in Uids \cup {Nobody}
  /\ targets \subseteq Chats
  /\ IF pc \in {"send", "mark"} THEN job \in Jobs ELSE job = Nobody
  /\ outcome \in Outcomes
  /\ backlog \subseteq Jobs
BudgetsOK ==
  pushes \in 0 .. MaxPushes /\ crashes \in 0 .. MaxCrashes /\ changes \in 0 .. MaxChanges
DebtsOK ==
  /\ owed \in [Uids -> SUBSET Chats] /\ owedAdmin \in [Uids -> SUBSET Chats]
  /\ newcomers \subseteq Chats
TracesOK ==
  /\ acked \subseteq Uids /\ unknown \subseteq Uids /\ untagged \subseteq Uids
  /\ copies \in [Uids -> [Chats -> 0 .. 2]]
  /\ doubted \subseteq Uids \X Chats
  /\ fanned \in [Uids -> 0 .. 2]
HandlersOK == handler \in [Handlers -> Open \cup {Nobody}]

\* The iteration has a message in hand from its loading to its fan-out, and a
\* delivery of pass A in hand is of that message.
CurrentOK ==
  /\ pc \in {"reserve", "fanout"} => current \in Uids
  /\ pc \in {"send", "mark"} /\ job.pass = "A" => job.msg = current
  /\ \A t \in backlog : t.pass = "B"

\* A part whose variables stay the same stays as it is.
LEMMA TablesFrame == TablesOK /\ UNCHANGED tables => TablesOK'
BY DEF TablesOK, tables, Reserved, Stored
\* People and chats.
LEMMA PeopleFrame == PeopleOK /\ UNCHANGED people => PeopleOK'
BY DEF PeopleOK, people
\* The iteration under way, with the message it has in hand.
LEMMA IterationFrame == IterationOK /\ CurrentOK /\ UNCHANGED <<pc, iteration>>
                          => IterationOK' /\ CurrentOK'
BY DEF IterationOK, CurrentOK, iteration
\* The bounds.
LEMMA BudgetsFrame == BudgetsOK /\ UNCHANGED budgets => BudgetsOK'
BY DEF BudgetsOK, budgets
\* What is owed to people.
LEMMA DebtsFrame == DebtsOK /\ UNCHANGED debts => DebtsOK'
BY DEF DebtsOK, debts
\* What has arrived and been said.
LEMMA TracesFrame == TracesOK /\ UNCHANGED traces => TracesOK'
BY DEF TracesOK, traces
\* The handlers of the webhook.
LEMMA HandlersFrame == HandlersOK /\ UNCHANGED handler => HandlersOK'
BY DEF HandlersOK

\* The parts, and what is in hand.
TypeInv == /\ TablesOK /\ PeopleOK /\ IterationOK /\ BudgetsOK /\ DebtsOK /\ TracesOK
           /\ HandlersOK /\ CurrentOK

\* A message whose mark is rewritten keeps its id.
LEMMA MarkedMessage ==
  ASSUME NEW m \in Messages, NEW b \in BOOLEAN
  PROVE  /\ [m EXCEPT !.notified = b] \in Messages
         /\ [m EXCEPT !.notified = b].id = m.id
<1>1. m = [id |-> m.id, notified |-> m.notified] /\ m.id \in Nat
  BY DEF Messages
<1>2. [m EXCEPT !.notified = b] = [id |-> m.id, notified |-> b]
  BY <1>1
<1>3. QED BY <1>1, <1>2 DEF Messages

\* The sequence of ids gives a number that is not 0.
LEMMA NextIdType == NextId \in Nat /\ NextId # 0
<1>1. IsFiniteSet({v \in Uids : Stored(v)})
  BY FS_Subset, MailDispatchConstants
<1>2. Cardinality({v \in Uids : Stored(v)}) \in Nat
  BY <1>1, FS_CardinalityType
<1>3. QED BY <1>2 DEF NextId

\* A closed iteration: pc is sleep and what it was doing is doubted.
LEMMA AbandonTypes ==
  ASSUME TypeInv, Abandon
  PROVE  IterationOK' /\ CurrentOK' /\ TracesOK'
<1> USE MailDispatchConstants
<1>1. IterationOK' /\ CurrentOK'
  BY DEF Abandon, IterationOK, CurrentOK, Outcomes
<1>2. pc = "mark" => <<job.msg, job.chat>> \in Uids \X Chats
  BY DEF TypeInv, IterationOK, Jobs
<1>3. TracesOK'
  BY <1>2 DEF Abandon, TypeInv, TracesOK
<1>4. QED BY <1>1, <1>3

\* The steps of an ingest keep the types.
LEMMA IngestTypes ==
  ASSUME TypeInv, NEW h \in Handlers, Ingest(h)
  PROVE  TypeInv'
<1> USE MailDispatchConstants
<1>0. /\ TablesOK /\ PeopleOK /\ IterationOK /\ BudgetsOK /\ DebtsOK /\ TracesOK
      /\ HandlersOK /\ CurrentOK
  BY DEF TypeInv
<1>1. ASSUME NEW u \in Uids, Take(h, u) PROVE HandlersOK'
  BY <1>0, <1>1 DEF Take, HandlersOK, Open
<1>2. ASSUME NEW u \in Uids, SkipUnknown(h, u) PROVE TypeInv'
  <2>1. TracesOK'
    BY <1>0, <1>2 DEF SkipUnknown, TracesOK
  <2>2. QED
    BY <1>0, <1>1, <1>2, <2>1, TablesFrame, PeopleFrame, IterationFrame,
       BudgetsFrame, DebtsFrame DEF SkipUnknown, TypeInv
<1>3. ASSUME NEW u \in Uids, StoreMessage(h, u) PROVE TypeInv'
  <2>1. CASE Stored(u)
    <3>1. UNCHANGED tables /\ UNCHANGED debts
      BY <1>3, <2>1 DEF StoreMessage, tables, debts
    <3>2. QED
      BY <1>0, <1>1, <1>3, <3>1, TablesFrame, PeopleFrame, IterationFrame,
         BudgetsFrame, DebtsFrame, TracesFrame DEF StoreMessage, TypeInv
  <2>2. CASE ~Stored(u)
    <3>0. Insert(u) /\ account = "present"
      BY <1>3, <2>2 DEF StoreMessage
    <3>1. NextId \in Nat /\ NextId # 0
      BY NextIdType
    <3>2. [id |-> NextId, notified |-> FALSE] \in Messages
      BY <3>1 DEF Messages
    <3>3. message' \in [Uids -> Messages] /\ message'[u].id # 0
          /\ \A v \in Uids \ {u} : message'[v] = message[v]
      BY <1>0, <3>0, <3>1, <3>2 DEF Insert, TablesOK
    <3>4. TablesOK'
      BY <1>0, <1>3, <3>0, <3>3 DEF StoreMessage, TablesOK, Reserved, Stored
    <3>5. DebtsOK'
      BY <1>0, <1>3, <3>0 DEF StoreMessage, DebtsOK, Insert, TeamChats, AdminChats, PeopleOK
    <3>6. QED
      BY <1>0, <1>1, <1>3, <3>4, <3>5, PeopleFrame, IterationFrame,
         BudgetsFrame, TracesFrame DEF StoreMessage, TypeInv
  <2>3. QED BY <2>1, <2>2
<1>4. CASE StoreFails(h)
  <2>1. HandlersOK'
    BY <1>0, <1>4 DEF StoreFails, HandlersOK
  <2>2. QED
    BY <1>0, <1>4, <2>1, TablesFrame, PeopleFrame, IterationFrame, BudgetsFrame,
       DebtsFrame, TracesFrame DEF StoreFails, TypeInv
<1>5. CASE AnswerPush(h)
  <2>1. HandlersOK'
    BY <1>0, <1>5 DEF AnswerPush, HandlersOK
  <2>2. TracesOK'
    BY <1>0, <1>5 DEF AnswerPush, HandlersOK, TracesOK, Open
  <2>3. QED
    BY <1>0, <1>5, <2>1, <2>2, TablesFrame, PeopleFrame, IterationFrame,
       BudgetsFrame, DebtsFrame DEF AnswerPush, TypeInv
<1>6. QED BY <1>2, <1>3, <1>4, <1>5 DEF Ingest

\* The steps of an iteration keep the types.
LEMMA DispatchTypes ==
  ASSUME TypeInv, Dispatch
  PROVE  TypeInv'
<1> USE MailDispatchConstants
<1>0. /\ TablesOK /\ PeopleOK /\ IterationOK /\ BudgetsOK /\ DebtsOK /\ TracesOK
      /\ HandlersOK /\ CurrentOK
  BY DEF TypeInv
<1>1. CASE Poll
  <2>1. seesAll' \subseteq Chats
    BY <1>0, <1>1 DEF Poll, OneChatEach, AdminChats, PeopleOK
  <2>2. IterationOK' /\ CurrentOK' /\ DebtsOK'
    BY <1>0, <1>1, <2>1 DEF Poll, IterationOK, CurrentOK, DebtsOK
  <2>3. QED
    BY <1>0, <1>1, <2>2, TablesFrame, PeopleFrame, BudgetsFrame, TracesFrame,
       HandlersFrame DEF Poll, TypeInv
<1>2. CASE ListNew
  <2>1. IterationOK' /\ CurrentOK'
    BY <1>0, <1>2 DEF ListNew, Oldest, IterationOK, CurrentOK
  <2>2. QED
    BY <1>0, <1>2, <2>1, TablesFrame, PeopleFrame, BudgetsFrame, DebtsFrame,
       TracesFrame, HandlersFrame DEF ListNew, TypeInv
<1>3. CASE ReserveFails
  BY <1>0, <1>3, AbandonTypes, TablesFrame, PeopleFrame, BudgetsFrame,
     DebtsFrame, HandlersFrame DEF ReserveFails, TypeInv
<1>4. CASE MarkNotified
  <2>1. current \in Uids
    BY <1>0, <1>4 DEF MarkNotified, CurrentOK
  <2>2. /\ message' = [message EXCEPT ![current].notified = @ \/ Stored(current)]
        /\ UNCHANGED <<account, delivery>>
    BY <1>4 DEF MarkNotified
  <2>3. (message[current].notified \/ Stored(current)) \in BOOLEAN
    OBVIOUS
  <2>4. message' \in [Uids -> Messages] /\ \A v \in Uids : message'[v].id = message[v].id
    <3>1. PICK b \in BOOLEAN : message' = [message EXCEPT ![current] =
                                            [message[current] EXCEPT !.notified = b]]
      BY <2>2, <2>3
    <3>2. QED BY <1>0, <2>1, <3>1, MarkedMessage DEF TablesOK
  <2>5. TablesOK'
    BY <1>0, <2>2, <2>4 DEF TablesOK, Reserved, Stored
  <2>6. IterationOK' /\ CurrentOK'
    BY <1>0, <1>4 DEF MarkNotified, IterationOK, CurrentOK, iteration
  <2>7. QED
    BY <1>0, <1>4, <2>5, <2>6, PeopleFrame, BudgetsFrame, DebtsFrame, TracesFrame,
       HandlersFrame DEF MarkNotified, TypeInv
<1>5. CASE PushFanout
  <2>1. IterationOK' /\ CurrentOK'
    BY <1>0, <1>5 DEF PushFanout, IterationOK, CurrentOK
  <2>2. TracesOK'
    BY <1>0, <1>5 DEF PushFanout, TracesOK, Plus
  <2>3. QED
    BY <1>0, <1>5, <2>1, <2>2, TablesFrame, PeopleFrame, BudgetsFrame, DebtsFrame,
       HandlersFrame DEF PushFanout, TypeInv
<1>6. CASE Send
  <2>1. job \in Jobs /\ job.msg \in Uids /\ job.chat \in Chats
    BY <1>0, <1>6 DEF Send, IterationOK, Jobs
  <2>2. IterationOK' /\ CurrentOK'
    BY <1>0, <1>6, <2>1 DEF Send, IterationOK, CurrentOK, Outcomes
  <2>3. PICK arrived \in BOOLEAN :
          /\ copies' = IF arrived THEN [copies EXCEPT ![job.msg][job.chat] = Plus(@)] ELSE copies
          /\ doubted' = IF arrived /\ outcome' = "error"
                        THEN doubted \cup {<<job.msg, job.chat>>} ELSE doubted
    BY <1>6 DEF Send
  <2>4. \A n \in 0 .. 2 : Plus(n) \in 0 .. 2
    BY DEF Plus
  <2>5. copies' \in [Uids -> [Chats -> 0 .. 2]]
    BY <1>0, <2>1, <2>3, <2>4 DEF TracesOK
  <2>6. TracesOK'
    BY <1>0, <1>6, <2>1, <2>3, <2>5 DEF Send, TracesOK
  <2>7. QED
    BY <1>0, <1>6, <2>2, <2>6, TablesFrame, PeopleFrame, BudgetsFrame, DebtsFrame,
       HandlersFrame DEF Send, TypeInv
<1>7. CASE Mark
  <2>1. job \in Jobs /\ job.msg \in Uids /\ job.chat \in Chats
    BY <1>0, <1>7 DEF Mark, IterationOK, Jobs
  <2>2. ASSUME NEW r \in Rows, r.status # "none"
        PROVE  /\ Marked(r, job.pass, job.attempts, outcome) \in Rows
               /\ Marked(r, job.pass, job.attempts, outcome).status # "none"
    BY <2>2 DEF Marked, Rows, Statuses
  <2>3. /\ delivery' \in [Uids -> [Chats -> Rows]]
        /\ \A u \in Uids, c \in Chats : Reserved(u, c)' => Reserved(u, c)
    BY <1>0, <1>7, <2>1, <2>2 DEF Mark, TablesOK, Reserved
  <2>4. TablesOK'
    BY <1>0, <1>7, <2>3 DEF Mark, TablesOK, Stored
  <2>5. PeopleOK'
    BY <1>0, <1>7 DEF Mark, PeopleOK
  <2>6. DebtsOK'
    BY <1>0, <1>7 DEF Mark, DebtsOK
  <2>7. IterationOK' /\ CurrentOK'
    BY <1>0, <1>7, <2>1 DEF Mark, IterationOK, CurrentOK, Outcomes, Jobs
  <2>8. QED
    BY <1>0, <1>7, <2>4, <2>5, <2>6, <2>7, BudgetsFrame, TracesFrame,
       HandlersFrame DEF Mark, TypeInv
<1>8. CASE ListPending
  <2>1. backlog' \subseteq Jobs
    BY <1>0, <1>8 DEF ListPending, Task, Jobs, TablesOK, Rows
  <2>2. IterationOK' /\ CurrentOK'
    BY <1>0, <1>8, <2>1 DEF ListPending, Task, IterationOK, CurrentOK
  <2>3. QED
    BY <1>0, <1>8, <2>2, TablesFrame, PeopleFrame, BudgetsFrame, DebtsFrame,
       TracesFrame, HandlersFrame DEF ListPending, TypeInv
<1>9. CASE EndIteration
  <2>1. IterationOK' /\ CurrentOK'
    BY <1>0, <1>9 DEF EndIteration, IterationOK, CurrentOK
  <2>2. QED
    BY <1>0, <1>9, <2>1, TablesFrame, PeopleFrame, BudgetsFrame, DebtsFrame,
       TracesFrame, HandlersFrame DEF EndIteration, TypeInv
<1>10. ASSUME NEW u \in Uids, SkipDeleted(u) PROVE TypeInv'
  <2>1. IterationOK' /\ CurrentOK'
    BY <1>0, <1>10 DEF SkipDeleted, IterationOK, CurrentOK
  <2>2. QED
    BY <1>0, <1>10, <2>1, TablesFrame, PeopleFrame, BudgetsFrame, DebtsFrame,
       TracesFrame, HandlersFrame DEF SkipDeleted, TypeInv
<1>11. ASSUME NEW u \in Uids, SkipUntagged(u) PROVE TypeInv'
  <2>1. message' \in [Uids -> Messages] /\ \A v \in Uids : message'[v].id = message[v].id
    <3>1. message' = [message EXCEPT ![u] = [message[u] EXCEPT !.notified = TRUE]]
      BY <1>11 DEF SkipUntagged
    <3>2. /\ [message[u] EXCEPT !.notified = TRUE] \in Messages
          /\ [message[u] EXCEPT !.notified = TRUE].id = message[u].id
      BY <1>0, <1>11, MarkedMessage DEF TablesOK
    <3>3. QED BY <1>0, <1>11, <3>1, <3>2 DEF TablesOK
  <2>2. TablesOK'
    BY <1>0, <1>11, <2>1 DEF SkipUntagged, TablesOK, Reserved, Stored
  <2>3. IterationOK' /\ CurrentOK' /\ TracesOK'
    BY <1>0, <1>11 DEF SkipUntagged, IterationOK, CurrentOK, TracesOK
  <2>4. QED
    BY <1>0, <1>11, <2>2, <2>3, PeopleFrame, BudgetsFrame, DebtsFrame,
       HandlersFrame DEF SkipUntagged, TypeInv
<1>12. ASSUME NEW u \in Uids, Load(u) PROVE TypeInv'
  <2>1. TeamChats \in SUBSET Chats
    BY <1>0 DEF TeamChats, PeopleOK
  <2>2. \E S \in SUBSET Chats : cache' = {S}
    BY <1>0, <1>12, <2>1 DEF Load, IterationOK
  <2>3. targets' \subseteq Chats
    <3>1. PICK S \in SUBSET Chats : cache' = {S}
      BY <2>2
    <3>2. UNION cache' = S
      BY <3>1
    <3>3. targets' = (UNION cache') \cup seesAll
      BY <1>12 DEF Load
    <3>4. targets' = S \cup seesAll
      BY <3>2, <3>3
    <3>5. QED BY <1>0, <3>1, <3>4 DEF IterationOK
  <2>4. IterationOK' /\ CurrentOK'
    BY <1>0, <1>12, <2>2, <2>3 DEF Load, IterationOK, CurrentOK
  <2>5. QED
    BY <1>0, <1>12, <2>4, TablesFrame, PeopleFrame, BudgetsFrame, DebtsFrame,
       TracesFrame, HandlersFrame DEF Load, TypeInv
<1>13. ASSUME NEW c \in Chats, Reserve(c) PROVE TypeInv'
  <2>1. current \in Uids /\ Stored(current) /\ UNCHANGED <<account, message>>
    BY <1>0, <1>13 DEF Reserve, CurrentOK
  <2>2. CASE Reserved(current, c)
    <3>1. UNCHANGED tables
      BY <1>13, <2>2 DEF Reserve, tables
    <3>2. IterationOK' /\ CurrentOK'
      BY <1>0, <1>13, <2>2 DEF Reserve, IterationOK, CurrentOK
    <3>3. QED
      BY <1>0, <1>13, <3>1, <3>2, TablesFrame, PeopleFrame, BudgetsFrame,
         DebtsFrame, TracesFrame, HandlersFrame DEF Reserve, TypeInv
  <2>3. CASE ~Reserved(current, c)
    <3>1. /\ delivery' = [delivery EXCEPT ![current][c].status = "pending"]
          /\ job' = Task("A", current, c, 0) /\ pc' = "send"
      BY <1>13, <2>3 DEF Reserve
    <3>2. /\ delivery' \in [Uids -> [Chats -> Rows]]
          /\ \A u \in Uids, d \in Chats : Reserved(u, d)' => Reserved(u, d) \/ u = current
      <4>1. delivery' = [delivery EXCEPT ![current] = [delivery[current] EXCEPT ![c] =
                          [delivery[current][c] EXCEPT !.status = "pending"]]]
        BY <3>1
      <4>2. [delivery[current][c] EXCEPT !.status = "pending"] \in Rows
        BY <1>0, <2>1 DEF TablesOK, Rows, Statuses
      <4>3. [delivery[current] EXCEPT ![c] = [delivery[current][c] EXCEPT !.status = "pending"]]
              \in [Chats -> Rows]
        BY <1>0, <2>1, <4>2 DEF TablesOK
      <4>4. QED BY <1>0, <2>1, <4>1, <4>3 DEF TablesOK, Reserved
    <3>3. TablesOK'
      BY <1>0, <2>1, <3>2 DEF TablesOK, Stored
    <3>4. job' \in Jobs
      BY <2>1, <3>1 DEF Task, Jobs
    <3>5. IterationOK' /\ CurrentOK'
      BY <1>0, <1>13, <2>1, <3>1, <3>4 DEF Reserve, Task, IterationOK, CurrentOK
    <3>6. QED
      BY <1>0, <1>13, <3>3, <3>5, PeopleFrame, BudgetsFrame,
         DebtsFrame, TracesFrame, HandlersFrame DEF Reserve, TypeInv
  <2>4. QED BY <2>2, <2>3
<1>14. ASSUME NEW t \in backlog, Retry(t) PROVE TypeInv'
  <2>1. t \in Jobs
    BY <1>0 DEF IterationOK
  <2>2. IterationOK'
    BY <1>0, <1>14, <2>1 DEF Retry, IterationOK
  <2>3. CurrentOK'
    BY <1>0, <1>14 DEF Retry, CurrentOK
  <2>4. QED
    BY <1>0, <1>14, <2>2, <2>3, TablesFrame, PeopleFrame, BudgetsFrame, DebtsFrame,
       TracesFrame, HandlersFrame DEF Retry, TypeInv
<1>15. QED
  BY <1>1, <1>2, <1>3, <1>4, <1>5, <1>6, <1>7, <1>8, <1>9, <1>10, <1>11, <1>12, <1>13, <1>14
     DEF Dispatch

\* Pushes, failures and changes by people keep the types.
LEMMA OutsideTypes ==
  ASSUME TypeInv,
         \/ \E h \in Handlers, batch \in SUBSET Uids : Push(h, batch)
         \/ FailIteration \/ Restart \/ CreateMailbox \/ DeleteMailbox
         \/ \E u \in Users : ChangeRights(u)
         \/ \E c \in Chats : Bind(c) \/ ToggleBlock(c)
  PROVE  TypeInv'
<1> USE MailDispatchConstants
<1>0. /\ TablesOK /\ PeopleOK /\ IterationOK /\ BudgetsOK /\ DebtsOK /\ TracesOK
      /\ HandlersOK /\ CurrentOK
  BY DEF TypeInv
<1>a. Crash => BudgetsOK'
  BY <1>0 DEF Crash, BudgetsOK
<1>b. Change => BudgetsOK'
  BY <1>0 DEF Change, BudgetsOK
<1>c. ASSUME NEW newAlive \in SUBSET Chats, NEW newTeam \in SUBSET Users,
             NEW newAdmins \in SUBSET Users, Reckon(newAlive, newTeam, newAdmins),
             UNCHANGED blocked, Change
      PROVE  TypeInv'
  <2>1. PeopleOK'
    BY <1>0, <1>c DEF Reckon, PeopleOK
  <2>2. DebtsOK'
    BY <1>0, <1>c DEF Reckon, DebtsOK
  <2>3. QED
    BY <1>0, <1>b, <1>c, <2>1, <2>2, TablesFrame, IterationFrame, TracesFrame, HandlersFrame
       DEF Reckon, TypeInv
<1>1. ASSUME NEW h \in Handlers, NEW batch \in SUBSET Uids, Push(h, batch) PROVE TypeInv'
  <2>1. HandlersOK' /\ BudgetsOK'
    BY <1>0, <1>1 DEF Push, HandlersOK, Open, BudgetsOK
  <2>2. QED
    BY <1>0, <1>1, <2>1, TablesFrame, PeopleFrame, IterationFrame, DebtsFrame, TracesFrame
       DEF Push, TypeInv
<1>2. CASE FailIteration
  BY <1>0, <1>2, <1>a, AbandonTypes, TablesFrame, PeopleFrame, DebtsFrame, HandlersFrame
     DEF FailIteration, TypeInv
<1>3. CASE Restart
  <2>1. HandlersOK'
    BY <1>3 DEF Restart, HandlersOK
  <2>2. QED
    BY <1>0, <1>3, <1>a, <2>1, AbandonTypes, TablesFrame, PeopleFrame, DebtsFrame
       DEF Restart, TypeInv
<1>4. CASE CreateMailbox
  <2>1. TablesOK'
    BY <1>0, <1>4 DEF CreateMailbox, TablesOK, Reserved, Stored
  <2>2. QED
    BY <1>0, <1>4, <1>b, <2>1, PeopleFrame, IterationFrame, DebtsFrame, TracesFrame,
       HandlersFrame DEF CreateMailbox, TypeInv
<1>5. CASE DeleteMailbox
  <2>1. TablesOK'
    BY <1>5 DEF DeleteMailbox, TablesOK, Reserved, Stored, NoRow, NoMessage, Rows, Statuses,
                Messages
  <2>2. QED
    BY <1>0, <1>5, <1>b, <2>1, PeopleFrame, IterationFrame, DebtsFrame, TracesFrame,
       HandlersFrame DEF DeleteMailbox, TypeInv
<1>6. ASSUME NEW u \in Users, ChangeRights(u) PROVE TypeInv'
  <2>1. /\ (team \cup {u}) \ (team \cap {u}) \in SUBSET Users
        /\ (admins \cup {u}) \ (admins \cap {u}) \in SUBSET Users
        /\ alive \in SUBSET Chats /\ team \in SUBSET Users /\ admins \in SUBSET Users
    BY <1>0, <1>6 DEF PeopleOK
  <2>2. QED BY <1>6, <1>c, <2>1 DEF ChangeRights
<1>7. ASSUME NEW c \in Chats, Bind(c) PROVE TypeInv'
  <2>1. alive \cup {c} \in SUBSET Chats /\ team \in SUBSET Users /\ admins \in SUBSET Users
    BY <1>0, <1>7 DEF PeopleOK
  <2>2. QED BY <1>7, <1>c, <2>1 DEF Bind
<1>8. ASSUME NEW c \in Chats, ToggleBlock(c) PROVE TypeInv'
  <2>1. PeopleOK'
    BY <1>0, <1>8 DEF ToggleBlock, PeopleOK
  <2>2. QED
    BY <1>0, <1>8, <1>b, <2>1, TablesFrame, IterationFrame, DebtsFrame, TracesFrame,
       HandlersFrame DEF ToggleBlock, TypeInv
<1>9. QED BY <1>1, <1>2, <1>3, <1>4, <1>5, <1>6, <1>7, <1>8

\* Every step keeps the types.
LEMMA TypeStep == TypeInv /\ [Next]_vars => TypeInv'
<1> SUFFICES ASSUME TypeInv, [Next]_vars PROVE TypeInv'
  OBVIOUS
<1>1. CASE Dispatch
  BY <1>1, DispatchTypes
<1>2. ASSUME NEW h \in Handlers, Ingest(h) PROVE TypeInv'
  BY <1>2, IngestTypes
<1>3. CASE UNCHANGED vars
  BY <1>3, TablesFrame, PeopleFrame, IterationFrame, BudgetsFrame, DebtsFrame, TracesFrame,
     HandlersFrame DEF vars, TypeInv
<1>4. QED BY <1>1, <1>2, <1>3, OutsideTypes DEF Next

\* Initially every variable has its type.
LEMMA TypeStart == Init => TypeInv
BY MailDispatchConstants DEF Init, TypeInv, TablesOK, PeopleOK, IterationOK, BudgetsOK,
   DebtsOK, TracesOK, HandlersOK, CurrentOK, Reserved, Stored, NoRow, NoMessage, Rows,
   Statuses, Messages, Outcomes

\* The parts make up the type invariant.
LEMMA TypeParts == TypeInv => TypeOK
BY DEF TypeInv, TypeOK, TablesOK, PeopleOK, IterationOK, BudgetsOK, DebtsOK, TracesOK,
   HandlersOK

\* Every variable of the ingest and the dispatcher always has its declared type.
THEOREM MailTypeCorrect == Spec => []TypeOK
<1>1. Spec => []TypeInv
  BY TypeStart, TypeStep, PTL DEF Spec
<1>2. QED BY <1>1, TypeParts, PTL

----------------------------------------------------------------------------
(* Steps by what they leave alone                                           *)

\* The dispatcher creates and deletes no message and answers no push; it only
\* sets marks.
LEMMA DispatchMessages ==
  ASSUME TypeInv, Dispatch
  PROVE  /\ UNCHANGED <<account, handler, acked, unknown>>
         /\ \A u \in Uids : message'[u].id = message[u].id
         /\ \A u \in Uids : message[u].notified => message'[u].notified
<1>0. message \in [Uids -> Messages]
  BY DEF TypeInv, TablesOK
<1>1. CASE MarkNotified
  <2>1. current \in Uids
    BY <1>1 DEF MarkNotified, TypeInv, CurrentOK
  <2>2. (message[current].notified \/ Stored(current)) \in BOOLEAN
    OBVIOUS
  <2>3. PICK b \in BOOLEAN : /\ b = (message[current].notified \/ Stored(current))
                             /\ message' = [message EXCEPT ![current] =
                                              [message[current] EXCEPT !.notified = b]]
    BY <1>1, <2>2 DEF MarkNotified
  <2>4. /\ [message[current] EXCEPT !.notified = b].id = message[current].id
        /\ [message[current] EXCEPT !.notified = b].notified = b
    BY <1>0, <2>1, MarkedMessage DEF Messages
  <2>5. QED
    BY <1>0, <1>1, <2>1, <2>3, <2>4 DEF MarkNotified, traces
<1>2. ASSUME NEW u \in Uids, SkipUntagged(u)
      PROVE  /\ UNCHANGED <<account, handler, acked, unknown>>
             /\ \A v \in Uids : message'[v].id = message[v].id
             /\ \A v \in Uids : message[v].notified => message'[v].notified
  <2>1. message' = [message EXCEPT ![u] = [message[u] EXCEPT !.notified = TRUE]]
    BY <1>2 DEF SkipUntagged
  <2>2. /\ [message[u] EXCEPT !.notified = TRUE].id = message[u].id
        /\ [message[u] EXCEPT !.notified = TRUE].notified = TRUE
    BY <1>0, <1>2, MarkedMessage DEF Messages
  <2>3. QED BY <1>0, <1>2, <2>1, <2>2 DEF SkipUntagged
<1>3. \/ MarkNotified \/ (\E u \in Uids : SkipUntagged(u))
      \/ UNCHANGED <<account, message, handler, acked, unknown>>
  BY DEF Dispatch, Poll, ListNew, ReserveFails, PushFanout, Send, Mark, ListPending,
         EndIteration, SkipDeleted, Load, Reserve, Retry, Abandon, tables, traces
<1>4. QED BY <1>1, <1>2, <1>3

\* The environment, taken together: people change, and debts only end.
PeopleStep ==
  /\ UNCHANGED <<tables, handler, pc, iteration, traces>>
  /\ \A u \in Uids : owed'[u] \subseteq owed[u] /\ owedAdmin'[u] \subseteq owedAdmin[u]

\* A change of rights, a new link and a block are such steps.
LEMMA PeopleSteps ==
  ASSUME TypeInv, \/ \E u \in Users : ChangeRights(u)
                  \/ \E c \in Chats : Bind(c) \/ ToggleBlock(c)
  PROVE  PeopleStep
<1>1. ASSUME NEW a, NEW t, NEW d, Reckon(a, t, d) PROVE PeopleStep
  BY <1>1 DEF Reckon, PeopleStep, TypeInv, DebtsOK
<1>2. ASSUME NEW c \in Chats, ToggleBlock(c) PROVE PeopleStep
  BY <1>2 DEF ToggleBlock, PeopleStep, debts
<1>3. QED BY <1>1, <1>2 DEF ChangeRights, Bind

\* Every step is one of these.
LEMMA StepKinds ==
  ASSUME TypeInv, [Next]_vars
  PROVE  \/ Dispatch
         \/ \E h \in Handlers : Ingest(h) \/ \E batch \in SUBSET Uids : Push(h, batch)
         \/ FailIteration \/ Restart \/ CreateMailbox \/ DeleteMailbox
         \/ PeopleStep
<1>1. UNCHANGED vars => PeopleStep
  BY DEF vars, PeopleStep, debts
<1>2. QED BY <1>1, PeopleSteps DEF Next

----------------------------------------------------------------------------
(* What the aggregator may forget                                           *)

\* A message is accounted for: stored, counted as unknown, or gone with its
\* mailbox.
Accounted(u) == Stored(u) \/ u \in unknown \/ account = "deleted"

\* So is every message of an open request that has been taken from its batch.
AnsweredInv ==
  /\ \A u \in acked : Accounted(u)
  /\ \A h \in Handlers : handler[h] # Nobody =>
       \A u \in handler[h].batch \ handler[h].rest : Accounted(u)

\* Who is accounted for stays so, and an invariant about requests that stay as
\* they are stays with it.
LEMMA AccountedFrame ==
  ASSUME AnsweredInv, TypeInv, UNCHANGED <<acked, handler>>,
         \A u \in Uids : Accounted(u) => Accounted(u)'
  PROVE  AnsweredInv'
<1>1. acked \subseteq Uids
  BY DEF TypeInv, TracesOK
<1>2. \A h \in Handlers : handler[h] # Nobody => handler[h].batch \subseteq Uids
  BY DEF TypeInv, HandlersOK, Open
<1>3. QED BY <1>1, <1>2 DEF AnsweredInv

\* An open request has a batch and a rest of messages, and is not Nobody.
LEMMA OpenHandler ==
  ASSUME TypeInv, NEW h \in Handlers, handler[h] # Nobody
  PROVE  handler[h] \in Open /\ handler[h].batch \subseteq Uids /\ handler[h].rest \subseteq Uids
BY DEF TypeInv, HandlersOK, Open

\* The steps of a request keep the accounts.
LEMMA AnsweredIngest ==
  ASSUME TypeInv, AnsweredInv, NEW h \in Handlers, Ingest(h)
  PROVE  AnsweredInv'
<1>0. /\ handler \in [Handlers -> Open \cup {Nobody}] /\ message \in [Uids -> Messages]
      /\ acked \subseteq Uids
  BY DEF TypeInv, HandlersOK, TablesOK, TracesOK
<1>a. ASSUME NEW u \in Uids, Take(h, u), acked' = acked, Accounted(u)',
             \A v \in Uids : Accounted(v) => Accounted(v)'
      PROVE  AnsweredInv'
  <2>1. handler[h] \in Open /\ handler[h].batch \subseteq Uids
    BY <1>a, OpenHandler DEF Take
  <2>2. handler' = [handler EXCEPT ![h] = [handler[h] EXCEPT !.rest = handler[h].rest \ {u}]]
    BY <1>a DEF Take
  <2>3. /\ [handler[h] EXCEPT !.rest = handler[h].rest \ {u}].rest = handler[h].rest \ {u}
        /\ [handler[h] EXCEPT !.rest = handler[h].rest \ {u}].batch = handler[h].batch
    BY <2>1 DEF Open
  <2>4. /\ handler'[h].rest = handler[h].rest \ {u} /\ handler'[h].batch = handler[h].batch
        /\ \A g \in Handlers \ {h} : handler'[g] = handler[g]
    BY <1>0, <2>2, <2>3
  <2>5. ASSUME NEW v \in handler'[h].batch \ handler'[h].rest PROVE Accounted(v)'
    BY <1>a, <2>1, <2>4, <2>5 DEF AnsweredInv, Take
  <2>6. ASSUME NEW g \in Handlers \ {h}, handler[g] # Nobody,
               NEW v \in handler[g].batch \ handler[g].rest
        PROVE  Accounted(v)'
    BY <1>a, <2>6, OpenHandler DEF AnsweredInv
  <2>7. \A v \in acked : Accounted(v)'
    BY <1>0, <1>a DEF AnsweredInv
  <2>8. QED BY <1>a, <2>4, <2>5, <2>6, <2>7 DEF AnsweredInv
<1>1. ASSUME NEW u \in Uids, SkipUnknown(h, u) PROVE AnsweredInv'
  <2>1. Accounted(u)' /\ \A v \in Uids : Accounted(v) => Accounted(v)'
    BY <1>1 DEF SkipUnknown, Accounted, Stored, tables
  <2>2. QED BY <1>1, <1>a, <2>1 DEF SkipUnknown
<1>2. ASSUME NEW u \in Uids, StoreMessage(h, u) PROVE AnsweredInv'
  <2>1. Stored(u)' /\ \A v \in Uids : Stored(v) => Stored(v)'
    <3>1. NextId \in Nat /\ NextId # 0
      BY NextIdType
    <3>2. QED BY <1>0, <1>2, <3>1 DEF StoreMessage, Insert, Stored
  <2>2. Accounted(u)' /\ \A v \in Uids : Accounted(v) => Accounted(v)'
    BY <1>2, <2>1 DEF StoreMessage, Accounted, traces
  <2>3. QED BY <1>2, <1>a, <2>2 DEF StoreMessage, traces
<1>b. ASSUME handler' = [handler EXCEPT ![h] = Nobody], UNCHANGED <<tables, unknown>>,
             \A u \in acked' : Accounted(u)
      PROVE  AnsweredInv'
  <2>1. handler'[h] = Nobody /\ \A g \in Handlers \ {h} : handler'[g] = handler[g]
    BY <1>0, <1>b
  <2>2. \A u : Accounted(u)' = Accounted(u)
    BY <1>b DEF Accounted, Stored, tables
  <2>3. QED BY <1>b, <2>1, <2>2 DEF AnsweredInv
<1>3. CASE StoreFails(h)
  BY <1>3, <1>b DEF StoreFails, AnsweredInv, traces
<1>4. CASE AnswerPush(h)
  <2>1. \A u \in handler[h].batch : Accounted(u)
    BY <1>4 DEF AnswerPush, AnsweredInv
  <2>2. QED BY <1>4, <1>b, <2>1 DEF AnswerPush, AnsweredInv
<1>5. QED BY <1>1, <1>2, <1>3, <1>4 DEF Ingest

\* Every step keeps the accounts.
LEMMA AnsweredStep ==
  ASSUME TypeInv, AnsweredInv, [Next]_vars
  PROVE  AnsweredInv'
<1>0. handler \in [Handlers -> Open \cup {Nobody}]
  BY DEF TypeInv, HandlersOK
<1>1. CASE Dispatch
  BY <1>1, DispatchMessages, AccountedFrame DEF Accounted, Stored
<1>2. ASSUME NEW h \in Handlers, NEW batch \in SUBSET Uids, Push(h, batch) PROVE AnsweredInv'
  <2>1. /\ handler'[h].batch \ handler'[h].rest = {}
        /\ \A g \in Handlers \ {h} : handler'[g] = handler[g]
    BY <1>0, <1>2 DEF Push
  <2>2. acked' = acked /\ \A u : Accounted(u)' = Accounted(u)
    BY <1>2 DEF Push, Accounted, Stored, tables, traces
  <2>3. QED BY <2>1, <2>2 DEF AnsweredInv
<1>3. CASE FailIteration
  BY <1>3, AccountedFrame DEF FailIteration, Abandon, Accounted, Stored, tables
<1>4. CASE Restart
  <2>1. acked' = acked /\ \A u : Accounted(u)' = Accounted(u)
    BY <1>4 DEF Restart, Abandon, Accounted, Stored, tables
  <2>2. \A h \in Handlers : handler'[h] = Nobody
    BY <1>4 DEF Restart
  <2>3. QED BY <2>1, <2>2 DEF AnsweredInv
<1>5. CASE CreateMailbox \/ DeleteMailbox
  BY <1>5, AccountedFrame DEF CreateMailbox, DeleteMailbox, Accounted, Stored, traces
<1>6. CASE PeopleStep
  BY <1>6, AccountedFrame DEF PeopleStep, Accounted, Stored, tables, traces
<1>7. QED BY <1>1, <1>2, <1>3, <1>4, <1>5, <1>6, StepKinds, AnsweredIngest

\* What the aggregator may forget is stored, unless the mailbox was not in the
\* catalogue when the batch was checked, or has been deleted since.
THEOREM MailAnsweredMeansStored == Spec => []AnsweredMeansStored
<1>1. Init => AnsweredInv
  BY DEF Init, AnsweredInv
<1>2. AnsweredInv => AnsweredMeansStored
  BY DEF AnsweredInv, AnsweredMeansStored, Accounted
<1>3. Spec => [](TypeInv /\ AnsweredInv)
  BY <1>1, TypeStart, TypeStep, AnsweredStep, PTL DEF Spec
<1>4. QED BY <1>2, <1>3, PTL

----------------------------------------------------------------------------
(* The message in hand                                                      *)

\* The iteration has a message in hand from its loading to its fan-out.
InHand == pc \in {"reserve", "fanout"} \/ (pc \in {"send", "mark"} /\ job.pass = "A")

\* A message that went with its mailbox, and one that needs no pass A any more.
Gone(u) == ~Stored(u) /\ account = "deleted"
Settled(u) == (Stored(u) /\ message[u].notified) \/ Gone(u)

\* What the iteration lists or has in hand was stored, and is unless it is gone.
ListedInv ==
  /\ \A u \in todo : Stored(u) \/ Gone(u)
  /\ InHand => (Stored(current) \/ Gone(current)) /\ current \notin todo

\* What is gone or settled stays so, and what is stored stays or goes.
LEMMA FateKept ==
  ASSUME TypeInv, [Next]_vars, NEW u \in Uids
  PROVE  /\ Gone(u) => Gone(u)'
         /\ Stored(u) \/ Gone(u) => (Stored(u) \/ Gone(u))'
         /\ Settled(u) => Settled(u)'
<1> USE DEF Gone, Settled
<1>0. message \in [Uids -> Messages]
  BY DEF TypeInv, TablesOK
<1>1. CASE Dispatch
  BY <1>1, DispatchMessages DEF Stored
<1>2. ASSUME NEW h \in Handlers, Ingest(h)
      PROVE  UNCHANGED account /\ (account = "deleted" \/ Stored(u) => message'[u] = message[u])
  <2>1. ASSUME NEW v \in Uids, StoreMessage(h, v)
        PROVE  UNCHANGED account /\ account # "deleted"
               /\ (Stored(u) => message'[u] = message[u])
    BY <1>0, <2>1 DEF StoreMessage, Insert
  <2>2. \/ \E v \in Uids : StoreMessage(h, v)
        \/ UNCHANGED tables
    BY <1>2 DEF Ingest, SkipUnknown, StoreFails, AnswerPush
  <2>3. QED BY <2>1, <2>2 DEF tables
<1>3. CASE DeleteMailbox
  BY <1>3 DEF DeleteMailbox, Stored, NoMessage
<1>4. CASE CreateMailbox
  BY <1>4 DEF CreateMailbox, Stored
<1>5. ASSUME \/ \E h \in Handlers, batch \in SUBSET Uids : Push(h, batch)
             \/ FailIteration \/ Restart \/ PeopleStep
      PROVE  UNCHANGED tables
  BY <1>5 DEF Push, FailIteration, Restart, PeopleStep
<1>6. QED BY <1>1, <1>2, <1>3, <1>4, <1>5, StepKinds DEF Stored, tables

\* The list of an iteration only shrinks, and what it has in hand stays until
\* another message is loaded.
LEMMA HandStep ==
  ASSUME TypeInv, [Next]_vars
  PROVE  /\ todo' \subseteq todo \/ ListNew
         /\ InHand' => (InHand /\ current' = current) \/ \E u \in Uids : Load(u)
<1> USE DEF InHand
<1>1. CASE Dispatch
  <2>1. CASE Poll \/ EndIteration
    BY <2>1 DEF Poll, EndIteration
  <2>2. CASE ListNew \/ ListPending
    BY <2>2 DEF ListNew, ListPending
  <2>3. CASE ReserveFails
    BY <2>3 DEF ReserveFails, Abandon
  <2>4. CASE MarkNotified
    BY <2>4 DEF MarkNotified, iteration
  <2>5. CASE PushFanout
    BY <2>5 DEF PushFanout
  <2>6. CASE Send
    BY <2>6 DEF Send
  <2>7. CASE Mark
    BY <2>7 DEF Mark
  <2>8. ASSUME NEW u \in Uids, SkipDeleted(u) \/ SkipUntagged(u)
        PROVE  todo' \subseteq todo /\ ~InHand'
    BY <2>8 DEF SkipDeleted, SkipUntagged
  <2>9. ASSUME NEW u \in Uids, Load(u) PROVE todo' \subseteq todo
    BY <2>9 DEF Load
  <2>10. ASSUME NEW c \in Chats, Reserve(c)
         PROVE  todo' = todo /\ InHand /\ current' = current
    BY <2>10 DEF Reserve
  <2>11. ASSUME NEW t \in backlog, Retry(t) PROVE todo' = todo /\ ~InHand'
    BY <2>11 DEF Retry, TypeInv, CurrentOK
  <2>12. QED
    BY <1>1, <2>1, <2>2, <2>3, <2>4, <2>5, <2>6, <2>7, <2>8, <2>9, <2>10, <2>11 DEF Dispatch
<1>2. CASE FailIteration \/ Restart
  BY <1>2 DEF FailIteration, Restart, Abandon
<1>3. ASSUME \/ \E h \in Handlers : Ingest(h) \/ \E batch \in SUBSET Uids : Push(h, batch)
             \/ CreateMailbox \/ DeleteMailbox \/ PeopleStep
      PROVE  UNCHANGED <<pc, iteration>>
  BY <1>3 DEF Ingest, SkipUnknown, StoreMessage, StoreFails, AnswerPush, Push, CreateMailbox,
              DeleteMailbox, PeopleStep
<1>4. QED BY <1>1, <1>2, <1>3, StepKinds DEF iteration

\* Every step keeps what is known of the list.
LEMMA ListedStep ==
  ASSUME TypeInv, ListedInv, [Next]_vars
  PROVE  ListedInv'
<1>0. todo \subseteq Uids /\ (InHand => current \in Uids)
  BY DEF TypeInv, IterationOK, CurrentOK, InHand, Jobs
<1>1. ASSUME NEW u \in todo' PROVE (Stored(u) \/ Gone(u))'
  <2>1. CASE u \in todo
    BY <1>0, <2>1, FateKept DEF ListedInv
  <2>2. CASE ListNew
    <3>1. u \in Uids /\ Stored(u)
      BY <1>1, <2>2 DEF ListNew, Oldest
    <3>2. QED BY <3>1, FateKept
  <2>3. QED BY <1>1, <2>1, <2>2, HandStep
<1>2. ASSUME InHand' PROVE (Stored(current) \/ Gone(current))' /\ current' \notin todo'
  <2>1. CASE InHand /\ current' = current
    <3>1. current \in Uids /\ (Stored(current) \/ Gone(current)) /\ current \notin todo
      BY <1>0, <2>1 DEF ListedInv
    <3>2. PICK v \in Uids : v = current
      BY <3>1
    <3>3. (Stored(v) \/ Gone(v))'
      BY <3>1, <3>2, FateKept
    <3>4. ~ListNew
      BY <2>1 DEF InHand, ListNew
    <3>5. QED BY <2>1, <3>1, <3>2, <3>3, <3>4, HandStep DEF Stored, Gone
  <2>2. ASSUME NEW u \in Uids, Load(u)
        PROVE  (Stored(current) \/ Gone(current))' /\ current' \notin todo'
    BY <2>2 DEF Load, Stored, Gone, tables
  <2>3. QED BY <1>2, <2>1, <2>2, HandStep
<1>3. QED BY <1>1, <1>2 DEF ListedInv

----------------------------------------------------------------------------
(* The push bot of the team                                                 *)

\* A message the push bot has sent has left the queue for good, and the one in
\* hand has not been sent.
FanInv ==
  /\ \A u \in Uids : fanned[u] # 0 => fanned[u] = 1 /\ Settled(u) /\ (u \in todo => Gone(u))
  /\ InHand => fanned[current] = 0
  /\ pc = "fanout" => Settled(current)

\* Every step but the fan-out leaves the sends of the push bot alone.
LEMMA FannedFrame ==
  ASSUME TypeInv, [Next]_vars, ~PushFanout
  PROVE  fanned' = fanned
<1>1. CASE Dispatch
  BY <1>1 DEF Dispatch, Poll, ListNew, ReserveFails, MarkNotified, Send, Mark, ListPending,
     EndIteration, SkipDeleted, SkipUntagged, Load, Reserve, Retry, Abandon, traces
<1>2. ASSUME NEW h \in Handlers, Ingest(h) PROVE fanned' = fanned
  BY <1>2 DEF Ingest, SkipUnknown, StoreMessage, StoreFails, AnswerPush, traces
<1>3. CASE FailIteration \/ Restart
  BY <1>3 DEF FailIteration, Restart, Abandon
<1>4. ASSUME \/ \E h \in Handlers, batch \in SUBSET Uids : Push(h, batch)
             \/ CreateMailbox \/ DeleteMailbox \/ PeopleStep
      PROVE  fanned' = fanned
  BY <1>4 DEF Push, CreateMailbox, DeleteMailbox, PeopleStep, traces
<1>5. QED BY <1>1, <1>2, <1>3, <1>4, StepKinds

\* A step that reaches the fan-out marks the message in hand, or was there.
LEMMA FanoutReached ==
  ASSUME TypeInv, [Next]_vars, pc' = "fanout"
  PROVE  MarkNotified \/ (pc = "fanout" /\ current' = current)
<1>1. CASE Dispatch
  BY <1>1 DEF Dispatch, Poll, ListNew, ReserveFails, PushFanout, Send, Mark, ListPending,
     EndIteration, SkipDeleted, SkipUntagged, Load, Reserve, Retry, Abandon
<1>2. ASSUME NEW h \in Handlers, Ingest(h) PROVE UNCHANGED <<pc, current>>
  BY <1>2 DEF Ingest, SkipUnknown, StoreMessage, StoreFails, AnswerPush, iteration
<1>3. CASE FailIteration \/ Restart
  BY <1>3 DEF FailIteration, Restart, Abandon
<1>4. ASSUME \/ \E h \in Handlers, batch \in SUBSET Uids : Push(h, batch)
             \/ CreateMailbox \/ DeleteMailbox \/ PeopleStep
      PROVE  UNCHANGED <<pc, current>>
  BY <1>4 DEF Push, CreateMailbox, DeleteMailbox, PeopleStep, iteration
<1>5. QED BY <1>1, <1>2, <1>3, <1>4, StepKinds

\* Every step keeps what is known of the push bot.
LEMMA FanStep ==
  ASSUME TypeInv, ListedInv, FanInv, [Next]_vars
  PROVE  FanInv'
<1>0. /\ message \in [Uids -> Messages] /\ fanned \in [Uids -> 0 .. 2] /\ todo \subseteq Uids
      /\ (InHand => current \in Uids)
  BY DEF TypeInv, TablesOK, TracesOK, IterationOK, CurrentOK, InHand, Jobs
<1>1. ASSUME NEW u \in Uids, fanned'[u] # 0
      PROVE  fanned'[u] = 1 /\ Settled(u)' /\ (u \in todo' => Gone(u)')
  <2>1. CASE PushFanout
    <3>1. InHand /\ current \in Uids /\ fanned[current] = 0 /\ Settled(current)
          /\ current \notin todo /\ todo' = todo
      BY <1>0, <2>1 DEF PushFanout, FanInv, ListedInv, InHand
    <3>2. /\ fanned'[current] \in {0, 1}
          /\ \A v \in Uids \ {current} : fanned'[v] = fanned[v]
      BY <1>0, <2>1, <3>1 DEF PushFanout, Plus
    <3>3. fanned'[u] = 1 /\ Settled(u) /\ (u \in todo => Gone(u))
      BY <1>1, <3>1, <3>2 DEF FanInv
    <3>4. QED BY <3>1, <3>3, FateKept
  <2>2. CASE ~PushFanout
    <3>1. fanned[u] = 1 /\ fanned'[u] = 1 /\ Settled(u) /\ (u \in todo => Gone(u))
      BY <1>1, <2>2, FannedFrame DEF FanInv
    <3>2. ASSUME ListNew, u \in todo' PROVE Gone(u)
      BY <1>0, <3>1, <3>2 DEF ListNew, Oldest, Settled
    <3>3. QED BY <3>1, <3>2, FateKept, HandStep
  <2>3. QED BY <2>1, <2>2
<1>2. ASSUME InHand' PROVE fanned'[current'] = 0
  <2>1. ~PushFanout
    BY <1>2 DEF InHand, PushFanout
  <2>2. CASE InHand /\ current' = current
    BY <2>1, <2>2, FannedFrame DEF FanInv
  <2>3. ASSUME NEW u \in Uids, Load(u) PROVE fanned'[current'] = 0
    BY <2>1, <2>3, FannedFrame DEF Load, Due, FanInv, Gone
  <2>4. QED BY <1>2, <2>2, <2>3, HandStep
<1>3. ASSUME pc' = "fanout" PROVE Settled(current)'
  <2>1. CASE MarkNotified
    <3>1. current \in Uids /\ (Stored(current) \/ Gone(current)) /\ current' = current
      BY <1>0, <2>1 DEF MarkNotified, ListedInv, InHand, iteration
    <3>2. PICK v \in Uids : v = current
      BY <3>1
    <3>3. CASE Gone(v)
      BY <3>1, <3>2, <3>3, FateKept DEF Settled, Gone, Stored
    <3>4. CASE Stored(v)
      <4>1. message' = [message EXCEPT ![v] = [message[v] EXCEPT !.notified = TRUE]]
        BY <2>1, <3>2, <3>4 DEF MarkNotified
      <4>2. /\ [message[v] EXCEPT !.notified = TRUE].id = message[v].id
            /\ [message[v] EXCEPT !.notified = TRUE].notified = TRUE
        BY <1>0, MarkedMessage DEF Messages
      <4>3. message'[v].id # 0 /\ message'[v].notified
        BY <1>0, <3>4, <4>1, <4>2 DEF Stored
      <4>4. QED BY <3>1, <3>2, <4>3 DEF Settled, Stored
    <3>5. QED BY <3>1, <3>2, <3>3, <3>4
  <2>2. CASE pc = "fanout" /\ current' = current
    <3>1. PICK v \in Uids : v = current
      BY <1>0, <2>2 DEF InHand
    <3>2. Settled(v)'
      BY <2>2, <3>1, FateKept DEF FanInv
    <3>3. QED BY <2>2, <3>1, <3>2 DEF Settled, Gone, Stored
  <2>3. QED BY <1>3, <2>1, <2>2, FanoutReached
<1>4. QED BY <1>1, <1>2, <1>3 DEF FanInv

\* The push bot of the team, whose sends nothing records, sends a message at most
\* once.
THEOREM MailFannedOnce == Spec => []FannedOnce
<1>1. Init => ListedInv /\ FanInv
  BY DEF Init, ListedInv, FanInv, InHand
<1>2. FanInv => FannedOnce
  <2>1. SUFFICES ASSUME FanInv, NEW u \in Uids PROVE fanned[u] < 2
    BY DEF FannedOnce
  <2>2. fanned[u] = 0 \/ fanned[u] = 1
    BY <2>1 DEF FanInv
  <2>3. QED BY <2>2
<1>3. Spec => [](TypeInv /\ ListedInv /\ FanInv)
  BY <1>1, TypeStart, TypeStep, ListedStep, FanStep, PTL DEF Spec
<1>4. QED BY <1>2, <1>3, PTL

----------------------------------------------------------------------------
(* Who is owed a delivery                                                   *)

\* Debts are to chats eligible now.  From its start an iteration has a chat of
\* every administrator it is to serve, and what it has cached of the team
\* contains everybody its messages are owed to.
DebtInv ==
  /\ \A u \in Uids : owed[u] \subseteq TeamChats /\ owedAdmin[u] \subseteq AdminChats \ newcomers
  /\ pc # "sleep" => \A c \in AdminChats \ newcomers : \E d \in seesAll : Owner[d] = Owner[c]
  /\ pc \in {"sleep", "list"} => cache = {}
  /\ \A S \in cache : /\ \A u \in todo : owed[u] \subseteq S
                      /\ InHand => owed[current] \subseteq S

\* Debts arise when a message is stored and otherwise only end.
LEMMA DebtsShrink ==
  ASSUME TypeInv, [Next]_vars, NEW u \in Uids
  PROVE  \/ owed'[u] \subseteq owed[u] /\ owedAdmin'[u] \subseteq owedAdmin[u]
         \/ \E h \in Handlers : StoreMessage(h, u) /\ ~Stored(u)
<1>0. owed \in [Uids -> SUBSET Chats] /\ owedAdmin \in [Uids -> SUBSET Chats]
  BY DEF TypeInv, DebtsOK
<1>1. CASE Dispatch
  <2>1. CASE Mark
    BY <1>0, <2>1 DEF Mark
  <2>2. CASE ~Mark
    BY <1>1, <2>2 DEF Dispatch, Poll, ListNew, ReserveFails, MarkNotified, PushFanout, Send,
       ListPending, EndIteration, SkipDeleted, SkipUntagged, Load, Reserve, Retry, debts
  <2>3. QED BY <2>1, <2>2
<1>2. ASSUME NEW h \in Handlers, Ingest(h)
      PROVE  \/ owed'[u] \subseteq owed[u] /\ owedAdmin'[u] \subseteq owedAdmin[u]
             \/ StoreMessage(h, u) /\ ~Stored(u)
  <2>1. ASSUME NEW v \in Uids, StoreMessage(h, v), v # u \/ Stored(u)
        PROVE  owed'[u] = owed[u] /\ owedAdmin'[u] = owedAdmin[u]
    BY <1>0, <2>1 DEF StoreMessage, Insert
  <2>2. (\E v \in Uids : StoreMessage(h, v)) \/ UNCHANGED debts
    BY <1>2 DEF Ingest, SkipUnknown, StoreFails, AnswerPush
  <2>3. QED BY <2>1, <2>2 DEF debts
<1>3. ASSUME \/ \E h \in Handlers, batch \in SUBSET Uids : Push(h, batch)
             \/ FailIteration \/ Restart \/ CreateMailbox \/ DeleteMailbox
      PROVE  UNCHANGED debts
  BY <1>3 DEF Push, FailIteration, Restart, CreateMailbox, DeleteMailbox
<1>4. QED BY <1>1, <1>2, <1>3, StepKinds DEF PeopleStep, debts

\* A delivery stays until the mailbox is deleted.
LEMMA ReservedKept ==
  ASSUME TypeInv, [Next]_vars, NEW u \in Uids, NEW c \in Chats, Reserved(u, c)
  PROVE  Reserved(u, c)' \/ DeleteMailbox
<1>0. delivery \in [Uids -> [Chats -> Rows]]
  BY DEF TypeInv, TablesOK
<1>1. CASE Dispatch
  <2>1. CASE Mark
    <3>1. job.msg \in Uids /\ job.chat \in Chats
      BY <2>1 DEF Mark, TypeInv, IterationOK, Jobs
    <3>2. Marked(delivery[u][c], job.pass, job.attempts, outcome).status # "none"
      BY <1>0 DEF Marked, Rows, Reserved
    <3>3. QED BY <1>0, <2>1, <3>1, <3>2 DEF Mark, Reserved
  <2>2. ASSUME NEW d \in Chats, Reserve(d) PROVE Reserved(u, c)'
    <3>1. CASE Reserved(current, d)
      BY <2>2, <3>1 DEF Reserve, Reserved
    <3>2. CASE ~Reserved(current, d)
      <4>1. delivery' = [delivery EXCEPT ![current] = [delivery[current] EXCEPT ![d] =
                          [delivery[current][d] EXCEPT !.status = "pending"]]]
        BY <2>2, <3>2 DEF Reserve
      <4>2. u # current \/ c # d
        BY <3>2
      <4>3. QED BY <1>0, <4>1, <4>2 DEF Reserved
    <3>3. QED BY <3>1, <3>2
  <2>3. CASE ~Mark /\ ~(\E d \in Chats : Reserve(d))
    BY <1>1, <2>3 DEF Dispatch, Poll, ListNew, ReserveFails, MarkNotified, PushFanout, Send,
       ListPending, EndIteration, SkipDeleted, SkipUntagged, Load, Retry, tables, Reserved
  <2>4. QED BY <2>1, <2>2, <2>3
<1>2. ASSUME NEW h \in Handlers, Ingest(h) PROVE UNCHANGED delivery
  BY <1>2 DEF Ingest, SkipUnknown, StoreMessage, StoreFails, AnswerPush, tables
<1>3. ASSUME \/ \E h \in Handlers, batch \in SUBSET Uids : Push(h, batch)
             \/ FailIteration \/ Restart \/ CreateMailbox \/ PeopleStep
      PROVE  UNCHANGED delivery
  BY <1>3 DEF Push, FailIteration, Restart, CreateMailbox, PeopleStep, tables
<1>4. QED BY <1>1, <1>2, <1>3, StepKinds DEF Reserved

\* One chat of each administrator is a chat of each.
LEMMA ChatOfEach ==
  ASSUME TypeInv, NEW T \in OneChatEach(AdminChats), NEW c \in AdminChats
  PROVE  \E d \in T : Owner[d] = Owner[c]
<1>1. Cardinality({d \in T : Owner[d] = Owner[c]}) = 1
  BY DEF OneChatEach
<1>2. {d \in T : Owner[d] = Owner[c]} # {}
  BY <1>1, FS_EmptySet
<1>3. QED BY <1>2

\* Whom the debts are to: no step but a poll adds an administrator who is not new
\* to the iteration.
LEMMA EligibleStep ==
  ASSUME TypeInv, DebtInv, [Next]_vars
  PROVE  /\ \A u \in Uids : /\ owed'[u] \subseteq TeamChats'
                            /\ owedAdmin'[u] \subseteq AdminChats' \ newcomers'
         /\ Poll \/ AdminChats' \ newcomers' \subseteq AdminChats \ newcomers
<1>0. /\ owed \in [Uids -> SUBSET Chats] /\ owedAdmin \in [Uids -> SUBSET Chats]
      /\ alive \subseteq Chats
  BY DEF TypeInv, DebtsOK, PeopleOK
<1>a. ASSUME UNCHANGED <<alive, team, admins, owed, owedAdmin, newcomers>>
      PROVE  /\ \A u \in Uids : /\ owed'[u] \subseteq TeamChats'
                                /\ owedAdmin'[u] \subseteq AdminChats' \ newcomers'
             /\ AdminChats' \ newcomers' \subseteq AdminChats \ newcomers
  BY <1>a DEF DebtInv, TeamChats, AdminChats
<1>1. CASE Poll
  BY <1>1 DEF Poll, DebtInv, TeamChats, AdminChats, people
<1>2. CASE Mark
  <2>1. CASE outcome = "forbidden"
    BY <1>0, <1>2, <2>1 DEF Mark, DebtInv, TeamChats, AdminChats
  <2>2. CASE outcome # "forbidden"
    BY <1>2, <2>2, <1>a DEF Mark
  <2>3. QED BY <2>1, <2>2
<1>3. CASE Dispatch /\ ~Poll /\ ~Mark
  <2>1. UNCHANGED <<people, debts>>
    BY <1>3 DEF Dispatch, ListNew, ReserveFails, MarkNotified, PushFanout, Send, ListPending,
       EndIteration, SkipDeleted, SkipUntagged, Load, Reserve, Retry
  <2>2. QED BY <2>1, <1>a DEF people, debts
<1>4. ASSUME NEW h \in Handlers, Ingest(h)
      PROVE  /\ \A u \in Uids : /\ owed'[u] \subseteq TeamChats'
                                /\ owedAdmin'[u] \subseteq AdminChats' \ newcomers'
             /\ AdminChats' \ newcomers' \subseteq AdminChats \ newcomers
  <2>1. ASSUME NEW v \in Uids, StoreMessage(h, v), ~Stored(v)
        PROVE  \A u \in Uids : /\ owed'[u] \subseteq TeamChats
                              /\ owedAdmin'[u] \subseteq AdminChats \ newcomers
    BY <1>0, <2>1 DEF StoreMessage, Insert, DebtInv
  <2>2. ASSUME NEW v \in Uids, StoreMessage(h, v)
        PROVE  UNCHANGED <<alive, team, admins, newcomers>>
    BY <2>2 DEF StoreMessage, people
  <2>3. \/ \E v \in Uids : StoreMessage(h, v) /\ ~Stored(v)
        \/ UNCHANGED <<alive, team, admins, owed, owedAdmin, newcomers>>
    BY <1>4 DEF Ingest, SkipUnknown, StoreMessage, StoreFails, AnswerPush, people, debts
  <2>4. QED BY <2>1, <2>2, <2>3, <1>a DEF TeamChats, AdminChats
<1>5. ASSUME NEW a, NEW t, NEW d, Reckon(a, t, d)
      PROVE  /\ \A u \in Uids : /\ owed'[u] \subseteq TeamChats'
                                /\ owedAdmin'[u] \subseteq AdminChats' \ newcomers'
             /\ AdminChats' \ newcomers' \subseteq AdminChats \ newcomers
  <2>1. TeamChats' = {c \in a : Owner[c] \in t} /\ AdminChats' = {c \in a : Owner[c] \in d}
    BY <1>5 DEF Reckon, TeamChats, AdminChats
  <2>2. newcomers' = newcomers \cup (AdminChats' \ AdminChats)
    BY <1>5, <2>1 DEF Reckon
  <2>3. \A u \in Uids : owed'[u] = owed[u] \cap TeamChats'
                       /\ owedAdmin'[u] = owedAdmin[u] \cap AdminChats'
    BY <1>5, <2>1 DEF Reckon
  <2>4. QED BY <2>2, <2>3 DEF DebtInv
<1>6. ASSUME \/ \E h \in Handlers, batch \in SUBSET Uids : Push(h, batch)
             \/ FailIteration \/ Restart \/ CreateMailbox \/ DeleteMailbox
             \/ \E c \in Chats : ToggleBlock(c)
             \/ UNCHANGED vars
      PROVE  UNCHANGED <<alive, team, admins, owed, owedAdmin, newcomers>>
  BY <1>6 DEF Push, FailIteration, Restart, CreateMailbox, DeleteMailbox, ToggleBlock, vars,
     people, debts
<1>7. QED BY <1>1, <1>2, <1>3, <1>4, <1>5, <1>6, <1>a DEF Next, ChangeRights, Bind

\* The chats of administrators change when an iteration starts or ends, and the
\* cache when it is filled or the iteration ends.
LEMMA ListsStep ==
  ASSUME TypeInv, [Next]_vars
  PROVE  /\ pc' # "sleep" => Poll \/ (pc # "sleep" /\ seesAll' = seesAll)
         /\ \/ cache' = {}
            \/ cache' = cache /\ (pc' \in {"sleep", "list"} => pc \in {"sleep", "list"})
            \/ \E u \in Uids : Load(u)
<1>1. CASE Dispatch
  BY <1>1 DEF Dispatch, Poll, ListNew, ReserveFails, MarkNotified, PushFanout, Send, Mark,
     ListPending, EndIteration, SkipDeleted, SkipUntagged, Load, Reserve, Retry, Abandon,
     iteration
<1>2. CASE FailIteration \/ Restart
  BY <1>2 DEF FailIteration, Restart, Abandon
<1>3. ASSUME \/ \E h \in Handlers : Ingest(h) \/ \E batch \in SUBSET Uids : Push(h, batch)
             \/ CreateMailbox \/ DeleteMailbox \/ PeopleStep
      PROVE  UNCHANGED <<pc, iteration>>
  BY <1>3 DEF Ingest, SkipUnknown, StoreMessage, StoreFails, AnswerPush, Push, CreateMailbox,
              DeleteMailbox, PeopleStep
<1>4. QED BY <1>1, <1>2, <1>3, StepKinds DEF iteration

\* What is in the list or in hand is not stored anew.
LEMMA NotStoredAnew ==
  ASSUME TypeInv, ListedInv, NEW u \in Uids, u \in todo \/ (InHand /\ u = current)
  PROVE  ~(\E h \in Handlers : StoreMessage(h, u) /\ ~Stored(u))
BY DEF ListedInv, Gone, StoreMessage

\* Every step keeps what is known of the debts.
LEMMA DebtStep ==
  ASSUME TypeInv, ListedInv, DebtInv, [Next]_vars
  PROVE  DebtInv'
<1>0. todo \subseteq Uids /\ (InHand => current \in Uids)
  BY DEF TypeInv, IterationOK, CurrentOK, InHand, Jobs
<1>1. ASSUME pc' # "sleep", NEW c \in AdminChats' \ newcomers'
      PROVE  \E d \in seesAll' : Owner[d] = Owner[c]
  <2>1. CASE Poll
    <3>1. seesAll' \in OneChatEach(AdminChats) /\ c \in AdminChats
      BY <2>1 DEF Poll, AdminChats, people
    <3>2. QED BY <3>1, ChatOfEach
  <2>2. CASE ~Poll
    <3>1. pc # "sleep" /\ seesAll' = seesAll /\ c \in AdminChats \ newcomers
      BY <1>1, <2>2, ListsStep, EligibleStep
    <3>2. QED BY <3>1 DEF DebtInv
  <2>3. QED BY <2>1, <2>2
<1>2. pc' \in {"sleep", "list"} => cache' = {}
  BY ListsStep DEF DebtInv, Load
<1>3. ASSUME NEW S \in cache', NEW u \in Uids, u \in todo' \/ (InHand' /\ u = current')
      PROVE  owed'[u] \subseteq S
  <2>1. ASSUME NEW v \in Uids, Load(v) PROVE owed'[u] \subseteq S
    <3>1. u \in todo /\ owed' = owed /\ (cache = {} => S = TeamChats) /\ (cache # {} => S \in cache)
      BY <1>3, <2>1 DEF Load, Due, debts
    <3>2. QED BY <1>3, <3>1 DEF DebtInv
  <2>2. CASE cache' = cache /\ ~(\E v \in Uids : Load(v))
    <3>1. ~ListNew
      BY <1>3, <2>2 DEF ListNew, DebtInv
    <3>2. u \in todo \/ (InHand /\ u = current)
      BY <1>3, <2>2, <3>1, HandStep
    <3>3. owed[u] \subseteq S
      BY <1>3, <2>2, <3>2 DEF DebtInv
    <3>4. owed'[u] \subseteq owed[u]
      BY <3>2, DebtsShrink, NotStoredAnew
    <3>5. QED BY <3>3, <3>4
  <2>3. QED BY <1>3, <2>1, <2>2, ListsStep
<1>4. todo' \subseteq Uids /\ (InHand' => current' \in Uids)
  BY TypeStep DEF TypeInv, IterationOK, CurrentOK, InHand, Jobs
<1>5. QED BY <1>1, <1>2, <1>3, <1>4, EligibleStep DEF DebtInv

\* Who is owed the message in hand has its delivery or is still a target.
CoverInv ==
  InHand /\ Stored(current) =>
    /\ \A c \in owed[current] : Reserved(current, c) \/ c \in targets
    /\ \A c \in owedAdmin[current] :
         \E d \in Chats : Owner[d] = Owner[c] /\ (Reserved(current, d) \/ d \in targets)

\* While a message is in hand its targets only leave the list with a delivery.
LEMMA TargetsStep ==
  ASSUME TypeInv, [Next]_vars, InHand, InHand', current' = current, NEW c \in Chats,
         c \in targets
  PROVE  c \in targets' \/ Reserved(current, c)'
<1> USE DEF InHand
<1>1. ASSUME NEW d \in Chats, Reserve(d) PROVE c \in targets' \/ Reserved(current, c)'
  <2>1. delivery \in [Uids -> [Chats -> Rows]] /\ current \in Uids
    BY <1>1 DEF Reserve, TypeInv, TablesOK, CurrentOK
  <2>2. CASE Reserved(current, d)
    BY <1>1, <2>2 DEF Reserve, Reserved
  <2>3. CASE ~Reserved(current, d)
    <3>1. delivery' = [delivery EXCEPT ![current] = [delivery[current] EXCEPT ![d] =
                        [delivery[current][d] EXCEPT !.status = "pending"]]]
      BY <1>1, <2>3 DEF Reserve
    <3>2. [delivery[current][d] EXCEPT !.status = "pending"].status = "pending"
      BY <1>1, <2>1 DEF Rows
    <3>3. delivery'[current][d].status = "pending"
      BY <1>1, <2>1, <3>1, <3>2
    <3>4. Reserved(current, d)'
      BY <3>3 DEF Reserved
    <3>5. QED BY <1>1, <3>4 DEF Reserve
  <2>4. QED BY <2>2, <2>3
<1>2. CASE Dispatch /\ ~(\E d \in Chats : Reserve(d))
  BY <1>2 DEF Dispatch, Poll, ListNew, ReserveFails, MarkNotified, PushFanout, Send, Mark,
     ListPending, EndIteration, SkipDeleted, SkipUntagged, Load, Retry, Abandon, iteration
<1>3. CASE FailIteration \/ Restart
  BY <1>3 DEF FailIteration, Restart, Abandon
<1>4. ASSUME \/ \E h \in Handlers : Ingest(h) \/ \E batch \in SUBSET Uids : Push(h, batch)
             \/ CreateMailbox \/ DeleteMailbox \/ PeopleStep
      PROVE  UNCHANGED <<pc, iteration>>
  BY <1>4 DEF Ingest, SkipUnknown, StoreMessage, StoreFails, AnswerPush, Push, CreateMailbox,
              DeleteMailbox, PeopleStep
<1>5. QED BY <1>1, <1>2, <1>3, <1>4, StepKinds DEF iteration

\* Every step keeps the cover of the message in hand.
LEMMA CoverStep ==
  ASSUME TypeInv, ListedInv, DebtInv, CoverInv, [Next]_vars
  PROVE  CoverInv'
<1>0. /\ owed \in [Uids -> SUBSET Chats] /\ owedAdmin \in [Uids -> SUBSET Chats]
      /\ seesAll \subseteq Chats /\ alive \subseteq Chats
      /\ (InHand => current \in Uids)
  BY DEF TypeInv, DebtsOK, IterationOK, PeopleOK, CurrentOK, InHand, Jobs
<1> SUFFICES ASSUME InHand', Stored(current)'
             PROVE  /\ \A c \in owed'[current'] : Reserved(current, c)' \/ c \in targets'
                    /\ \A c \in owedAdmin'[current'] :
                         \E d \in Chats : Owner[d] = Owner[c]
                                       /\ (Reserved(current, d)' \/ d \in targets')
  BY DEF CoverInv, Reserved
<1>1. ASSUME NEW u \in Uids, Load(u)
      PROVE  /\ \A c \in owed'[current'] : c \in targets'
             /\ \A c \in owedAdmin'[current'] :
                  \E d \in Chats : Owner[d] = Owner[c] /\ d \in targets'
  <2>1. /\ current' = u /\ u \in todo /\ pc # "sleep"
        /\ owed' = owed /\ owedAdmin' = owedAdmin
    BY <1>1 DEF Load, Due, debts
  <2>2. PICK S \in SUBSET Chats : cache' = {S} /\ owed[u] \subseteq S
    <3>1. TeamChats \in SUBSET Chats
      BY <1>0 DEF TeamChats
    <3>2. CASE cache = {}
      BY <1>1, <3>1, <3>2 DEF Load, DebtInv
    <3>3. CASE cache # {}
      BY <1>1, <2>1, <3>3 DEF Load, DebtInv, TypeInv, IterationOK
    <3>4. QED BY <3>2, <3>3
  <2>3. UNION cache' = S
    BY <2>2
  <2>4. targets' = (UNION cache') \cup seesAll
    BY <1>1 DEF Load
  <2>5. targets' = S \cup seesAll
    BY <2>3, <2>4
  <2>6. \A c \in owedAdmin[u] : \E d \in seesAll : Owner[d] = Owner[c]
    BY <2>1 DEF DebtInv
  <2>7. QED BY <1>0, <2>1, <2>2, <2>5, <2>6
<1>2. CASE InHand /\ current' = current
  <2>1. PICK v \in Uids : v = current
    BY <1>0, <1>2
  <2>2. Stored(v)' /\ (Stored(v) \/ Gone(v))
    BY <1>2, <2>1 DEF ListedInv, Stored
  <2>3. Stored(v) /\ ~DeleteMailbox
    <3>1. ~Gone(v)
      BY <2>2, FateKept DEF Gone
    <3>2. ~DeleteMailbox
      BY <2>2 DEF DeleteMailbox, Stored, NoMessage
    <3>3. QED BY <2>2, <3>1, <3>2
  <2>4. owed'[v] \subseteq owed[v] /\ owedAdmin'[v] \subseteq owedAdmin[v]
    BY <2>3, DebtsShrink
  <2>5. \A c \in Chats : Reserved(v, c) \/ c \in targets => Reserved(v, c)' \/ c \in targets'
    BY <1>2, <2>1, <2>3, ReservedKept, TargetsStep DEF Reserved
  <2>6. /\ \A c \in owed[v] : Reserved(v, c) \/ c \in targets
        /\ \A c \in owedAdmin[v] :
             \E d \in Chats : Owner[d] = Owner[c] /\ (Reserved(v, d) \/ d \in targets)
    BY <1>2, <2>1, <2>3 DEF CoverInv
  <2>7. /\ \A c \in owed'[v] : Reserved(v, c)' \/ c \in targets'
        /\ \A c \in owedAdmin'[v] :
             \E d \in Chats : Owner[d] = Owner[c] /\ (Reserved(v, d)' \/ d \in targets')
    BY <1>0, <2>4, <2>5, <2>6
  <2>8. QED BY <1>2, <2>1, <2>7 DEF Reserved
<1>3. QED BY <1>1, <1>2, HandStep

\* A mark is set when every delivery exists, or for want of a tag.
LEMMA MarksStep ==
  ASSUME TypeInv, CoverInv, [Next]_vars, NEW u \in Uids, message'[u].notified, u \notin untagged'
  PROVE  /\ u \notin untagged /\ ~DeleteMailbox
         /\ \/ message[u].notified
            \/ /\ \A c \in owed[u] : Reserved(u, c)
               /\ \A c \in owedAdmin[u] : \E d \in Chats : Owner[d] = Owner[c] /\ Reserved(u, d)
<1>0. message \in [Uids -> Messages]
  BY DEF TypeInv, TablesOK
<1>1. CASE MarkNotified
  <2>1. InHand /\ targets = {} /\ untagged' = untagged /\ ~DeleteMailbox
    BY <1>1 DEF MarkNotified, InHand, traces, DeleteMailbox
  <2>2. CASE u = current /\ Stored(current)
    BY <2>1, <2>2 DEF CoverInv
  <2>3. CASE u # current
    BY <1>0, <1>1, <2>1, <2>3 DEF MarkNotified
  <2>4. CASE u = current /\ ~Stored(current)
    <3>1. PICK b \in BOOLEAN : /\ b = (message[u].notified \/ Stored(u))
                               /\ message' = [message EXCEPT ![u] =
                                                [message[u] EXCEPT !.notified = b]]
      BY <1>1, <2>4 DEF MarkNotified
    <3>2. [message[u] EXCEPT !.notified = b].notified = b
      BY <1>0 DEF Messages
    <3>3. b = TRUE
      BY <1>0, <3>1, <3>2
    <3>4. QED BY <2>1, <2>4, <3>1, <3>3
  <2>5. QED BY <2>2, <2>3, <2>4
<1>2. ASSUME NEW v \in Uids, SkipUntagged(v)
      PROVE  u \notin untagged /\ ~DeleteMailbox /\ message[u].notified
  BY <1>0, <1>2 DEF SkipUntagged, DeleteMailbox
<1>3. ASSUME NEW h \in Handlers, NEW v \in Uids, StoreMessage(h, v)
      PROVE  u \notin untagged /\ ~DeleteMailbox /\ message[u].notified
  BY <1>0, <1>3 DEF StoreMessage, Insert, DeleteMailbox, traces
<1>4. ~DeleteMailbox
  BY DEF DeleteMailbox, NoMessage
<1>5. CASE Dispatch /\ ~MarkNotified /\ ~(\E v \in Uids : SkipUntagged(v))
  <2>1. UNCHANGED <<message, untagged>>
    BY <1>5 DEF Dispatch, Poll, ListNew, ReserveFails, PushFanout, Send, Mark, ListPending,
       EndIteration, SkipDeleted, Load, Reserve, Retry, Abandon, tables, traces
  <2>2. QED BY <1>4, <2>1
<1>6. ASSUME NEW h \in Handlers, Ingest(h), ~(\E v \in Uids : StoreMessage(h, v))
      PROVE  UNCHANGED <<message, untagged>>
  BY <1>6 DEF Ingest, SkipUnknown, StoreFails, AnswerPush, tables, traces
<1>7. ASSUME \/ \E h \in Handlers, batch \in SUBSET Uids : Push(h, batch)
             \/ FailIteration \/ Restart \/ CreateMailbox \/ PeopleStep
      PROVE  UNCHANGED <<message, untagged>>
  BY <1>7 DEF Push, FailIteration, Restart, Abandon, CreateMailbox, PeopleStep, tables, traces
<1>8. QED BY <1>1, <1>2, <1>3, <1>4, <1>5, <1>6, <1>7, StepKinds

\* Every step keeps the promise about marked messages.
LEMMA NotifiedStep ==
  ASSUME TypeInv, ListedInv, CoverInv, NotifiedMeansReserved, [Next]_vars
  PROVE  NotifiedMeansReserved'
<1>0. owed \in [Uids -> SUBSET Chats] /\ owedAdmin \in [Uids -> SUBSET Chats]
      /\ message \in [Uids -> Messages]
  BY DEF TypeInv, DebtsOK, TablesOK
<1>1. SUFFICES ASSUME NEW u \in Uids, message'[u].notified, u \notin untagged'
               PROVE  /\ \A c \in owed'[u] : Reserved(u, c)'
                      /\ \A c \in owedAdmin'[u] :
                           \E d \in Chats : Owner[d] = Owner[c] /\ Reserved(u, d)'
  BY DEF NotifiedMeansReserved
<1>2. /\ \A c \in owed[u] : Reserved(u, c)
      /\ \A c \in owedAdmin[u] : \E d \in Chats : Owner[d] = Owner[c] /\ Reserved(u, d)
  BY <1>1, MarksStep DEF NotifiedMeansReserved
<1>3. owed'[u] \subseteq owed[u] /\ owedAdmin'[u] \subseteq owedAdmin[u]
  <2>1. ASSUME NEW h \in Handlers, StoreMessage(h, u), ~Stored(u) PROVE FALSE
    <3>1. message' = [message EXCEPT ![u] = [id |-> NextId, notified |-> FALSE]]
      BY <2>1 DEF StoreMessage, Insert
    <3>2. QED BY <1>0, <1>1, <3>1
  <2>2. QED BY <2>1, DebtsShrink
<1>4. \A c \in Chats : Reserved(u, c) => Reserved(u, c)'
  BY <1>1, MarksStep, ReservedKept
<1>5. QED BY <1>0, <1>2, <1>3, <1>4

\* A message leaves the queue only when every chat of the team, and one chat of
\* every administrator, eligible ever since it was stored has a delivery.
THEOREM MailNotifiedMeansReserved == Spec => []NotifiedMeansReserved
<1>1. Init => ListedInv /\ DebtInv /\ CoverInv /\ NotifiedMeansReserved
  BY DEF Init, ListedInv, DebtInv, CoverInv, NotifiedMeansReserved, InHand, NoMessage
<1>2. Spec => [](TypeInv /\ ListedInv /\ DebtInv /\ CoverInv /\ NotifiedMeansReserved)
  BY <1>1, TypeStart, TypeStep, ListedStep, DebtStep, CoverStep, NotifiedStep, PTL DEF Spec
<1>3. QED BY <1>2, PTL

----------------------------------------------------------------------------
(* Attempts                                                                 *)

\* The row a task was made from is as it was read, or went with the mailbox.
Holds(t) ==
  IF Reserved(t.msg, t.chat)
  THEN /\ delivery[t.msg][t.chat].status \in {"pending", "failed"}
       /\ delivery[t.msg][t.chat].attempts = t.attempts
       /\ t.attempts < MaxAttempts
  ELSE account = "deleted"

\* There is a backlog in pass B only; its tasks are of different rows, and nobody
\* else writes them meanwhile.
BacklogInv ==
  /\ backlog # {} => pc = "drain" \/ (pc \in {"send", "mark"} /\ job.pass = "B")
  /\ \A t \in backlog : Holds(t)
  /\ \A s, t \in backlog : s.msg = t.msg /\ s.chat = t.chat => s = t
  /\ pc \in {"send", "mark"} =>
       /\ Holds(job) /\ (job.pass = "A" => job.attempts = 0)
       /\ \A t \in backlog : t.msg # job.msg \/ t.chat # job.chat

\* What a row counts.
Counted(r) ==
  /\ r.status = "none" => r.attempts = 0
  /\ r.attempts <= MaxAttempts
  /\ MaxAttempts > 1 /\ r.status = "failed" => r.attempts < MaxAttempts
AttemptsInv == BacklogInv /\ \A u \in Uids, c \in Chats : Counted(delivery[u][c])

\* A step that leaves the rows and the tasks alone.
LEMMA AttemptsFrame ==
  ASSUME AttemptsInv, UNCHANGED <<delivery, backlog, job>>,
         account = "deleted" => account' = "deleted",
         pc' \in {"send", "mark"} => pc \in {"send", "mark"},
         backlog # {} => pc' = pc \/ (pc = "send" /\ pc' = "mark")
  PROVE  AttemptsInv'
BY DEF AttemptsInv, BacklogInv, Holds, Reserved, Counted

\* A step of the iteration that neither reserves, records nor fills the backlog.
LEMMA QuietDispatch ==
  ASSUME TypeInv, AttemptsInv,
         \/ Poll \/ ListNew \/ MarkNotified \/ PushFanout \/ Send \/ EndIteration
         \/ \E u \in Uids : SkipDeleted(u) \/ SkipUntagged(u) \/ Load(u)
  PROVE  AttemptsInv'
<1>1. pc \in {"sleep", "list", "walk", "reserve", "fanout"} => backlog = {}
  BY DEF AttemptsInv, BacklogInv
<1>2. CASE Poll \/ ListNew \/ EndIteration
  BY <1>1, <1>2, AttemptsFrame DEF Poll, ListNew, EndIteration, tables
<1>3. CASE MarkNotified \/ PushFanout \/ Send
  BY <1>1, <1>3, AttemptsFrame DEF MarkNotified, PushFanout, Send, tables, iteration
<1>4. ASSUME NEW u \in Uids, SkipDeleted(u) \/ SkipUntagged(u) \/ Load(u) PROVE AttemptsInv'
  BY <1>1, <1>4, AttemptsFrame DEF SkipDeleted, SkipUntagged, Load, tables
<1>5. QED BY <1>2, <1>3, <1>4

\* The end of an iteration leaves no task.
LEMMA AbandonAttempts ==
  ASSUME TypeInv, AttemptsInv, Abandon, UNCHANGED tables
  PROVE  AttemptsInv'
BY DEF Abandon, AttemptsInv, BacklogInv, Counted, tables

\* The row a new delivery starts from.
LEMMA ReserveAttempts ==
  ASSUME TypeInv, AttemptsInv, NEW c \in Chats, Reserve(c)
  PROVE  AttemptsInv'
<1>0. /\ delivery \in [Uids -> [Chats -> Rows]] /\ current \in Uids /\ backlog = {}
      /\ UNCHANGED <<account, backlog>>
  BY DEF Reserve, TypeInv, TablesOK, CurrentOK, AttemptsInv, BacklogInv
<1>1. CASE Reserved(current, c)
  BY <1>1, AttemptsFrame DEF Reserve
<1>2. CASE ~Reserved(current, c)
  <2>1. /\ job' = [pass |-> "A", msg |-> current, chat |-> c, attempts |-> 0] /\ pc' = "send"
        /\ delivery' = [delivery EXCEPT ![current] = [delivery[current] EXCEPT ![c] =
                          [delivery[current][c] EXCEPT !.status = "pending"]]]
    BY <1>2 DEF Reserve, Task
  <2>2. delivery[current][c].attempts = 0
    BY <1>0, <1>2 DEF AttemptsInv, Counted, Reserved
  <2>3. /\ delivery'[current][c].status = "pending" /\ delivery'[current][c].attempts = 0
        /\ \A u \in Uids, d \in Chats : u # current \/ d # c => delivery'[u][d] = delivery[u][d]
    <3>1. /\ [delivery[current][c] EXCEPT !.status = "pending"].status = "pending"
          /\ [delivery[current][c] EXCEPT !.status = "pending"].attempts = 0
      BY <1>0, <2>2 DEF Rows
    <3>2. QED BY <1>0, <2>1, <3>1
  <2>4. \A u \in Uids, d \in Chats : Counted(delivery'[u][d])
    BY <2>3, MailDispatchConstants DEF AttemptsInv, Counted
  <2>5. Holds(job)' /\ job'.attempts = 0
    BY <2>1, <2>3, MailDispatchConstants DEF Holds, Reserved
  <2>6. QED BY <1>0, <2>1, <2>4, <2>5 DEF AttemptsInv, BacklogInv, Counted
<1>3. QED BY <1>1, <1>2

\* What is recorded of an attempt counts it, within the limit.
LEMMA MarkedCounted ==
  ASSUME NEW r \in Rows, NEW result \in Outcomes, NEW pass \in {"A", "B"},
         r.status \in {"pending", "failed"}, r.attempts < MaxAttempts, Counted(r),
         pass = "A" => r.attempts = 0
  PROVE  Counted(Marked(r, pass, r.attempts, result))
<1> USE MailDispatchConstants
<1>0. r.attempts \in Nat
  BY DEF Rows
<1>1. CASE result = "ok"
  <2>1. /\ [r EXCEPT !.status = "sent"].status = "sent"
        /\ [r EXCEPT !.status = "sent"].attempts = r.attempts
    BY DEF Rows
  <2>2. QED BY <1>0, <1>1, <2>1 DEF Marked, Counted
<1>2. CASE result = "error" /\ (pass = "A" \/ r.attempts + 1 < MaxAttempts)
  BY <1>0, <1>2 DEF Marked, Counted
<1>3. CASE result # "ok" /\ ~(result = "error" /\ (pass = "A" \/ r.attempts + 1 < MaxAttempts))
  BY <1>0, <1>3 DEF Marked, Counted
<1>4. QED BY <1>1, <1>2, <1>3

\* A record touches the row of the task in hand.
LEMMA MarkRow ==
  ASSUME TypeInv, Mark
  PROVE  /\ job.msg \in Uids /\ job.chat \in Chats /\ job \in Jobs /\ outcome \in Outcomes
         /\ delivery[job.msg][job.chat] \in Rows
         /\ delivery'[job.msg][job.chat] =
              IF Reserved(job.msg, job.chat)
              THEN Marked(delivery[job.msg][job.chat], job.pass, job.attempts, outcome)
              ELSE delivery[job.msg][job.chat]
         /\ \A u \in Uids, c \in Chats :
              u # job.msg \/ c # job.chat => delivery'[u][c] = delivery[u][c]
BY DEF Mark, TypeInv, TablesOK, IterationOK, Jobs, Reserved

\* The record of an attempt keeps the count.
LEMMA MarkAttempts ==
  ASSUME TypeInv, AttemptsInv, Mark
  PROVE  AttemptsInv'
<1>0. /\ pc' \notin {"send", "mark"} /\ UNCHANGED <<account, backlog>>
      /\ backlog # {} => pc' = "drain"
      /\ Holds(job) /\ (job.pass = "A" => job.attempts = 0)
      /\ \A t \in backlog : t.msg # job.msg \/ t.chat # job.chat
      /\ \A t \in backlog : t.msg \in Uids /\ t.chat \in Chats
      /\ job.pass \in {"A", "B"}
  BY DEF Mark, AttemptsInv, BacklogInv, TypeInv, IterationOK, Jobs
<1>1. Counted(delivery'[job.msg][job.chat])
  <2>1. CASE Reserved(job.msg, job.chat)
    BY <1>0, <2>1, MarkRow, MarkedCounted DEF Holds, AttemptsInv
  <2>2. CASE ~Reserved(job.msg, job.chat)
    BY <2>2, MarkRow DEF AttemptsInv
  <2>3. QED BY <2>1, <2>2
<1>2. \A u \in Uids, c \in Chats : Counted(delivery'[u][c])
  BY <1>1, MarkRow DEF AttemptsInv
<1>3. \A t \in backlog : Holds(t)'
  BY <1>0, MarkRow DEF AttemptsInv, BacklogInv, Holds, Reserved
<1>4. QED BY <1>0, <1>2, <1>3 DEF AttemptsInv, BacklogInv, Counted

\* Pass B begins with the rows as they are, and takes one at a time.
LEMMA BacklogAttempts ==
  ASSUME TypeInv, AttemptsInv, ListPending \/ \E t \in backlog : Retry(t)
  PROVE  AttemptsInv'
<1>1. CASE ListPending
  <2>1. /\ UNCHANGED <<account, delivery, job>> /\ pc' = "drain"
        /\ backlog' = {[pass |-> "B", msg |-> p[1], chat |-> p[2],
                        attempts |-> delivery[p[1]][p[2]].attempts] :
                         p \in {q \in Uids \X Chats : Retryable(delivery[q[1]][q[2]])}}
    BY <1>1 DEF ListPending, Task, tables
  <2>2. \A t \in backlog' :
          /\ t.attempts = delivery[t.msg][t.chat].attempts /\ t.pass = "B"
          /\ Retryable(delivery[t.msg][t.chat])
          /\ t = [pass |-> "B", msg |-> t.msg, chat |-> t.chat,
                  attempts |-> delivery[t.msg][t.chat].attempts]
    BY <2>1
  <2>3. \A t \in backlog' : Holds(t)'
    BY <2>1, <2>2 DEF Holds, Reserved, Retryable
  <2>4. \A s, t \in backlog' : s.msg = t.msg /\ s.chat = t.chat => s = t
    BY <2>2
  <2>5. QED BY <2>1, <2>3, <2>4 DEF AttemptsInv, BacklogInv, Counted
<1>2. ASSUME NEW t \in backlog, Retry(t) PROVE AttemptsInv'
  <2>1. /\ UNCHANGED <<account, delivery>> /\ backlog' = backlog \ {t} /\ pc = "drain"
        /\ Holds(t) /\ t.pass = "B"
        /\ \/ job' = t /\ pc' = "send"
           \/ UNCHANGED <<job, pc>>
    BY <1>2 DEF Retry, tables, AttemptsInv, BacklogInv, TypeInv, CurrentOK
  <2>2. \A s \in backlog' : s.msg # t.msg \/ s.chat # t.chat
    BY <2>1 DEF AttemptsInv, BacklogInv
  <2>3. \A s : Holds(s)' = Holds(s)
    BY <2>1 DEF Holds, Reserved
  <2>4. QED BY <2>1, <2>2, <2>3 DEF AttemptsInv, BacklogInv, Counted
<1>3. QED BY <1>1, <1>2

\* Every step keeps the count of attempts.
LEMMA AttemptsStep ==
  ASSUME TypeInv, AttemptsInv, [Next]_vars
  PROVE  AttemptsInv'
<1>1. CASE Dispatch
  BY <1>1, QuietDispatch, ReserveAttempts, MarkAttempts, BacklogAttempts, AbandonAttempts
     DEF Dispatch, ReserveFails
<1>2. CASE FailIteration \/ Restart
  BY <1>2, AbandonAttempts DEF FailIteration, Restart
<1>3. CASE DeleteMailbox
  <2>1. /\ delivery' = [u \in Uids |-> [c \in Chats |-> NoRow]] /\ account' = "deleted"
        /\ UNCHANGED <<pc, backlog, job>>
    BY <1>3 DEF DeleteMailbox, iteration
  <2>2. \A u \in Uids, c \in Chats : delivery'[u][c].status = "none" /\ delivery'[u][c].attempts = 0
    BY <2>1 DEF NoRow
  <2>3. \A t \in backlog : t.msg \in Uids /\ t.chat \in Chats
    BY DEF TypeInv, IterationOK, Jobs
  <2>4. pc \in {"send", "mark"} => job.msg \in Uids /\ job.chat \in Chats
    BY DEF TypeInv, IterationOK, Jobs
  <2>5. \A u \in Uids, c \in Chats : Counted(delivery'[u][c])
    BY <2>2, MailDispatchConstants DEF Counted
  <2>6. (\A t \in backlog : Holds(t)') /\ (pc \in {"send", "mark"} => Holds(job)')
    BY <2>1, <2>2, <2>3, <2>4 DEF Holds, Reserved
  <2>7. QED BY <2>1, <2>5, <2>6 DEF AttemptsInv, BacklogInv, Counted
<1>4. ASSUME \/ \E h \in Handlers : Ingest(h) \/ \E batch \in SUBSET Uids : Push(h, batch)
             \/ CreateMailbox \/ PeopleStep
      PROVE  UNCHANGED <<delivery, pc, backlog, job>> /\ (account = "deleted" => account' = "deleted")
  BY <1>4 DEF Ingest, SkipUnknown, StoreMessage, StoreFails, AnswerPush, Push, CreateMailbox,
              PeopleStep, tables, iteration
<1>5. QED BY <1>1, <1>2, <1>3, <1>4, AttemptsFrame, StepKinds

\* Initially nothing is tried.
LEMMA AttemptsStart == Init => AttemptsInv
BY MailDispatchConstants DEF Init, AttemptsInv, BacklogInv, Counted, NoRow

\* A delivery that is still to be retried is one pass B will select, and none is
\* tried more often than allowed.
THEOREM MailRetriesRemain == Spec => []RetriesRemain
<1>1. AttemptsInv => RetriesRemain
  BY DEF AttemptsInv, Counted, RetriesRemain
<1>2. Spec => [](TypeInv /\ AttemptsInv)
  BY AttemptsStart, AttemptsStep, TypeStart, TypeStep, PTL DEF Spec
<1>3. QED BY <1>1, <1>2, PTL

----------------------------------------------------------------------------
(* Copies                                                                   *)

\* The delivery is made and not yet recorded.
Sending(u, c) == pc = "mark" /\ outcome = "ok" /\ job.msg = u /\ job.chat = c

\* A copy stands behind every record, and unless the letter is waived a record
\* behind every copy.
Copied(u, c) ==
  /\ delivery[u][c].status = "sent" \/ Sending(u, c) => copies[u][c] > 0
  /\ account # "deleted" /\ <<u, c>> \notin doubted =>
       /\ copies[u][c] <= 1
       /\ copies[u][c] = 1 => delivery[u][c].status = "sent" \/ Sending(u, c)
CopyInv == \A u \in Uids, c \in Chats : Copied(u, c)

\* A letter that is neither sent nor recorded, nor loses its record.
LEMMA CopiedFrame ==
  ASSUME NEW u \in Uids, NEW c \in Chats, Copied(u, c),
         copies'[u][c] = copies[u][c], doubted \subseteq doubted',
         account = "deleted" => account' = "deleted",
         \/ delivery'[u][c].status = "sent" <=> delivery[u][c].status = "sent"
         \/ account' = "deleted" /\ delivery'[u][c].status = "none",
         Sending(u, c)' => Sending(u, c),
         Sending(u, c) => Sending(u, c)' \/ <<u, c>> \in doubted'
  PROVE  Copied(u, c)'
BY DEF Copied

\* The end of an iteration doubts what it has sent and not recorded.
LEMMA AbandonCopies ==
  ASSUME TypeInv, CopyInv, Abandon, UNCHANGED tables
  PROVE  CopyInv'
<1>1. /\ UNCHANGED <<account, delivery, copies>> /\ pc' = "sleep" /\ doubted \subseteq doubted'
      /\ pc = "mark" /\ outcome = "ok" => <<job.msg, job.chat>> \in doubted'
  BY DEF Abandon, tables
<1>2. ASSUME NEW u \in Uids, NEW c \in Chats PROVE Copied(u, c)'
  <2>1. ~Sending(u, c)' /\ (Sending(u, c) => <<u, c>> \in doubted')
    BY <1>1 DEF Sending
  <2>2. QED BY <1>1, <2>1, CopiedFrame DEF CopyInv
<1>3. QED BY <1>2 DEF CopyInv

\* What a notification does to the letter in hand, and to no other.
LEMMA SendKinds ==
  ASSUME TypeInv, Send
  PROVE  /\ job.msg \in Uids /\ job.chat \in Chats /\ pc = "send" /\ pc' = "mark"
         /\ UNCHANGED <<account, delivery, job>> /\ doubted \subseteq doubted'
         /\ \A u \in Uids, c \in Chats :
              u # job.msg \/ c # job.chat => copies'[u][c] = copies[u][c]
         /\ copies[job.msg][job.chat] \in 0 .. 2
         /\ \/ /\ outcome' # "ok" /\ copies' = copies
            \/ /\ outcome' = "ok" \/ <<job.msg, job.chat>> \in doubted'
               /\ copies' = [copies EXCEPT ![job.msg] =
                    [copies[job.msg] EXCEPT ![job.chat] = Plus(copies[job.msg][job.chat])]]
               /\ copies'[job.msg][job.chat] = Plus(copies[job.msg][job.chat])
               /\ outcome' = "ok" => doubted' = doubted
<1>1. /\ job.msg \in Uids /\ job.chat \in Chats /\ copies \in [Uids -> [Chats -> 0 .. 2]]
      /\ pc = "send" /\ pc' = "mark" /\ UNCHANGED <<account, delivery, job>>
  BY DEF Send, TypeInv, IterationOK, Jobs, TracesOK, tables
<1>2. PICK arrived \in BOOLEAN :
        /\ \/ outcome' = "ok" /\ arrived
           \/ outcome' = "forbidden" /\ ~arrived
           \/ outcome' = "error"
        /\ copies' = IF arrived THEN [copies EXCEPT ![job.msg][job.chat] = Plus(@)] ELSE copies
        /\ doubted' = IF arrived /\ outcome' = "error"
                      THEN doubted \cup {<<job.msg, job.chat>>} ELSE doubted
  BY DEF Send
<1>3. CASE arrived
  <2>1. copies' = [copies EXCEPT ![job.msg] =
          [copies[job.msg] EXCEPT ![job.chat] = Plus(copies[job.msg][job.chat])]]
    BY <1>2, <1>3
  <2>2. QED BY <1>1, <1>2, <1>3, <2>1
<1>4. CASE ~arrived
  BY <1>1, <1>2, <1>4
<1>5. QED BY <1>3, <1>4

\* A notification is the first of its letter, unless the letter is waived.
LEMMA SendCopies ==
  ASSUME TypeInv, AttemptsInv, CopyInv, Send
  PROVE  CopyInv'
<1>0. pc = "send" /\ Holds(job)
  BY SendKinds DEF AttemptsInv, BacklogInv
<1>1. ASSUME NEW u \in Uids, NEW c \in Chats, u # job.msg \/ c # job.chat PROVE Copied(u, c)'
  <2>1. ~Sending(u, c) /\ ~Sending(u, c)' /\ copies'[u][c] = copies[u][c]
    BY <1>1, SendKinds DEF Sending
  <2>2. QED BY <2>1, SendKinds, CopiedFrame DEF CopyInv
<1>2. Copied(job.msg, job.chat)'
  <2>1. /\ Copied(job.msg, job.chat) /\ ~Sending(job.msg, job.chat)
        /\ Sending(job.msg, job.chat)' <=> outcome' = "ok"
    BY SendKinds DEF CopyInv, Sending
  <2>2. delivery[job.msg][job.chat].status # "sent"
    BY <1>0 DEF Holds, Reserved
  <2>3. account # "deleted" /\ <<job.msg, job.chat>> \notin doubted
          => copies[job.msg][job.chat] = 0
    BY <2>1, <2>2, SendKinds DEF Copied
  <2>4. Plus(copies[job.msg][job.chat]) > 0 /\ Plus(0) = 1
    BY SendKinds DEF Plus
  <2>5. delivery'[job.msg][job.chat].status # "sent" /\ UNCHANGED <<job, account>>
        /\ doubted \subseteq doubted'
    BY <2>2, SendKinds
  <2>6. CASE outcome' # "ok" /\ copies' = copies
    BY <2>1, <2>3, <2>5, <2>6 DEF Copied
  <2>7. CASE /\ outcome' = "ok" \/ <<job.msg, job.chat>> \in doubted'
             /\ copies'[job.msg][job.chat] = Plus(copies[job.msg][job.chat])
    BY <2>1, <2>3, <2>4, <2>5, <2>7 DEF Copied
  <2>8. QED BY <2>6, <2>7, SendKinds
<1>3. job' = job
  BY SendKinds
<1>4. QED BY <1>1, <1>2, <1>3 DEF CopyInv

\* The record says sent exactly when the notification was accepted.
LEMMA MarkedStatus ==
  ASSUME NEW r \in Rows, NEW n \in Nat, NEW pass \in {"A", "B"}, NEW result \in Outcomes
  PROVE  /\ Marked(r, pass, n, result).status \in {"sent", "failed", "dead"}
         /\ Marked(r, pass, n, result).status = "sent" <=> result = "ok"
<1>1. [r EXCEPT !.status = "sent"].status = "sent"
  BY DEF Rows
<1>2. QED BY <1>1 DEF Marked, Outcomes

\* A record is of the letter in hand, which is then no longer being sent.
LEMMA MarkStatus ==
  ASSUME TypeInv, AttemptsInv, Mark
  PROVE  /\ UNCHANGED <<account, copies, doubted>>
         /\ \A u \in Uids, c \in Chats : ~Sending(u, c)'
         /\ Sending(job.msg, job.chat) <=> outcome = "ok"
         /\ \/ /\ delivery[job.msg][job.chat].status \in {"pending", "failed"}
               /\ delivery'[job.msg][job.chat].status \in {"sent", "failed", "dead"}
               /\ delivery'[job.msg][job.chat].status = "sent" <=> outcome = "ok"
            \/ /\ account = "deleted"
               /\ delivery[job.msg][job.chat].status = "none"
               /\ delivery'[job.msg][job.chat].status = "none"
<1>1. /\ pc = "mark" /\ Holds(job) /\ UNCHANGED <<account, copies, doubted>>
      /\ pc' \in {"reserve", "drain"} /\ job.attempts \in Nat /\ job.pass \in {"A", "B"}
  BY DEF Mark, AttemptsInv, BacklogInv, traces, TypeInv, IterationOK, Jobs
<1>2. \A u \in Uids, c \in Chats : ~Sending(u, c)'
  BY <1>1 DEF Sending
<1>3. CASE Reserved(job.msg, job.chat)
  BY <1>1, <1>2, <1>3, MarkRow, MarkedStatus DEF Holds, Sending
<1>4. CASE ~Reserved(job.msg, job.chat)
  BY <1>1, <1>2, <1>4, MarkRow DEF Holds, Sending, Reserved
<1>5. QED BY <1>3, <1>4

\* A record keeps letters and copies together.
LEMMA MarkCopies ==
  ASSUME TypeInv, AttemptsInv, CopyInv, Mark
  PROVE  CopyInv'
<1>1. ASSUME NEW u \in Uids, NEW c \in Chats, u # job.msg \/ c # job.chat PROVE Copied(u, c)'
  <2>1. ~Sending(u, c)
    BY <1>1 DEF Sending
  <2>2. QED BY <1>1, <2>1, MarkStatus, MarkRow, CopiedFrame DEF CopyInv
<1>2. Copied(job.msg, job.chat) /\ job.msg \in Uids /\ job.chat \in Chats
  BY MarkRow DEF CopyInv
<1>3. PICK u \in Uids, c \in Chats : u = job.msg /\ c = job.chat
  BY <1>2
<1>4. Copied(u, c)'
  BY <1>2, <1>3, MarkStatus DEF Copied
<1>5. ASSUME NEW v \in Uids, NEW d \in Chats PROVE Copied(v, d)'
  BY <1>1, <1>3, <1>4, <1>5
<1>6. QED BY <1>5 DEF CopyInv

\* A reservation, and a step that neither sends nor records.
LEMMA QuietCopies ==
  ASSUME TypeInv, CopyInv, UNCHANGED <<account, copies, doubted>>,
         UNCHANGED delivery \/ (\E c \in Chats : Reserve(c)),
         pc' # "mark", pc # "mark"
  PROVE  CopyInv'
<1>1. \A u \in Uids, c \in Chats : ~Sending(u, c) /\ ~Sending(u, c)'
  BY DEF Sending
<1>2. ASSUME NEW u \in Uids, NEW c \in Chats
      PROVE  delivery'[u][c].status = "sent" <=> delivery[u][c].status = "sent"
  <2>1. CASE UNCHANGED delivery
    BY <2>1
  <2>2. ASSUME NEW d \in Chats, Reserve(d)
        PROVE  delivery'[u][c].status = "sent" <=> delivery[u][c].status = "sent"
    <3>1. delivery \in [Uids -> [Chats -> Rows]] /\ current \in Uids
      BY <2>2 DEF Reserve, TypeInv, TablesOK, CurrentOK
    <3>2. CASE Reserved(current, d)
      BY <2>2, <3>2 DEF Reserve
    <3>3. CASE ~Reserved(current, d)
      <4>1. delivery' = [delivery EXCEPT ![current] = [delivery[current] EXCEPT ![d] =
                           [delivery[current][d] EXCEPT !.status = "pending"]]]
        BY <2>2, <3>3 DEF Reserve
      <4>2. [delivery[current][d] EXCEPT !.status = "pending"].status = "pending"
        BY <3>1 DEF Rows
      <4>3. delivery[current][d].status = "none"
        BY <3>3 DEF Reserved
      <4>4. QED BY <3>1, <4>1, <4>2, <4>3
    <3>4. QED BY <3>2, <3>3
  <2>3. QED BY <2>1, <2>2
<1>3. ASSUME NEW u \in Uids, NEW c \in Chats PROVE Copied(u, c)'
  BY <1>1, <1>2, CopiedFrame DEF CopyInv
<1>4. QED BY <1>3 DEF CopyInv

\* What a step that neither sends nor records leaves alone.
LEMMA OtherDispatch ==
  ASSUME TypeInv, Dispatch, ~Send, ~Mark, ~ReserveFails
  PROVE  /\ UNCHANGED <<account, copies, doubted>> /\ pc # "mark" /\ pc' # "mark"
         /\ UNCHANGED delivery \/ \E c \in Chats : Reserve(c)
<1>1. CASE Poll \/ ListNew \/ MarkNotified \/ PushFanout \/ ListPending \/ EndIteration
  BY <1>1 DEF Poll, ListNew, MarkNotified, PushFanout, ListPending, EndIteration, tables, traces
<1>2. ASSUME NEW u \in Uids, SkipDeleted(u) \/ SkipUntagged(u) \/ Load(u)
      PROVE  UNCHANGED <<account, copies, doubted, delivery>> /\ pc # "mark" /\ pc' # "mark"
  BY <1>2 DEF SkipDeleted, SkipUntagged, Load, tables, traces
<1>3. ASSUME NEW c \in Chats, Reserve(c)
      PROVE  UNCHANGED <<account, copies, doubted>> /\ pc # "mark" /\ pc' # "mark"
  BY <1>3 DEF Reserve, traces
<1>4. ASSUME NEW t \in backlog, Retry(t)
      PROVE  UNCHANGED <<account, copies, doubted, delivery>> /\ pc # "mark" /\ pc' # "mark"
  BY <1>4 DEF Retry, tables, traces
<1>5. QED BY <1>1, <1>2, <1>3, <1>4 DEF Dispatch

\* What the steps outside the iteration do to the rows.
LEMMA OutsideRows ==
  ASSUME \/ \E h \in Handlers : Ingest(h) \/ \E batch \in SUBSET Uids : Push(h, batch)
         \/ CreateMailbox \/ PeopleStep
  PROVE  /\ UNCHANGED <<delivery, copies, doubted, pc, job, outcome>>
         /\ account' = "deleted" <=> account = "deleted"
BY DEF Ingest, SkipUnknown, StoreMessage, StoreFails, AnswerPush, Push, CreateMailbox,
       PeopleStep, tables, iteration, traces

\* Every step keeps letters and copies together.
LEMMA CopyStep ==
  ASSUME TypeInv, AttemptsInv, CopyInv, [Next]_vars
  PROVE  CopyInv'
<1>1. CASE Dispatch
  BY <1>1, SendCopies, MarkCopies, OtherDispatch, QuietCopies, AbandonCopies DEF ReserveFails
<1>2. CASE FailIteration \/ Restart
  BY <1>2, AbandonCopies DEF FailIteration, Restart
<1>3. ASSUME UNCHANGED <<copies, doubted, pc, job, outcome>>,
             account = "deleted" => account' = "deleted",
             \/ UNCHANGED delivery
             \/ account' = "deleted" /\ delivery' = [u \in Uids |-> [c \in Chats |-> NoRow]]
      PROVE  CopyInv'
  <2>1. ASSUME NEW u \in Uids, NEW c \in Chats PROVE Copied(u, c)'
    <3>1. Sending(u, c)' <=> Sending(u, c)
      BY <1>3 DEF Sending
    <3>2. \/ delivery'[u][c].status = "sent" <=> delivery[u][c].status = "sent"
          \/ account' = "deleted" /\ delivery'[u][c].status = "none"
      BY <1>3 DEF NoRow
    <3>3. Copied(u, c)
      BY DEF CopyInv
    <3>4. QED BY <1>3, <3>1, <3>2, <3>3, CopiedFrame
  <2>2. QED BY <2>1 DEF CopyInv
<1>4. CASE DeleteMailbox
  BY <1>3, <1>4 DEF DeleteMailbox, iteration, traces
<1>5. ASSUME \/ \E h \in Handlers : Ingest(h) \/ \E batch \in SUBSET Uids : Push(h, batch)
             \/ CreateMailbox \/ PeopleStep
      PROVE  CopyInv'
  BY <1>3, <1>5, OutsideRows
<1>6. CASE UNCHANGED vars
  BY <1>3, <1>6 DEF vars, tables, iteration, traces
<1>7. QED BY <1>1, <1>2, <1>4, <1>5, <1>6, StepKinds

\* Initially nothing is sent.
LEMMA CopyStart == Init => CopyInv
BY DEF Init, CopyInv, Copied, Sending, NoRow

----------------------------------------------------------------------------
(* The ledger                                                               *)

Waived == IF account = "deleted" THEN Uids \X Chats ELSE doubted
RowsInv == TypeInv /\ AttemptsInv /\ CopyInv

\* The strengthened invariant holds in every state.
LEMMA MailRowsInv == Spec => []RowsInv
<1>1. Init => RowsInv
  BY TypeStart, AttemptsStart, CopyStart DEF RowsInv
<1>2. RowsInv /\ [Next]_vars => RowsInv'
  BY TypeStep, AttemptsStep, CopyStep DEF RowsInv
<1>3. QED BY <1>1, <1>2, PTL DEF Spec

\* A step that changes only what is waived afterwards waives it.
LEMMA WaivingStep ==
  ASSUME RowsInv, RowsInv', doubted \subseteq doubted',
         account = "deleted" => account' = "deleted",
         \A u \in Uids, c \in Chats :
           /\ copies[u][c] <= copies'[u][c]
           /\ <<u, c>> \notin Waived' =>
                delivery'[u][c].status = delivery[u][c].status /\ copies'[u][c] = copies[u][c]
  PROVE  Ledger!Waives
<1> DEFINE stage == [p \in Uids \X Chats |-> delivery[p[1]][p[2]].status]
           arrived == [p \in Uids \X Chats |-> copies[p[1]][p[2]]]
<1>1. /\ delivery' \in [Uids -> [Chats -> Rows]] /\ copies' \in [Uids -> [Chats -> 0 .. 2]]
      /\ doubted' \subseteq Uids \X Chats /\ doubted \subseteq Uids \X Chats
  BY DEF RowsInv, TypeInv, TablesOK, TracesOK
<1>2. Waived \subseteq Waived' /\ Waived' \subseteq Uids \X Chats
  BY <1>1 DEF Waived
<1>3. \A u \in Uids, c \in Chats :
        delivery'[u][c].status \in Statuses /\ copies'[u][c] \in Nat
  BY <1>1 DEF Rows
<1>4. stage' \in [Uids \X Chats -> Statuses] /\ arrived' \in [Uids \X Chats -> Nat]
  BY <1>3
<1>5. \A u \in Uids, c \in Chats : delivery'[u][c].status = "sent" => copies'[u][c] > 0
  BY DEF RowsInv, CopyInv, Copied
<1>6. \A p \in Uids \X Chats :
        /\ arrived[p] <= arrived'[p]
        /\ stage'[p] = "sent" => arrived'[p] > 0
        /\ p \notin Waived' => stage'[p] = stage[p] /\ arrived'[p] = arrived[p]
  BY <1>5
<1>7. QED BY <1>2, <1>4, <1>6 DEF Ledger!Waives, Ledger!Stages, Statuses, Waived

\* Every step is a step of the ledger, or waives what it breaks.
LEMMA LedgerStep ==
  ASSUME RowsInv, RowsInv', [Next]_vars
  PROVE  [Ledger!LedgerNext]_Ledger!ledger
<1> DEFINE stage == [p \in Uids \X Chats |-> delivery[p[1]][p[2]].status]
           arrived == [p \in Uids \X Chats |-> copies[p[1]][p[2]]]
<1>0. /\ TypeInv /\ AttemptsInv /\ CopyInv
      /\ delivery \in [Uids -> [Chats -> Rows]] /\ copies \in [Uids -> [Chats -> 0 .. 2]]
      /\ delivery' \in [Uids -> [Chats -> Rows]] /\ copies' \in [Uids -> [Chats -> 0 .. 2]]
  BY DEF RowsInv, TypeInv, TablesOK, TracesOK
<1>1. ASSUME UNCHANGED <<delivery, copies, doubted>>, account' = "deleted" <=> account = "deleted"
      PROVE  UNCHANGED Ledger!ledger
  BY <1>1 DEF Ledger!ledger
<1>2. ASSUME NEW c \in Chats, Reserve(c) PROVE [Ledger!LedgerNext]_Ledger!ledger
  <2>1. current \in Uids /\ UNCHANGED <<copies, doubted, account>>
    BY <1>0, <1>2 DEF Reserve, traces, TypeInv, CurrentOK
  <2>2. CASE Reserved(current, c)
    BY <1>1, <1>2, <2>1, <2>2 DEF Reserve
  <2>3. CASE ~Reserved(current, c)
    <3>1. delivery' = [delivery EXCEPT ![current] = [delivery[current] EXCEPT ![c] =
                         [delivery[current][c] EXCEPT !.status = "pending"]]]
      BY <1>2, <2>3 DEF Reserve
    <3>2. [delivery[current][c] EXCEPT !.status = "pending"].status = "pending"
      BY <1>0, <2>1 DEF Rows
    <3>3. PICK q \in Uids \X Chats : q = <<current, c>>
      BY <2>1
    <3>4. stage[q] = "none"
      BY <2>3, <3>3 DEF Reserved
    <3>5. stage' = [stage EXCEPT ![q] = "pending"]
      <4>1. \A p \in Uids \X Chats : stage'[p] = IF p = q THEN "pending" ELSE stage[p]
        BY <1>0, <2>1, <3>1, <3>2, <3>3
      <4>2. QED BY <4>1
    <3>6. Ledger!Reserved(q)
      BY <2>1, <3>4, <3>5 DEF Ledger!Reserved
    <3>7. QED BY <3>3, <3>6 DEF Ledger!LedgerNext
  <2>4. QED BY <2>2, <2>3
<1>3. CASE Send
  <2>1. PICK u \in Uids, c \in Chats : u = job.msg /\ c = job.chat
    BY <1>0, <1>3, SendKinds
  <2>2. /\ UNCHANGED <<account, delivery>> /\ doubted \subseteq doubted' /\ ~Sending(u, c)
        /\ \A v \in Uids, d \in Chats : v # u \/ d # c => copies'[v][d] = copies[v][d]
    BY <1>0, <1>3, <2>1, SendKinds DEF Sending
  <2>3. copies[u][c] <= copies'[u][c]
    <3>1. copies'[u][c] = copies[u][c] \/ copies'[u][c] = Plus(copies[u][c])
      BY <1>0, <1>3, <2>1, SendKinds
    <3>2. copies[u][c] \in 0 .. 2
      BY <1>0
    <3>3. QED BY <3>1, <3>2 DEF Plus
  <2>4. \A v \in Uids, d \in Chats : copies[v][d] <= copies'[v][d]
    <3>1. \A v \in Uids, d \in Chats : copies[v][d] \in 0 .. 2
      BY <1>0
    <3>2. QED BY <2>2, <2>3, <3>1
  <2>5. CASE <<u, c>> \in Waived' \/ copies' = copies
    BY <2>2, <2>4, <2>5, WaivingStep DEF Ledger!LedgerNext
  <2>6. CASE <<u, c>> \notin Waived' /\ copies' # copies
    <3>1. account # "deleted" /\ <<u, c>> \notin doubted
      BY <2>1, <2>2, <2>6 DEF Waived
    <3>2. /\ doubted' = doubted
          /\ copies' = [copies EXCEPT ![u] = [copies[u] EXCEPT ![c] = Plus(copies[u][c])]]
      BY <1>0, <1>3, <2>1, <2>2, <2>6, <3>1, SendKinds DEF Waived
    <3>3. delivery[u][c].status \in {"pending", "failed"}
      BY <1>0, <1>3, <2>1, <3>1, SendKinds DEF AttemptsInv, BacklogInv, Holds
    <3>4. copies[u][c] = 0
      BY <1>0, <2>2, <3>1, <3>3 DEF CopyInv, Copied
    <3>5. PICK q \in Uids \X Chats : q = <<u, c>>
      OBVIOUS
    <3>6. arrived' = [arrived EXCEPT ![q] = 1]
      <4>1. \A p \in Uids \X Chats : arrived'[p] = IF p = q THEN 1 ELSE arrived[p]
        BY <1>0, <3>2, <3>4, <3>5 DEF Plus
      <4>2. QED BY <4>1
    <3>7. stage[q] \in {"pending", "failed"} /\ arrived[q] = 0 /\ UNCHANGED stage
      BY <2>2, <3>3, <3>4, <3>5
    <3>8. Ledger!Arrives(q)
      BY <2>2, <3>2, <3>6, <3>7 DEF Ledger!Arrives, Ledger!Underway
    <3>9. QED BY <3>8 DEF Ledger!LedgerNext
  <2>7. QED BY <2>5, <2>6
<1>4. CASE Mark
  <2>1. PICK u \in Uids, c \in Chats : u = job.msg /\ c = job.chat
    BY <1>0, <1>4, MarkRow
  <2>2. /\ UNCHANGED <<account, copies, doubted>>
        /\ \A v \in Uids, d \in Chats : v # u \/ d # c => delivery'[v][d] = delivery[v][d]
        /\ \A v \in Uids, d \in Chats : copies[v][d] <= copies'[v][d]
    BY <1>0, <1>4, <2>1, MarkStatus, MarkRow
  <2>3. CASE <<u, c>> \in Waived
    BY <2>2, <2>3, WaivingStep DEF Ledger!LedgerNext, Waived
  <2>4. CASE <<u, c>> \notin Waived
    <3>1. account # "deleted" /\ <<u, c>> \notin doubted
      BY <2>4 DEF Waived
    <3>2. PICK verdict \in {"sent", "failed", "dead"} :
            /\ verdict = delivery'[u][c].status
            /\ verdict = "sent" <=> Sending(u, c)
            /\ delivery[u][c].status \in {"pending", "failed"}
      BY <1>0, <1>4, <2>1, <3>1, MarkStatus
    <3>3. IF verdict = "sent" THEN copies[u][c] = 1 ELSE copies[u][c] = 0
      BY <1>0, <3>1, <3>2 DEF CopyInv, Copied
    <3>4. PICK q \in Uids \X Chats : q = <<u, c>>
      OBVIOUS
    <3>5. stage' = [stage EXCEPT ![q] = verdict]
      <4>1. \A p \in Uids \X Chats : stage'[p] = IF p = q THEN verdict ELSE stage[p]
        BY <1>0, <2>2, <3>2, <3>4
      <4>2. QED BY <4>1
    <3>6. /\ stage[q] \in {"pending", "failed"} /\ UNCHANGED arrived
          /\ IF verdict = "sent" THEN arrived[q] = 1 ELSE arrived[q] = 0
      BY <2>2, <3>2, <3>3, <3>4
    <3>7. Ledger!Recorded(q, verdict)
      BY <2>2, <3>2, <3>5, <3>6 DEF Ledger!Recorded, Ledger!Underway
    <3>8. QED BY <3>2, <3>7 DEF Ledger!LedgerNext
  <2>5. QED BY <2>3, <2>4
<1>5. CASE Abandon /\ UNCHANGED tables
  <2>1. UNCHANGED <<account, delivery, copies>> /\ doubted \subseteq doubted'
    BY <1>5 DEF Abandon, tables
  <2>2. \A v \in Uids, d \in Chats : copies[v][d] <= copies'[v][d]
    BY <1>0, <2>1
  <2>3. QED BY <2>1, <2>2, WaivingStep DEF Ledger!LedgerNext
<1>6. CASE DeleteMailbox
  <2>1. account' = "deleted" /\ UNCHANGED <<copies, doubted>>
    BY <1>6 DEF DeleteMailbox, traces
  <2>2. \A v \in Uids, d \in Chats : copies[v][d] <= copies'[v][d] /\ <<v, d>> \in Waived'
    BY <1>0, <2>1 DEF Waived
  <2>3. QED BY <2>1, <2>2, WaivingStep DEF Ledger!LedgerNext
<1>7. CASE Dispatch
  BY <1>0, <1>1, <1>2, <1>3, <1>4, <1>5, <1>7, OtherDispatch DEF ReserveFails
<1>8. CASE UNCHANGED vars
  BY <1>1, <1>8 DEF vars, tables, traces
<1>9. CASE FailIteration \/ Restart
  BY <1>5, <1>9 DEF FailIteration, Restart
<1>10. ASSUME \/ \E h \in Handlers : Ingest(h) \/ \E batch \in SUBSET Uids : Push(h, batch)
              \/ CreateMailbox \/ PeopleStep
       PROVE  UNCHANGED Ledger!ledger
  BY <1>1, <1>10, OutsideRows
<1>11. QED BY <1>0, <1>6, <1>7, <1>8, <1>9, <1>10, StepKinds

\* The initial states are those of an empty ledger.
LEMMA LedgerStart == Init => Ledger!LedgerInit
BY DEF Init, Ledger!LedgerInit, NoRow

\* The rows of mail deliveries are a delivery ledger: no crash, failure or change of
\* rights takes a letter that is not waived through a step the ledger does not have.
THEOREM MailImplementsLedger == Spec => ImplementsLedger
<1>1. RowsInv /\ RowsInv' /\ [Next]_vars => [Ledger!LedgerNext]_Ledger!ledger
  BY LedgerStep
<1>2. QED
  BY <1>1, LedgerStart, MailRowsInv, PTL DEF Spec, ImplementsLedger, Ledger!LedgerSpec
=============================================================================
