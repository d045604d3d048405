---------------------------- MODULE SmsDelivery ----------------------------
(***************************************************************************)
(* Inbound SMS: Twilio webhook handlers that store a message and fan it    *)
(* out to the Telegram chats of a team, the monitor that resends what was  *)
(* not delivered, and the links, accesses and users they read.             *)
(*                                                                         *)
(* One step is one database transaction or one call to the Bot API; every  *)
(* handler and the monitor is a coroutine that may be preempted between    *)
(* two steps and is lost, wherever it is, when the process restarts.       *)
(*                                                                         *)
(* backend/app/services/sms_ingest_service.py,                             *)
(* backend/app/services/sms_delivery_monitor_service.py and the            *)
(* repositories sms_delivery, sms_inbound and sms_telegram_link.           *)
(***************************************************************************)
EXTENDS Naturals, FiniteSets

CONSTANTS
  Sids,         \* Twilio message sids
  NoSid,        \* a webhook without MessageSid: never deduplicated
  SmsIds,       \* primary keys of sms_inbound: bounds the stored messages
  Free,         \* an unused primary key of sms_inbound
  Chats,        \* telegram_user_id: one chat with the bot each
  Users,        \* CRM users
  NoUser,       \* the owner of no row
  Handlers,     \* concurrent webhook requests
  Monitor,      \* the retry monitor
  MaxAttempts,  \* settings.sms_delivery_max_attempts
  Batch,        \* LIMIT of the retry query
  MaxCrashes,   \* bound on the restarts of the process
  MaxChanges    \* bound on the changes of links, accesses, users and blocks

ASSUME SmsConstants ==
  /\ SmsIds \subseteq Nat /\ SmsIds # {} /\ Chats # {}
  /\ NoSid \notin Sids
  /\ Free \notin Sids \cup {NoSid}
  /\ NoUser \notin Users
  /\ Monitor \notin Handlers
  /\ MaxAttempts \in Nat \ {0}
  /\ Batch \in Nat \ {0}
  /\ MaxCrashes \in Nat
  /\ MaxChanges \in Nat

VARIABLES
  inbound,     \* sms_inbound: primary key -> sid of the stored message
  delivery,    \* sms_deliveries, by its UNIQUE (inbound_sms_id, telegram_user_id)
  nextId,      \* Identity() of sms_deliveries
  link,        \* sms_telegram_links, by telegram_user_id
  users,       \* rows of users
  access,      \* users with SMS access to the number's team
  blocked,     \* chats in which the operator has blocked the bot
  configured,  \* SMS_TELEGRAM_BOT_TOKEN is set
  pc, row, out,      \* control, delivery in hand and outcome of each actor
  sid, sms, todo,    \* locals of handle_incoming_sms
  queue,             \* the candidates the monitor still has to visit
  crashes, changes,  \* counters of the two bounds
  \* history, read by the properties only
  acked,       \* messages some webhook answered 200 for
  reserved,    \* <<message, chat>> pairs that ever had a delivery row
  owed,        \* per message, the chats eligible ever since it was stored
  copies,      \* copies of a message a chat received
  excused      \* pairs whose duplicate the design accepts (TD-031, crashes)

database == <<inbound, delivery, nextId, link, users, access>>
environment == <<blocked, configured, crashes, changes>>
locals == <<pc, row, out, sid, sms, todo, queue>>
history == <<acked, reserved, owed, copies, excused>>
vars == <<database, environment, locals, history>>

Actors == Handlers \cup {Monitor}
Pairs == SmsIds \X Chats
Statuses == {"none", "pending", "sent", "failed", "dead"}
Outcomes == {"none", "sent", "failed", "forbidden", "unlinked"}
Links == [user : Users \cup {NoUser}, live : BOOLEAN]
Recipients == [user : Users, chat : Chats]
Rows == [id : Nat, user : Users \cup {NoUser}, status : Statuses, attempts : Nat]
Handles == [pair : Pairs, id : Nat]

NoRow == [id |-> 0, user |-> NoUser, status |-> "none", attempts |-> 0]
NoLink == [user |-> NoUser, live |-> FALSE]
NoMessage == CHOOSE m \in SmsIds : TRUE
NoHandle == [pair |-> CHOOSE p \in Pairs : TRUE, id |-> 0]

Exists(p) == delivery[p].id # 0
MessagesWith(d) == {m \in SmsIds : inbound[m] = d}

\* Fault: the limit on attempts is off by one.
RetryableOneMore(p) ==
  /\ delivery[p].status \in {"pending", "failed"}
  /\ delivery[p].attempts <= MaxAttempts

\* The rows the retry query selects, and the first Batch of them by id.
Retryable(p) ==
  /\ delivery[p].status \in {"pending", "failed"}
  /\ delivery[p].attempts < MaxAttempts
Candidates == {[pair |-> p, id |-> delivery[p].id] : p \in {q \in Pairs : Retryable(q)}}
Pending ==
  {r \in Candidates : Cardinality({q \in Candidates : q.id < r.id}) < Batch}

\* Recipients of a message under given links and accesses.
RecipientsUnder(l, a) ==
  {r \in Recipients : l[r.chat].live /\ l[r.chat].user = r.user /\ r.user \in a}
EligibleUnder(l, a) == {c \in Chats : l[c].live /\ l[c].user \in a}
StillOwed(l, a) == [m \in SmsIds |-> owed[m] \cap EligibleUnder(l, a)]

\* An actor holds a delivery from the moment it decides to send until it has
\* stored the outcome.
Holding(a) == pc[a] \in {"send", "mark"}
HeldByHandler(p) == \E h \in Handlers : Holding(h) /\ row[h].pair = p

Init ==
  /\ inbound = [m \in SmsIds |-> Free]
  /\ delivery = [p \in Pairs |-> NoRow]
  /\ nextId = 1
  /\ link \in [Chats -> Links]
  /\ \A c \in Chats : link[c] = NoLink \/ (link[c].live /\ link[c].user \in Users)
  /\ users = Users
  /\ access \in SUBSET Users
  /\ blocked = {}
  /\ configured \in BOOLEAN
  /\ pc = [a \in Actors |-> "idle"]
  /\ row = [a \in Actors |-> NoHandle]
  /\ out = [a \in Actors |-> "none"]
  /\ sid = [h \in Handlers |-> NoSid]
  /\ sms = [h \in Handlers |-> NoMessage]
  /\ todo = [h \in Handlers |-> {}]
  /\ queue = {}
  /\ crashes = 0
  /\ changes = 0
  /\ acked = {}
  /\ reserved = {}
  /\ owed = [m \in SmsIds |-> {}]
  /\ copies = [p \in Pairs |-> 0]
  /\ excused = {}

----------------------------------------------------------------------------
(* handle_incoming_sms                                                      *)

\* Bound: a message without sid always takes a free key, so such a request is
\* admitted only if enough keys are left for the requests being stored and
\* for every sid not stored yet.
RoomToStore ==
  Cardinality({h \in Handlers : pc[h] \in {"lookup", "insert"} /\ sid[h] = NoSid})
    + Cardinality({d \in Sids : MessagesWith(d) = {}})
      < Cardinality(MessagesWith(Free))

\* Twilio calls the webhook: the first time, again, or twice at once.
Webhook(h, d) ==
  /\ pc[h] = "idle"
  /\ d = NoSid => RoomToStore
  /\ pc' = [pc EXCEPT ![h] = "lookup"]
  /\ sid' = [sid EXCEPT ![h] = d]
  /\ UNCHANGED <<database, environment, row, out, sms, todo, queue, history>>

\* Fault: a known sid is answered at once, without fan-out.
FindBySidReturnsEarly(h) ==
  /\ pc[h] = "lookup"
  /\ \/ /\ sid[h] = NoSid \/ MessagesWith(sid[h]) = {}
        /\ pc' = [pc EXCEPT ![h] = "insert"]
        /\ UNCHANGED acked
     \/ /\ sid[h] # NoSid /\ MessagesWith(sid[h]) # {}
        /\ pc' = [pc EXCEPT ![h] = "idle"]
        /\ acked' = acked \cup MessagesWith(sid[h])
  /\ UNCHANGED <<database, environment, row, out, sid, sms, todo, queue,
                 reserved, owed, copies, excused>>

\* find_by_sid: a known sid is not a reason to return, it goes on to fan-out.
FindBySid(h) ==
  /\ pc[h] = "lookup"
  /\ \/ /\ sid[h] = NoSid \/ MessagesWith(sid[h]) = {}
        /\ pc' = [pc EXCEPT ![h] = "insert"]
        /\ sms' = sms
     \/ /\ sid[h] # NoSid
        /\ \E m \in MessagesWith(sid[h]) : sms' = [sms EXCEPT ![h] = m]
        /\ pc' = [pc EXCEPT ![h] = "resolve"]
  /\ UNCHANGED <<database, environment, row, out, sid, todo, queue, history>>

\* create: the partial UNIQUE index on the sid fails the second of two
\* concurrent inserts, which then reads the row of the first.
StoreSms(h) ==
  /\ pc[h] = "insert"
  /\ pc' = [pc EXCEPT ![h] = "resolve"]
  /\ \/ /\ sid[h] = NoSid \/ MessagesWith(sid[h]) = {}
        /\ \E m \in MessagesWith(Free) :
             /\ \A n \in MessagesWith(Free) : m <= n
             /\ inbound' = [inbound EXCEPT ![m] = sid[h]]
             /\ sms' = [sms EXCEPT ![h] = m]
             /\ owed' = [owed EXCEPT ![m] = EligibleUnder(link, access)]
     \/ /\ sid[h] # NoSid
        /\ \E m \in MessagesWith(sid[h]) : sms' = [sms EXCEPT ![h] = m]
        /\ UNCHANGED <<inbound, owed>>
  /\ UNCHANGED <<delivery, nextId, link, users, access, environment, row, out,
                 sid, todo, queue, acked, reserved, copies, excused>>

\* recipients_for_team: the fan-out list is read once.
Resolve(h) ==
  /\ pc[h] = "resolve"
  /\ todo' = [todo EXCEPT ![h] = RecipientsUnder(link, access)]
  /\ pc' = [pc EXCEPT ![h] = "fanout"]
  /\ UNCHANGED <<database, environment, row, out, sid, sms, queue, history>>

\* The request is over and its coroutine forgotten.
Return(h) ==
  /\ pc' = [pc EXCEPT ![h] = "idle"]
  /\ sid' = [sid EXCEPT ![h] = NoSid]
  /\ sms' = [sms EXCEPT ![h] = NoMessage]

\* Fault: the conflicting row is returned and delivered again.
ReserveAnyway(h, r) ==
  LET p == <<sms[h], r.chat>> IN
  /\ pc[h] = "fanout"
  /\ r \in todo[h]
  /\ IF r.user \in users
     THEN /\ delivery' = IF Exists(p) THEN delivery ELSE [delivery EXCEPT ![p] =
               [id |-> nextId, user |-> r.user, status |-> "pending", attempts |-> 0]]
          /\ nextId' = IF Exists(p) THEN nextId ELSE nextId + 1
          /\ reserved' = reserved \cup {p}
          /\ row' = [row EXCEPT ![h] = [pair |-> p, id |-> delivery'[p].id]]
          /\ todo' = [todo EXCEPT ![h] = @ \ {r}]
          /\ pc' = [pc EXCEPT ![h] = "send"]
          /\ UNCHANGED <<sid, sms>>
     ELSE /\ Return(h)
          /\ todo' = [todo EXCEPT ![h] = {}]
          /\ UNCHANGED <<delivery, nextId, reserved, row>>
  /\ UNCHANGED <<inbound, link, users, access, environment, out, queue,
                 acked, owed, copies, excused>>

\* _deliver: INSERT ... ON CONFLICT DO NOTHING. A recipient deleted since the
\* list was read violates the foreign key: the request fails with the rest of
\* its list unvisited.
Reserve(h, r) ==
  LET p == <<sms[h], r.chat>> IN
  /\ pc[h] = "fanout"
  /\ r \in todo[h]
  /\ \/ /\ ~Exists(p) /\ r.user \in users
        /\ delivery' = [delivery EXCEPT ![p] =
             [id |-> nextId, user |-> r.user, status |-> "pending", attempts |-> 0]]
        /\ nextId' = nextId + 1
        /\ reserved' = reserved \cup {p}
        /\ row' = [row EXCEPT ![h] = [pair |-> p, id |-> nextId]]
        /\ todo' = [todo EXCEPT ![h] = @ \ {r}]
        /\ pc' = [pc EXCEPT ![h] = "send"]
        /\ UNCHANGED <<sid, sms>>
     \/ /\ Exists(p)
        /\ todo' = [todo EXCEPT ![h] = @ \ {r}]
        /\ UNCHANGED <<delivery, nextId, reserved, row, pc, sid, sms>>
     \/ /\ ~Exists(p) /\ r.user \notin users
        /\ Return(h)
        /\ todo' = [todo EXCEPT ![h] = {}]
        /\ UNCHANGED <<delivery, nextId, reserved, row>>
  /\ UNCHANGED <<inbound, link, users, access, environment, out, queue,
                 acked, owed, copies, excused>>

\* The list is exhausted (or was empty): the webhook answers 200.
Answer(h) ==
  /\ pc[h] = "fanout"
  /\ todo[h] = {}
  /\ Return(h)
  /\ acked' = acked \cup {sms[h]}
  /\ UNCHANGED <<database, environment, row, out, todo, queue,
                 reserved, owed, copies, excused>>

----------------------------------------------------------------------------
(* _send_one: shared by the webhook and the monitor                         *)

\* sendMessage of every part. A network error may come before or after
\* Telegram accepted the message; without a token nothing is sent.
Send(a) ==
  LET p == row[a].pair IN
  /\ pc[a] = "send"
  /\ pc' = [pc EXCEPT ![a] = "mark"]
  /\ \/ /\ configured /\ p[2] \notin blocked
        /\ out' = [out EXCEPT ![a] = "sent"]
        /\ copies' = [copies EXCEPT ![p] = @ + 1]
        /\ excused' = excused
     \/ /\ configured /\ p[2] \notin blocked
        /\ out' = [out EXCEPT ![a] = "failed"]
        /\ copies' = [copies EXCEPT ![p] = @ + 1]
        /\ excused' = excused \cup {p}
     \/ /\ out' = [out EXCEPT ![a] = "failed"]
        /\ UNCHANGED <<copies, excused>>
     \/ /\ configured /\ p[2] \in blocked
        /\ out' = [out EXCEPT ![a] = "forbidden"]
        /\ UNCHANGED <<copies, excused>>
  /\ UNCHANGED <<database, environment, row, sid, sms, todo, queue,
                 acked, reserved, owed>>

\* Fault: an attempt is not counted.
MarkRowUncounted(r, status) ==
  delivery' = IF delivery[r.pair].id = r.id
              THEN [delivery EXCEPT ![r.pair].status = status]
              ELSE delivery

\* UPDATE sms_deliveries ... WHERE id: no condition on the status it replaces.
MarkRow(r, status) ==
  delivery' = IF delivery[r.pair].id = r.id
              THEN [delivery EXCEPT ![r.pair].status = status,
                                    ![r.pair].attempts = @ + 1]
              ELSE delivery

\* mark_sent, mark_failed or mark_dead in its own transaction; a forbidden
\* chat also kills the link of the chat, if it is alive, in the same one.
Mark(a) ==
  /\ pc[a] = "mark"
  /\ \/ /\ out[a] = "sent" /\ MarkRow(row[a], "sent")
        /\ UNCHANGED <<link, owed>>
     \/ /\ out[a] = "failed" /\ MarkRow(row[a], "failed")
        /\ UNCHANGED <<link, owed>>
     \/ /\ out[a] = "unlinked" /\ MarkRow(row[a], "dead")
        /\ UNCHANGED <<link, owed>>
     \/ /\ out[a] = "forbidden" /\ MarkRow(row[a], "dead")
        /\ link' = [link EXCEPT ![row[a].pair[2]].live = FALSE]
        /\ owed' = StillOwed(link', access)
  /\ pc' = [pc EXCEPT ![a] = IF a = Monitor THEN "scan" ELSE "fanout"]
  /\ row' = [row EXCEPT ![a] = NoHandle]
  /\ out' = [out EXCEPT ![a] = "none"]
  /\ UNCHANGED <<inbound, nextId, users, access, environment, sid, sms, todo, queue,
                 acked, reserved, copies, excused>>

----------------------------------------------------------------------------
(* retry_pending_deliveries, run by the monitor                             *)

\* The monitor task exists only when the bot is configured. A candidate that a
\* webhook is delivering at this very moment is selected as well.
Poll ==
  /\ configured
  /\ pc[Monitor] = "idle"
  /\ queue' = Pending
  /\ pc' = [pc EXCEPT ![Monitor] = "scan"]
  /\ excused' = excused \cup {p \in {r.pair : r \in Pending} : HeldByHandler(p)}
  /\ UNCHANGED <<database, environment, row, out, sid, sms, todo,
                 acked, reserved, owed, copies>>

\* The next candidate by id; without a live link it is not sent but buried.
Visit ==
  /\ pc[Monitor] = "scan"
  /\ \E r \in queue :
       /\ \A q \in queue : r.id <= q.id
       /\ queue' = queue \ {r}
       /\ row' = [row EXCEPT ![Monitor] = r]
       /\ \/ /\ link[r.pair[2]].live
             /\ pc' = [pc EXCEPT ![Monitor] = "send"]
             /\ out' = out
          \/ /\ ~link[r.pair[2]].live
             /\ pc' = [pc EXCEPT ![Monitor] = "mark"]
             /\ out' = [out EXCEPT ![Monitor] = "unlinked"]
  /\ UNCHANGED <<database, environment, sid, sms, todo, history>>

\* The pass is over; the task sleeps and polls again.
Sleep ==
  /\ pc[Monitor] = "scan"
  /\ queue = {}
  /\ pc' = [pc EXCEPT ![Monitor] = "idle"]
  /\ UNCHANGED <<database, environment, row, out, sid, sms, todo, queue, history>>

----------------------------------------------------------------------------
(* Operators, administrators and the process                                *)

\* Bound: operators and administrators act at most MaxChanges times.
Change ==
  /\ changes < MaxChanges
  /\ changes' = changes + 1

\* link and auth: bind a chat to a user, or revive the binding it has.
LinkChat(c, u) ==
  /\ Change
  /\ u \in users
  /\ link' = [link EXCEPT ![c] = [user |-> u, live |-> TRUE]]
  /\ owed' = StillOwed(link', access)
  /\ UNCHANGED <<inbound, delivery, nextId, users, access, blocked, configured,
                 crashes, locals, acked, reserved, copies, excused>>

\* Base membership or an extra SMS team is given to or taken from a user.
ChangeAccess(u) ==
  /\ Change
  /\ u \in users
  /\ access' = (access \ {u}) \cup ({u} \ access)
  /\ owed' = StillOwed(link, access')
  /\ UNCHANGED <<inbound, delivery, nextId, link, users, blocked, configured,
                 crashes, locals, acked, reserved, copies, excused>>

\* Deleting a user cascades to the links and the deliveries of the user.
DeleteUser(u) ==
  /\ Change
  /\ u \in users
  /\ users' = users \ {u}
  /\ access' = access \ {u}
  /\ link' = [c \in Chats |-> IF link[c].user = u THEN NoLink ELSE link[c]]
  /\ delivery' = [p \in Pairs |-> IF delivery[p].user = u THEN NoRow ELSE delivery[p]]
  /\ owed' = StillOwed(link', access')
  /\ excused' = excused \cup {p \in Pairs : delivery[p].user = u}
  /\ UNCHANGED <<inbound, nextId, blocked, configured, crashes, locals, acked,
                 reserved, copies>>

\* The operator blocks or unblocks the bot in Telegram.
ToggleBlock(c) ==
  /\ Change
  /\ blocked' = (blocked \ {c}) \cup ({c} \ blocked)
  /\ UNCHANGED <<database, configured, crashes, locals, history>>

\* The process dies and is started again, possibly with another token. A
\* delivered message whose outcome is not stored yet will be sent again.
Restart ==
  /\ crashes < MaxCrashes
  /\ crashes' = crashes + 1
  /\ configured' \in BOOLEAN
  /\ pc' = [a \in Actors |-> "idle"]
  /\ row' = [a \in Actors |-> NoHandle]
  /\ out' = [a \in Actors |-> "none"]
  /\ sid' = [h \in Handlers |-> NoSid]
  /\ sms' = [h \in Handlers |-> NoMessage]
  /\ todo' = [h \in Handlers |-> {}]
  /\ queue' = {}
  /\ excused' = excused \cup
       {row[a].pair : a \in {b \in Actors : pc[b] = "mark" /\ out[b] = "sent"}}
  /\ UNCHANGED <<database, blocked, changes, acked, reserved, owed, copies>>

----------------------------------------------------------------------------

HandlerNext(h) ==
  \/ \E d \in Sids \cup {NoSid} : Webhook(h, d)
  \/ FindBySid(h)
  \/ StoreSms(h)
  \/ Resolve(h)
  \/ \E r \in todo[h] : Reserve(h, r)
  \/ Answer(h)

MonitorNext == Poll \/ Visit \/ Sleep

EnvironmentNext ==
  \/ \E c \in Chats, u \in Users : LinkChat(c, u)
  \/ \E u \in Users : ChangeAccess(u)
  \/ \E u \in Users : DeleteUser(u)
  \/ \E c \in Chats : ToggleBlock(c)
  \/ Restart

Next ==
  \/ \E h \in Handlers : HandlerNext(h)
  \/ \E a \in Actors : Send(a) \/ Mark(a)
  \/ MonitorNext
  \/ EnvironmentNext

Spec == Init /\ [][Next]_vars

\* Every coroutine that can go on does: the event loop is fair, the Bot API
\* client has a timeout and the monitor loop never ends.
Fairness ==
  /\ WF_vars(MonitorNext)
  /\ \A a \in Actors : WF_vars(Send(a) \/ Mark(a))
  /\ \A h \in Handlers : WF_vars(FindBySid(h) \/ StoreSms(h) \/ Resolve(h)
                                  \/ (\E r \in todo[h] : Reserve(h, r)) \/ Answer(h))

FairSpec == Spec /\ Fairness

----------------------------------------------------------------------------
(* Properties                                                               *)

TypeOK ==
  /\ inbound \in [SmsIds -> Sids \cup {NoSid, Free}]
  /\ delivery \in [Pairs -> Rows]
  /\ nextId \in Nat \ {0}
  /\ link \in [Chats -> Links]
  /\ users \subseteq Users
  /\ access \subseteq users
  /\ blocked \subseteq Chats
  /\ configured \in BOOLEAN
  /\ pc \in [Actors -> {"idle", "lookup", "insert", "resolve", "fanout",
                         "scan", "send", "mark"}]
  /\ row \in [Actors -> Handles]
  /\ out \in [Actors -> Outcomes]
  /\ sid \in [Handlers -> Sids \cup {NoSid}]
  /\ sms \in [Handlers -> SmsIds]
  /\ todo \in [Handlers -> SUBSET Recipients]
  /\ queue \subseteq Handles
  /\ crashes \in 0 .. MaxCrashes
  /\ changes \in 0 .. MaxChanges
  /\ acked \subseteq SmsIds
  /\ reserved \subseteq Pairs
  /\ owed \in [SmsIds -> SUBSET Chats]
  /\ copies \in [Pairs -> Nat]
  /\ excused \subseteq Pairs

\* Two webhooks with one MessageSid, however they interleave, store one message.
OneMessagePerSid ==
  \A m, n \in SmsIds : inbound[m] = inbound[n] /\ inbound[m] \in Sids => m = n

\* Once a webhook is answered 200, every chat that has been entitled to the
\* message ever since it was stored has had its delivery row, although earlier
\* handlers of the same message may have crashed in the middle of their list.
AnsweredMeansReserved ==
  \A m \in acked : \A c \in owed[m] : <<m, c>> \in reserved

\* A row says `sent` only if Telegram really took at least one copy.
SentMeansDelivered ==
  \A p \in Pairs : delivery[p].status = "sent" => copies[p] >= 1

\* Repeated and concurrent webhooks never duplicate a message in a chat. The
\* causes the design accepts are: the retry query picked a row a webhook was
\* just delivering, an error reported after Telegram accepted the message, a
\* restart before the outcome was stored, the cascade of a deleted user.
OneCopy == \A p \in Pairs \ excused : copies[p] <= 1

\* A row is tried at most once more than the configured maximum, whatever the
\* webhook that reserved it and the monitor do to it at the same time.
AttemptsBounded ==
  \A p \in Pairs : delivery[p].attempts <= MaxAttempts + 1

\* What holds of the rows at any moment, whoever writes them.
DeliveriesHold == SentMeansDelivered /\ OneCopy /\ AttemptsBounded

\* With a configured bot every candidate of the retry query leaves that query:
\* it is delivered, dead, exhausted or deleted.
RetryableSettles ==
  \A p \in Pairs : Retryable(p) ~> (~Retryable(p) \/ ~configured)

\* The rows, with what arrived and what is excused, are a delivery ledger: no
\* interleaving of webhooks, monitor, restarts and administrators takes a letter
\* that is not excused through a step the ledger does not have.
Ledger == INSTANCE DeliveryLedger
  WITH Letters <- Pairs, stage <- [p \in Pairs |-> delivery[p].status],
       arrived <- copies, waived <- excused
ImplementsLedger == Ledger!LedgerSpec
============================================================================
