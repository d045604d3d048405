---------------------------- MODULE MailDispatch ----------------------------
(***************************************************************************)
(* From the push of the aggregator to the Telegram notifications of a      *)
(* message. The aggregator pushes batches until they are acknowledged; the *)
(* ingest stores every message once. One dispatcher polls: pass A reserves *)
(* a delivery per recipient, sends it, records the outcome and marks the   *)
(* message as notified; pass B sends pending and failed deliveries again.  *)
(* Pass C is the module MailDown.                                          *)
(*                                                                         *)
(* One mailbox and its team. An administrator sees all mailboxes; of the   *)
(* live chats of an administrator sees_all_candidates keeps one.           *)
(***************************************************************************)
EXTENDS Naturals, FiniteSets

CONSTANTS
  Uids,         \* (uidvalidity, uid) of the messages in the mailbox
  Chats,        \* Telegram chats
  Users,        \* CRM users
  Owner,        \* the user each chat belongs to
  Handlers,     \* bound on ingest requests at the same time
  Nobody,       \* no message, no chat
  NotifyAll,    \* mail_tg_notify_all_messages
  MaxAttempts,  \* mail_tg_max_attempts
  Batch,        \* mail_dispatch_batch
  MaxPushes,    \* bound on pushes of the aggregator
  MaxCrashes,   \* bound on restarts and failed iterations
  MaxChanges    \* bound on changes of links, rights, blocks and the mailbox

ASSUME MailDispatchConstants ==
  /\ IsFiniteSet(Uids)
  /\ Owner \in [Chats -> Users]
  /\ Nobody \notin Uids \cup Chats
  /\ NotifyAll \in BOOLEAN
  /\ MaxAttempts \in Nat \ {0}
  /\ Batch \in Nat \ {0}
  /\ MaxPushes \in Nat /\ MaxCrashes \in Nat /\ MaxChanges \in Nat

VARIABLES
  account,    \* the row of the mailbox: "absent", "present" or "deleted"
  message,    \* mail_messages; id 0 stands for no row
  delivery,   \* mail_telegram_notifications; status "none" for no row
  alive,      \* chats bound to their user with dead_at IS NULL
  team,       \* active members of the team that have not opted out
  admins,     \* active users with every permission that have not opted out
  blocked,    \* chats whose user has blocked the bot
  handler,    \* ingest requests in progress
  pc, seesAll, todo, current, targets, job, outcome,   \* the iteration
  cache,      \* team_cache: {} or {the chats of the team}
  backlog,    \* the rows pass B has read and not tried yet
  pushes, crashes, changes,
  \* history, read by the properties only
  acked,      \* messages the aggregator got an answer for
  unknown,    \* messages answered as unknown_mailbox
  untagged,   \* messages skipped for want of a tag
  copies,     \* notifications that arrived, per message and chat, up to 2
  doubted,    \* deliveries a crash or an ambiguous error may repeat
  fanned,     \* copies sent by the push bot of the team, up to 2
  owed,       \* chats of team members eligible ever since the message is stored
  owedAdmin,  \* the same for chats of administrators
  newcomers   \* chats that became an administrator's during this iteration

tables == <<account, message, delivery>>
people == <<alive, team, admins, blocked>>
iteration == <<seesAll, cache, todo, current, targets, job, outcome, backlog>>
budgets == <<pushes, crashes, changes>>
debts == <<owed, owedAdmin, newcomers>>
traces == <<acked, unknown, untagged, copies, doubted, fanned>>
vars == <<tables, people, handler, pc, iteration, budgets, debts, traces>>

Statuses == {"none", "pending", "sent", "failed", "dead"}
Rows == [status : Statuses, attempts : Nat]
Messages == [id : Nat, notified : BOOLEAN]
Jobs == [pass : {"A", "B"}, msg : Uids, chat : Chats, attempts : Nat]
Outcomes == {"ok", "forbidden", "error"}
Open == [rest : SUBSET Uids, batch : SUBSET Uids, existing : BOOLEAN]

NoRow == [status |-> "none", attempts |-> 0]
NoMessage == [id |-> 0, notified |-> FALSE]
Stored(u) == message[u].id # 0
Reserved(u, c) == delivery[u][c].status # "none"

\* The chats team_recipients and sees_all_candidates select from.
TeamChats == {c \in alive : Owner[c] \in team}
AdminChats == {c \in alive : Owner[c] \in admins}

Plus(n) == IF n < 2 THEN n + 1 ELSE 2

Init ==
  /\ account \in {"absent", "present"}
  /\ message = [u \in Uids |-> NoMessage]
  /\ delivery = [u \in Uids |-> [c \in Chats |-> NoRow]]
  /\ alive \in SUBSET Chats
  /\ team \in SUBSET Users /\ admins \in SUBSET Users
  /\ blocked = {}
  /\ handler = [h \in Handlers |-> Nobody]
  /\ pc = "sleep" /\ seesAll = {} /\ cache = {} /\ todo = {} /\ current = Nobody
  /\ targets = {} /\ job = Nobody /\ outcome = "ok" /\ backlog = {}
  /\ pushes = 0 /\ crashes = 0 /\ changes = 0
  /\ acked = {} /\ unknown = {} /\ untagged = {}
  /\ copies = [u \in Uids |-> [c \in Chats |-> 0]]
  /\ doubted = {}
  /\ fanned = [u \in Uids |-> 0]
  /\ owed = [u \in Uids |-> {}] /\ owedAdmin = [u \in Uids |-> {}]
  /\ newcomers = {}

----------------------------------------------------------------------------
(* Ingest                                                                   *)

\* POST /ingest: existing_ids is read once for the whole batch.
Push(h, batch) ==
  /\ pushes < MaxPushes
  /\ pushes' = pushes + 1
  /\ handler[h] = Nobody
  /\ batch # {}
  /\ handler' = [handler EXCEPT ![h] =
       [rest |-> batch, batch |-> batch, existing |-> account = "present"]]
  /\ UNCHANGED <<tables, people, pc, iteration, crashes, changes, debts, traces>>

\* The id a new row gets from the sequence of mail_messages.
NextId == Cardinality({u \in Uids : Stored(u)}) + 1

Insert(u) ==
  /\ message' = [message EXCEPT ![u] = [id |-> NextId, notified |-> FALSE]]
  /\ owed' = [owed EXCEPT ![u] = TeamChats]
  /\ owedAdmin' = [owedAdmin EXCEPT ![u] = AdminChats \ newcomers]

Take(h, u) ==
  /\ handler[h] # Nobody
  /\ u \in handler[h].rest
  /\ handler' = [handler EXCEPT ![h].rest = @ \ {u}]

\* A message of a mailbox that was not in the catalogue is counted, not stored.
SkipUnknown(h, u) ==
  /\ Take(h, u)
  /\ ~handler[h].existing
  /\ unknown' = unknown \cup {u}
  /\ UNCHANGED <<tables, people, pc, iteration, budgets, debts,
                 acked, untagged, copies, doubted, fanned>>

\* INSERT ... ON CONFLICT DO NOTHING in a transaction of its own. Tags are
\* applied in a savepoint whose failure keeps the message.
StoreMessage(h, u) ==
  /\ Take(h, u)
  /\ handler[h].existing
  /\ account = "present"
  /\ IF Stored(u) THEN UNCHANGED <<message, owed, owedAdmin>> ELSE Insert(u)
  /\ UNCHANGED <<account, delivery, people, pc, iteration, budgets, newcomers, traces>>

\* The mailbox was deleted after existing_ids: the foreign key refuses the
\* row and the request fails.
StoreFails(h) ==
  /\ handler[h] # Nobody
  /\ handler[h].rest # {} /\ handler[h].existing
  /\ account # "present"
  /\ handler' = [handler EXCEPT ![h] = Nobody]
  /\ UNCHANGED <<tables, people, pc, iteration, budgets, debts, traces>>

\* Fault: the answer does not wait for the rest of the batch.
AnswerEarly(h) ==
  /\ handler[h] # Nobody
  /\ acked' \in {acked, acked \cup handler[h].batch}
  /\ handler' = [handler EXCEPT ![h] = Nobody]
  /\ UNCHANGED <<tables, people, pc, iteration, budgets, debts,
                 unknown, untagged, copies, doubted, fanned>>

\* The 200 answer; it may be lost, and then the aggregator pushes again.
AnswerPush(h) ==
  /\ handler[h] # Nobody
  /\ handler[h].rest = {}
  /\ acked' \in {acked, acked \cup handler[h].batch}
  /\ handler' = [handler EXCEPT ![h] = Nobody]
  /\ UNCHANGED <<tables, people, pc, iteration, budgets, debts,
                 unknown, untagged, copies, doubted, fanned>>

----------------------------------------------------------------------------
(* Pass A                                                                   *)

\* One live chat of every administrator: the dictionary of
\* sees_all_candidates keeps the first row of a user, in no defined order.
OneChatEach(S) ==
  {T \in SUBSET S : \A c \in S : Cardinality({d \in T : Owner[d] = Owner[c]}) = 1}

\* poll_once: _compute_sees_all with a team_cache of its own.
Poll ==
  /\ pc = "sleep"
  /\ pc' = "list"
  /\ seesAll' \in OneChatEach(AdminChats)
  /\ newcomers' = {}
  /\ UNCHANGED <<tables, people, handler, cache, todo, current, targets, job, outcome,
                 backlog, budgets, owed, owedAdmin, traces>>

\* The n messages of S with the smallest ids.
Oldest(S, n) ==
  {u \in S : Cardinality({v \in S : message[v].id < message[u].id}) < n}

\* unnotified_message_ids
ListNew ==
  /\ pc = "list"
  /\ todo' = Oldest({u \in Uids : Stored(u) /\ ~message[u].notified}, Batch)
  /\ pc' = "walk"
  /\ UNCHANGED <<tables, people, handler, seesAll, cache, current, targets, job, outcome,
                 backlog, budgets, debts, traces>>

\* Ids in the list order; a message deleted meanwhile can be at any place.
Due(u) == u \in todo /\ (Stored(u) => u \in Oldest({v \in todo : Stored(v)}, 1))

\* load_dispatch_message finds nothing: the message went with its mailbox.
SkipDeleted(u) ==
  /\ pc = "walk"
  /\ Due(u) /\ ~Stored(u)
  /\ todo' = todo \ {u}
  /\ UNCHANGED <<tables, people, handler, pc, seesAll, cache, current, targets, job,
                 outcome, backlog, budgets, debts, traces>>

\* With mail_tg_notify_all_messages off, a message that has no tag now.
SkipUntagged(u) ==
  /\ pc = "walk"
  /\ Due(u) /\ Stored(u) /\ ~NotifyAll
  /\ todo' = todo \ {u}
  /\ message' = [message EXCEPT ![u].notified = TRUE]
  /\ untagged' = untagged \cup {u}
  /\ UNCHANGED <<account, delivery, people, handler, pc, seesAll, cache, current, targets,
                 job, outcome, backlog, budgets, debts, acked, unknown, copies, doubted, fanned>>

\* Fault: the message is marked before its deliveries exist.
LoadMarking(u) ==
  /\ pc = "walk"
  /\ Due(u) /\ Stored(u)
  /\ todo' = todo \ {u}
  /\ current' = u
  /\ cache' = IF cache = {} THEN {TeamChats} ELSE cache
  /\ targets' = (UNION cache') \cup seesAll
  /\ message' = [message EXCEPT ![u].notified = TRUE]
  /\ pc' = "reserve"
  /\ UNCHANGED <<account, delivery, people, handler, seesAll, job, outcome, backlog,
                 budgets, debts, traces>>

\* The message is loaded and its recipients resolved through the cache.
Load(u) ==
  /\ pc = "walk"
  /\ Due(u) /\ Stored(u)
  /\ todo' = todo \ {u}
  /\ current' = u
  /\ cache' = IF cache = {} THEN {TeamChats} ELSE cache
  /\ targets' = (UNION cache') \cup seesAll
  /\ pc' = "reserve"
  /\ UNCHANGED <<tables, people, handler, seesAll, job, outcome, backlog, budgets,
                 debts, traces>>

Task(pass, u, c, n) == [pass |-> pass, msg |-> u, chat |-> c, attempts |-> n]

\* Fault: the delivery is sent again when its row exists already.
ReserveAnyway(c) ==
  /\ pc = "reserve"
  /\ c \in targets
  /\ Stored(current)
  /\ targets' = targets \ {c}
  /\ delivery' = [delivery EXCEPT ![current][c] =
                    IF @.status = "none" THEN [@ EXCEPT !.status = "pending"] ELSE @]
  /\ job' = Task("A", current, c, 0)
  /\ pc' = "send"
  /\ UNCHANGED <<account, message, people, handler, seesAll, cache, todo, current,
                 outcome, backlog, budgets, debts, traces>>

\* try_reserve: a delivery that exists already is skipped.
Reserve(c) ==
  /\ pc = "reserve"
  /\ c \in targets
  /\ Stored(current)
  /\ targets' = targets \ {c}
  /\ IF Reserved(current, c)
     THEN UNCHANGED <<delivery, job, pc>>
     ELSE /\ delivery' = [delivery EXCEPT ![current][c].status = "pending"]
          /\ job' = Task("A", current, c, 0)
          /\ pc' = "send"
  /\ UNCHANGED <<account, message, people, handler, seesAll, cache, todo, current,
                 outcome, backlog, budgets, debts, traces>>

\* The iteration ends before its time: whatever it was doing is forgotten.
Abandon ==
  /\ pc' = "sleep" /\ seesAll' = {} /\ cache' = {} /\ todo' = {} /\ current' = Nobody
  /\ targets' = {} /\ job' = Nobody /\ outcome' = "ok" /\ backlog' = {}
  /\ doubted' = IF pc = "mark" /\ outcome = "ok"
                THEN doubted \cup {<<job.msg, job.chat>>} ELSE doubted
  /\ UNCHANGED <<acked, unknown, untagged, copies, fanned>>

\* The message was deleted: the foreign key of the delivery fails, and the
\* exception ends the iteration.
ReserveFails ==
  /\ pc = "reserve" /\ targets # {}
  /\ ~Stored(current)
  /\ Abandon
  /\ UNCHANGED <<tables, people, handler, budgets, debts>>

\* Fault: a message whose deliveries are not all sent stays in the queue.
MarkNotifiedIfSent ==
  /\ pc = "reserve" /\ targets = {}
  /\ message' = [message EXCEPT ![current].notified =
       @ \/ (Stored(current) /\ \A c \in Chats : delivery[current][c].status \in {"none", "sent"})]
  /\ pc' = "fanout"
  /\ UNCHANGED <<account, delivery, people, handler, iteration, budgets, debts, traces>>

\* mark_notified, after every recipient has a delivery. The UPDATE of a
\* message that was deleted changes nothing.
MarkNotified ==
  /\ pc = "reserve" /\ targets = {}
  /\ message' = [message EXCEPT ![current].notified = @ \/ Stored(current)]
  /\ pc' = "fanout"
  /\ UNCHANGED <<account, delivery, people, handler, iteration, budgets, debts, traces>>

\* _push_fanout: fire and forget, nothing is recorded.
PushFanout ==
  /\ pc = "fanout"
  /\ fanned' \in {fanned, [fanned EXCEPT ![current] = Plus(@)]}
  /\ current' = Nobody
  /\ pc' = "walk"
  /\ UNCHANGED <<tables, people, handler, seesAll, cache, todo, targets, job, outcome,
                 backlog, budgets, debts, acked, unknown, untagged, copies, doubted>>

----------------------------------------------------------------------------
(* One delivery, in pass A or B                                             *)

\* send_message. A network error or an unreadable answer leaves open whether
\* the notification arrived.
Send ==
  /\ pc = "send"
  /\ pc' = "mark"
  /\ \E arrived \in BOOLEAN :
       /\ \/ outcome' = "ok" /\ arrived /\ job.chat \notin blocked
          \/ outcome' = "forbidden" /\ ~arrived /\ job.chat \in blocked
          \/ outcome' = "error" /\ (job.chat \in blocked => ~arrived)
       /\ copies' = IF arrived THEN [copies EXCEPT ![job.msg][job.chat] = Plus(@)] ELSE copies
       /\ doubted' = IF arrived /\ outcome' = "error"
                     THEN doubted \cup {<<job.msg, job.chat>>} ELSE doubted
  /\ UNCHANGED <<tables, people, handler, seesAll, cache, todo, current, targets, job,
                 backlog, budgets, debts, acked, unknown, untagged, fanned>>

\* Fault: the last attempt is recorded as failed instead of dead.
MarkedOneMore(r, pass, n, result) ==
  CASE result = "ok" -> [r EXCEPT !.status = "sent"]
    [] result = "error" /\ (pass = "A" \/ n < MaxAttempts) ->
         [status |-> "failed", attempts |-> r.attempts + 1]
    [] OTHER -> [status |-> "dead", attempts |-> r.attempts + 1]

\* mark_sent, mark_failed and mark_dead. Pass A never gives a delivery up for
\* its number of attempts; pass B counts from the attempts it has read.
Marked(r, pass, n, result) ==
  CASE result = "ok" -> [r EXCEPT !.status = "sent"]
    [] result = "error" /\ (pass = "A" \/ n + 1 < MaxAttempts) ->
         [status |-> "failed", attempts |-> r.attempts + 1]
    [] OTHER -> [status |-> "dead", attempts |-> r.attempts + 1]

\* The transaction after a send; a 403 buries the link of the chat with it.
Mark ==
  /\ pc = "mark"
  /\ delivery' = [delivery EXCEPT ![job.msg][job.chat] =
       IF @.status = "none" THEN @ ELSE Marked(@, job.pass, job.attempts, outcome)]
  /\ IF outcome = "forbidden"
     THEN /\ alive' = alive \ {job.chat}
          /\ owed' = [u \in Uids |-> owed[u] \ {job.chat}]
          /\ owedAdmin' = [u \in Uids |-> owedAdmin[u] \ {job.chat}]
     ELSE UNCHANGED <<alive, owed, owedAdmin>>
  /\ pc' = IF job.pass = "A" THEN "reserve" ELSE "drain"
  /\ job' = Nobody /\ outcome' = "ok"
  /\ UNCHANGED <<account, message, team, admins, blocked, handler, seesAll, cache, todo,
                 current, targets, backlog, budgets, newcomers, traces>>

----------------------------------------------------------------------------
(* Pass B                                                                   *)

\* Fault: deliveries a crash left as pending are not taken up again.
RetryableFailed(r) == r.status = "failed" /\ r.attempts < MaxAttempts

Retryable(r) == r.status \in {"pending", "failed"} /\ r.attempts < MaxAttempts

\* Pass A is over; pending_for_retry.
ListPending ==
  /\ pc = "walk" /\ todo = {}
  /\ backlog' = {Task("B", p[1], p[2], delivery[p[1]][p[2]].attempts) :
                   p \in {q \in Uids \X Chats : Retryable(delivery[q[1]][q[2]])}}
  /\ pc' = "drain"
  /\ UNCHANGED <<tables, people, handler, seesAll, cache, todo, current, targets, job,
                 outcome, budgets, debts, traces>>

\* _retry_one. A delivery whose message is gone is gone as well, and the
\* mark_dead of the code finds no row.
Retry(t) ==
  /\ pc = "drain"
  /\ t \in backlog
  /\ backlog' = backlog \ {t}
  /\ IF Stored(t.msg) THEN job' = t /\ pc' = "send" ELSE UNCHANGED <<job, pc>>
  /\ UNCHANGED <<tables, people, handler, seesAll, cache, todo, current, targets,
                 outcome, budgets, debts, traces>>

\* Pass C follows; then the loop sleeps for mail_dispatch_interval_sec.
EndIteration ==
  /\ pc = "drain" /\ backlog = {}
  /\ pc' = "sleep" /\ seesAll' = {} /\ cache' = {}
  /\ UNCHANGED <<tables, people, handler, todo, current, targets, job, outcome, backlog,
                 budgets, debts, traces>>

----------------------------------------------------------------------------
(* Failures and the environment                                             *)

Crash == crashes < MaxCrashes /\ crashes' = crashes + 1 /\ UNCHANGED <<pushes, changes>>

\* An exception ends the iteration, not the loop.
FailIteration ==
  /\ Crash
  /\ pc # "sleep"
  /\ Abandon
  /\ UNCHANGED <<tables, people, handler, debts>>

\* The process restarts: requests and the iteration are gone.
Restart ==
  /\ Crash
  /\ Abandon
  /\ handler' = [h \in Handlers |-> Nobody]
  /\ UNCHANGED <<tables, people, debts>>

Change == changes < MaxChanges /\ changes' = changes + 1 /\ UNCHANGED <<pushes, crashes>>

\* create_mailbox: the aggregator has the mailbox before the catalogue has.
CreateMailbox ==
  /\ Change
  /\ account = "absent"
  /\ account' = "present"
  /\ UNCHANGED <<message, delivery, people, handler, pc, iteration, debts, traces>>

\* delete_mailbox: messages and deliveries cascade.
DeleteMailbox ==
  /\ Change
  /\ account = "present"
  /\ account' = "deleted"
  /\ message' = [u \in Uids |-> NoMessage]
  /\ delivery' = [u \in Uids |-> [c \in Chats |-> NoRow]]
  /\ UNCHANGED <<people, handler, pc, iteration, debts, traces>>

\* A debt ends when its chat stops being eligible, and a chat that becomes an
\* administrator's while an iteration runs is new to it.
Reckon(newAlive, newTeam, newAdmins) ==
  LET eligible(S) == {c \in newAlive : Owner[c] \in S} IN
  /\ alive' = newAlive /\ team' = newTeam /\ admins' = newAdmins
  /\ owed' = [u \in Uids |-> owed[u] \cap eligible(newTeam)]
  /\ owedAdmin' = [u \in Uids |-> owedAdmin[u] \cap eligible(newAdmins)]
  /\ newcomers' = newcomers \cup (eligible(newAdmins) \ AdminChats)
  /\ UNCHANGED <<tables, handler, pc, iteration, traces>>

\* Membership, roles, activity or the opt-out of a user change.
ChangeRights(u) ==
  /\ Change
  /\ \/ Reckon(alive, (team \cup {u}) \ (team \cap {u}), admins)
     \/ Reckon(alive, team, (admins \cup {u}) \ (admins \cap {u}))
  /\ UNCHANGED blocked

\* bind, the hook of the user service and reconcile_orphans give a chat a
\* live link.
Bind(c) ==
  /\ c \notin alive \cup blocked
  /\ Change
  /\ Reckon(alive \cup {c}, team, admins)
  /\ UNCHANGED blocked

\* A user blocks or unblocks the bot.
ToggleBlock(c) ==
  /\ Change
  /\ blocked' = IF c \in blocked THEN blocked \ {c} ELSE blocked \cup {c}
  /\ UNCHANGED <<tables, alive, team, admins, handler, pc, iteration, debts, traces>>

Dispatch ==
  \/ Poll \/ ListNew \/ ReserveFails \/ MarkNotified \/ PushFanout
  \/ Send \/ Mark \/ ListPending \/ EndIteration
  \/ \E u \in Uids : SkipDeleted(u) \/ SkipUntagged(u) \/ Load(u)
  \/ \E c \in Chats : Reserve(c)
  \/ \E t \in backlog : Retry(t)

Ingest(h) ==
  \/ \E u \in Uids : SkipUnknown(h, u) \/ StoreMessage(h, u)
  \/ StoreFails(h)
  \/ AnswerPush(h)

Next ==
  \/ Dispatch
  \/ \E h \in Handlers : Ingest(h) \/ \E batch \in SUBSET Uids : Push(h, batch)
  \/ FailIteration
  \/ Restart
  \/ CreateMailbox
  \/ DeleteMailbox
  \/ \E u \in Users : ChangeRights(u)
  \/ \E c \in Chats : Bind(c) \/ ToggleBlock(c)

Spec == Init /\ [][Next]_vars

\* The loop runs whenever it can; pushes and the environment owe nothing.
FairSpec == Spec /\ WF_vars(Dispatch)

----------------------------------------------------------------------------
(* Properties                                                               *)

TypeOK ==
  /\ account \in {"absent", "present", "deleted"}
  /\ message \in [Uids -> Messages]
  /\ delivery \in [Uids -> [Chats -> Rows]]
  /\ \A u \in Uids, c \in Chats : Reserved(u, c) => Stored(u)
  /\ \A u \in Uids : Stored(u) => account = "present"
  /\ alive \subseteq Chats /\ blocked \subseteq Chats
  /\ team \subseteq Users /\ admins \subseteq Users
  /\ handler \in [Handlers -> Open \cup {Nobody}]
  /\ pc \in {"sleep", "list", "walk", "reserve", "send", "mark", "fanout", "drain"}
  /\ seesAll \subseteq Chats
  /\ cache = {} \/ \E S \in SUBSET Chats : cache = {S}
  /\ todo \subseteq Uids
  /\ current \in Uids \cup {Nobody}
  /\ targets \subseteq Chats
  /\ IF pc \in {"send", "mark"} THEN job \in Jobs ELSE job = Nobody
  /\ outcome \in Outcomes
  /\ backlog \subseteq Jobs
  /\ pushes \in 0 .. MaxPushes /\ crashes \in 0 .. MaxCrashes /\ changes \in 0 .. MaxChanges
  /\ acked \subseteq Uids /\ unknown \subseteq Uids /\ untagged \subseteq Uids
  /\ copies \in [Uids -> [Chats -> 0 .. 2]]
  /\ doubted \subseteq Uids \X Chats
  /\ fanned \in [Uids -> 0 .. 2]
  /\ owed \in [Uids -> SUBSET Chats] /\ owedAdmin \in [Uids -> SUBSET Chats]
  /\ newcomers \subseteq Chats

\* What the aggregator may forget is stored, unless the mailbox was not in
\* the catalogue when the batch was checked, or has been deleted since
\* (MailIngestService.ingest).
AnsweredMeansStored ==
  \A u \in acked : Stored(u) \/ u \in unknown \/ account = "deleted"

\* A message leaves the queue only when every chat of the team, and one chat
\* of every administrator, eligible ever since it was stored has a delivery:
\* nothing else would ever create it (_process_new_message).
NotifiedMeansReserved ==
  \A u \in Uids : message[u].notified /\ u \notin untagged =>
    /\ \A c \in owed[u] : Reserved(u, c)
    /\ \A c \in owedAdmin[u] : \E d \in Chats : Owner[d] = Owner[c] /\ Reserved(u, d)

\* The push bot of the team, whose sends nothing records, sends a message at
\* most once, because it runs after the commit of mark_notified.
FannedOnce == \A u \in Uids : fanned[u] < 2

\* A delivery that is still to be retried is one pass B will select, and no
\* delivery is tried more often than allowed. With a limit of one attempt,
\* which pass A does not know, a failed delivery is retried by nobody.
RetriesRemain ==
  MaxAttempts > 1 =>
    \A u \in Uids, c \in Chats :
      /\ delivery[u][c].attempts <= MaxAttempts
      /\ delivery[u][c].status = "failed" => delivery[u][c].attempts < MaxAttempts

\* Every stored message leaves the queue, and each of its deliveries is in the
\* end sent or dead, or the message is deleted (pass A, pass B and the retry
\* of an abandoned iteration).
MessageSettles ==
  \A u \in Uids :
    Stored(u) ~> \/ ~Stored(u)
                 \/ /\ message[u].notified
                    /\ \A c \in Chats : delivery[u][c].status \in {"none", "sent", "dead"}

\* The rows are a delivery ledger. A letter is waived when it is in doubt, and
\* every letter is once the mailbox is deleted with its messages.
Ledger == INSTANCE DeliveryLedger
  WITH Letters <- Uids \X Chats,
       stage <- [p \in Uids \X Chats |-> delivery[p[1]][p[2]].status],
       arrived <- [p \in Uids \X Chats |-> copies[p[1]][p[2]]],
       waived <- IF account = "deleted" THEN Uids \X Chats ELSE doubted
ImplementsLedger == Ledger!LedgerSpec
=============================================================================
