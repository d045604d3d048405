------------------------------ MODULE MailDown ------------------------------
(***************************************************************************)
(* Alerts about mailboxes that stopped working. The row of a mailbox has   *)
(* is_active and down_alert_sent_at; three channels write is_active: the   *)
(* status push of the aggregator, the PATCH of an administrator and the    *)
(* OAuth notification. Pass C of the dispatcher stamps an inactive row     *)
(* with a guarded UPDATE and then sends the alert, once, to the recipients *)
(* it resolved before.                                                     *)
(*                                                                         *)
(* A status push and a PATCH load the row as an ORM object and write it    *)
(* later: the UPDATE names only the columns whose value differs from the   *)
(* value that was loaded.                                                  *)
(***************************************************************************)
EXTENDS Naturals, FiniteSets

CONSTANTS
  Mailboxes,    \* ids of mailboxes; the dispatcher visits them in this order
  Chats,        \* Telegram chats linked to active users
  Users,        \* active users
  Owner,        \* the user of each chat
  Admins,       \* users whose roles have every permission
  Members,      \* members of the team of the mailboxes
  Requests,     \* bound on status pushes and PATCHes at the same time
  Channels,     \* the channels in use, among "status", "patch" and "oauth"
  Nobody,       \* no request, no mailbox
  Batch,        \* mail_dispatch_batch
  MaxChanges,   \* bound on pushes, PATCHes, OAuth notifications and deletions
  MaxCrashes,   \* bound on restarts and failed iterations
  MaxTelegram   \* bound on lost alerts and changes of a chat

ASSUME MailDownConstants ==
  /\ Mailboxes \subseteq Nat
  /\ IsFiniteSet(Mailboxes)
  /\ Owner \in [Chats -> Users]
  /\ Admins \subseteq Users
  /\ Members \subseteq Users
  /\ Channels \subseteq {"status", "patch", "oauth"}
  /\ Nobody \notin Mailboxes
  /\ Batch \in Nat \ {0}
  /\ MaxChanges \in Nat
  /\ MaxCrashes \in Nat
  /\ MaxTelegram \in Nat

VARIABLES
  row,       \* mail_accounts
  request,   \* the handlers of pushes and PATCHes
  alive,     \* chats whose link has dead_at IS NULL
  blocked,   \* chats whose user has blocked the bot
  pc, seesAll, todo, current, targets,   \* the dispatcher's iteration
  cache,     \* team_cache: {} or {the chats of the team}
  changes, crashes, trouble,
  \* history, read by the properties only
  outage,    \* how many times the row went from active to inactive
  stampOf,   \* the outage during which the stamp of the row was set
  excused,   \* stamps that a PATCH, an OAuth notification or a race may strand
  heard,     \* <<mailbox, chat, outage>> of the alerts that arrived
  twice,     \* those that arrived more than once
  spared,    \* alerts whose loss is accepted
  estranged  \* chats that have blocked the bot at some time

tables == <<row, alive>>
dispatcher == <<pc, seesAll, cache, todo, current, targets>>
budgets == <<changes, crashes, trouble>>
told == <<heard, twice, spared>>
history == <<outage, stampOf, excused, told, estranged>>
vars == <<tables, request, blocked, dispatcher, budgets, history>>

Rows == [live : BOOLEAN, active : BOOLEAN, stamped : BOOLEAN]
Saw == [active : BOOLEAN, stamped : BOOLEAN]
Open == [kind : {"status", "patch"}, box : Mailboxes, want : BOOLEAN, saw : Saw]
Alerts == Mailboxes \X Chats \X Nat
NoRow == [live |-> FALSE, active |-> FALSE, stamped |-> FALSE]

ChatsOf(u) == {c \in Chats : Owner[c] = u}
AdminChats == {c \in Chats : Owner[c] \in Admins}
MemberChats == {c \in Chats : Owner[c] \in Members}

\* The requests that have loaded the row of a mailbox and not written it yet.
InFlight(m) == {h \in Requests : request[h] # Nobody /\ request[h].box = m}

\* A push in flight that will re-enable the mailbox and has not seen a stamp.
BlindRecovery(m) ==
  \E h \in InFlight(m) :
    /\ request[h].kind = "status"
    /\ request[h].want
    /\ ~request[h].saw.active
    /\ ~request[h].saw.stamped

Init ==
  /\ row \in [Mailboxes -> {[live |-> TRUE, active |-> TRUE, stamped |-> FALSE], NoRow}]
  /\ request = [h \in Requests |-> Nobody]
  /\ alive = Chats
  /\ blocked = {}
  /\ pc = "sleep" /\ seesAll = {} /\ cache = {}
  /\ todo = {} /\ current = Nobody /\ targets = {}
  /\ changes = 0 /\ crashes = 0 /\ trouble = 0
  /\ outage = [m \in Mailboxes |-> 0]
  /\ stampOf = [m \in Mailboxes |-> 0]
  /\ excused = {} /\ heard = {} /\ twice = {} /\ spared = {} /\ estranged = {}

----------------------------------------------------------------------------
(* The writers of is_active                                                 *)

\* A new outage begins when the row turns inactive or is inserted inactive.
BeginsOutage(m, new) == new.live /\ ~new.active /\ (row[m].active \/ ~row[m].live)

\* Replace the row of a mailbox and keep the history of it. A stamp on a row
\* that a channel other than the status push has made active is excused.
WriteRow(m, new, bypass) ==
  /\ row' = [row EXCEPT ![m] = new]
  /\ outage' = [outage EXCEPT ![m] = IF BeginsOutage(m, new) THEN @ + 1 ELSE @]
  /\ excused' = IF ~new.stamped THEN excused \ {m}
                ELSE IF bypass /\ new.active THEN excused \cup {m} ELSE excused
  /\ UNCHANGED stampOf

Change ==
  /\ changes < MaxChanges
  /\ changes' = changes + 1
  /\ UNCHANGED <<crashes, trouble>>

\* apply_mailbox_status and update_mailbox load the row. The mailbox of an
\* unknown id is answered without a write.
Load(h, kind, m, want) ==
  /\ kind \in Channels
  /\ Change
  /\ request[h] = Nobody
  /\ row[m].live
  /\ request' = [request EXCEPT ![h] =
       [kind |-> kind, box |-> m, want |-> want,
        saw |-> [active |-> row[m].active, stamped |-> row[m].stamped]]]
  /\ UNCHANGED <<tables, blocked, dispatcher, history>>

\* apply_sync_status on the row: a column is written when its new value
\* differs from the loaded one; a recovery resets the stamp.
Applied(r, saw, want) ==
  [r EXCEPT !.active = IF want # saw.active THEN want ELSE @,
            !.stamped = IF ~saw.active /\ want /\ saw.stamped THEN FALSE ELSE @]

\* The write of a status push. An UPDATE of a deleted row changes nothing.
WriteStatus(h) ==
  LET q == request[h] IN
  /\ q # Nobody /\ q.kind = "status"
  /\ request' = [request EXCEPT ![h] = Nobody]
  /\ IF row[q.box].live
     THEN WriteRow(q.box, Applied(row[q.box], q.saw, q.want), FALSE)
     ELSE UNCHANGED <<row, outage, stampOf, excused>>
  /\ UNCHANGED <<alive, blocked, dispatcher, budgets, told, estranged>>

\* The write of a PATCH with is_active after the answer of the aggregator:
\* the stamp is not touched.
WritePatch(h) ==
  LET q == request[h] IN
  /\ q # Nobody /\ q.kind = "patch"
  /\ request' = [request EXCEPT ![h] = Nobody]
  /\ IF row[q.box].live /\ q.want # q.saw.active
     THEN WriteRow(q.box, [row[q.box] EXCEPT !.active = q.want], TRUE)
     ELSE UNCHANGED <<row, outage, stampOf, excused>>
  /\ UNCHANGED <<alive, blocked, dispatcher, budgets, told, estranged>>

\* The aggregator refuses or does not answer: the PATCH writes nothing.
RefusePatch(h) ==
  /\ request[h] # Nobody /\ request[h].kind = "patch"
  /\ request' = [request EXCEPT ![h] = Nobody]
  /\ UNCHANGED <<tables, blocked, dispatcher, budgets, history>>

\* link_oauth_account: one UPSERT that inserts the row or sets is_active.
LinkOauth(m, active) ==
  /\ "oauth" \in Channels
  /\ Change
  /\ WriteRow(m, IF row[m].live THEN [row[m] EXCEPT !.active = active]
                 ELSE [live |-> TRUE, active |-> active, stamped |-> FALSE], TRUE)
  /\ UNCHANGED <<request, alive, blocked, dispatcher, told, estranged>>

\* create_mailbox inserts the row with the id that the aggregator assigned.
CreateMailbox(m, active) ==
  /\ Change
  /\ ~row[m].live
  /\ WriteRow(m, [live |-> TRUE, active |-> active, stamped |-> FALSE], TRUE)
  /\ UNCHANGED <<request, alive, blocked, dispatcher, told, estranged>>

\* delete_mailbox, after the aggregator has deleted its side.
DeleteMailbox(m) ==
  /\ Change
  /\ row[m].live
  /\ WriteRow(m, NoRow, FALSE)
  /\ UNCHANGED <<request, alive, blocked, dispatcher, told, estranged>>

----------------------------------------------------------------------------
(* Pass C of the dispatcher                                                 *)

\* One chat for each owner of a chat in S: sees_all_candidates keeps the first
\* row of a user, in no defined order.
OneChatEach(S) ==
  {T \in SUBSET S : \A c \in S : Cardinality(T \cap ChatsOf(Owner[c])) = 1}

\* poll_once picks a live chat of every administrator; pass A may have resolved
\* the team of the mailboxes already.
Poll ==
  /\ pc = "sleep"
  /\ pc' = "list"
  /\ seesAll' \in OneChatEach(alive \cap AdminChats)
  /\ cache' \in {{}, {alive \cap MemberChats}}
  /\ UNCHANGED <<tables, request, blocked, todo, current, targets, budgets, history>>

\* Fault: rows that were alerted already fill the batch.
DownsWithStamped == {m \in Mailboxes : row[m].live /\ ~row[m].active}

Downs == {m \in Mailboxes : row[m].live /\ ~row[m].active /\ ~row[m].stamped}

\* ORDER BY id LIMIT: the elements with fewer than n smaller ones.
Lowest(S, n) == {m \in S : Cardinality({k \in S : k < m}) < n}

\* down_mailboxes
ListDowns ==
  /\ pc = "list"
  /\ todo' = Lowest(Downs, Batch)
  /\ pc' = "walk"
  /\ UNCHANGED <<tables, request, blocked, seesAll, cache, current, targets, budgets, history>>

\* Fault: the administrators are forgotten.
RecipientsOfTeam(team, all) == team

Recipients(team, all) == team \cup all

\* _resolve_recipients of the next mailbox, with the cache of the iteration.
Resolve(m) ==
  /\ pc = "walk"
  /\ m \in Lowest(todo, 1)
  /\ todo' = todo \ {m}
  /\ current' = m
  /\ cache' = IF cache = {} THEN {alive \cap MemberChats} ELSE cache
  /\ targets' = Recipients(UNION cache', seesAll)
  /\ pc' = "stamp"
  /\ UNCHANGED <<tables, request, blocked, seesAll, budgets, history>>

\* Fault: a mailbox that has recovered meanwhile is stamped as well.
MayStampRecovered(r) == r.live /\ ~r.stamped

MayStamp(r) == r.live /\ ~r.active /\ ~r.stamped

\* try_stamp_down_alert, the guarded UPDATE before the alerts are sent.
Stamp ==
  /\ pc = "stamp"
  /\ IF MayStamp(row[current])
     THEN /\ row' = [row EXCEPT ![current].stamped = TRUE]
          /\ stampOf' = [stampOf EXCEPT ![current] = outage[current]]
          /\ excused' = IF BlindRecovery(current) THEN excused \cup {current} ELSE excused
          /\ pc' = "send"
          /\ UNCHANGED <<current, targets>>
     ELSE /\ pc' = "walk" /\ current' = Nobody /\ targets' = {}
          /\ UNCHANGED <<row, stampOf, excused>>
  /\ UNCHANGED <<alive, request, blocked, seesAll, cache, todo, budgets, outage, told, estranged>>

Arrives(c) ==
  LET a == <<current, c, stampOf[current]>> IN
  /\ heard' = heard \cup {a}
  /\ twice' = IF a \in heard THEN twice \cup {a} ELSE twice
  /\ UNCHANGED spared

\* _deliver_alert to one recipient. A 403 buries the link; any other error,
\* after which nobody knows whether the alert arrived, is dropped.
SendAlert(c) ==
  /\ pc = "send"
  /\ c \in targets
  /\ targets' = targets \ {c}
  /\ \/ /\ c \notin blocked
        /\ Arrives(c)
        /\ UNCHANGED <<alive, budgets>>
     \/ /\ c \in blocked
        /\ alive' = alive \ {c}
        /\ UNCHANGED <<told, budgets>>
     \/ /\ trouble < MaxTelegram
        /\ trouble' = trouble + 1
        /\ spared' = spared \cup {<<current, c, stampOf[current]>>}
        /\ UNCHANGED <<alive, heard, twice, changes, crashes>>
  /\ UNCHANGED <<row, request, blocked, pc, seesAll, cache, todo, current,
                 outage, stampOf, excused, estranged>>

\* All recipients of the mailbox were tried.
EndMailbox ==
  /\ pc = "send" /\ targets = {}
  /\ pc' = "walk" /\ current' = Nobody
  /\ UNCHANGED <<tables, request, blocked, seesAll, cache, todo, targets, budgets, history>>

\* The iteration is over; the loop sleeps for mail_dispatch_interval_sec.
EndPass ==
  /\ pc = "walk" /\ todo = {}
  /\ pc' = "sleep" /\ seesAll' = {} /\ cache' = {}
  /\ UNCHANGED <<tables, request, blocked, todo, current, targets, budgets, history>>

----------------------------------------------------------------------------
(* Failures and the environment                                             *)

Interrupted ==
  /\ crashes < MaxCrashes
  /\ crashes' = crashes + 1
  /\ pc' = "sleep" /\ seesAll' = {} /\ cache' = {}
  /\ todo' = {} /\ current' = Nobody /\ targets' = {}
  /\ spared' = IF pc = "send"
               THEN spared \cup ({current} \X targets \X {stampOf[current]})
               ELSE spared
  /\ UNCHANGED <<tables, blocked, changes, trouble, outage, stampOf, excused, heard, twice, estranged>>

\* An exception ends the iteration, not the loop.
FailIteration == pc # "sleep" /\ Interrupted /\ UNCHANGED request

\* The process restarts: the iteration and the open requests are gone.
Restart == Interrupted /\ request' = [h \in Requests |-> Nobody]

\* A user blocks or unblocks the bot.
ToggleBlock(c) ==
  /\ trouble < MaxTelegram
  /\ trouble' = trouble + 1
  /\ blocked' = IF c \in blocked THEN blocked \ {c} ELSE blocked \cup {c}
  /\ estranged' = estranged \cup {c}
  /\ UNCHANGED <<tables, request, dispatcher, changes, crashes,
                 outage, stampOf, excused, told>>

\* _resolve_user of the Mini App or /start binds the chat again; who writes to
\* the bot has unblocked it, who opens the Mini App may not have.
Rebind(c) ==
  /\ c \notin alive
  /\ alive' = alive \cup {c}
  /\ blocked' \in {blocked, blocked \ {c}}
  /\ UNCHANGED <<row, request, dispatcher, budgets, history>>

PassC ==
  \/ Poll \/ ListDowns \/ Stamp \/ EndMailbox \/ EndPass
  \/ \E m \in Mailboxes : Resolve(m)
  \/ \E c \in Chats : SendAlert(c)

Handle(h) == WriteStatus(h) \/ WritePatch(h) \/ RefusePatch(h)

Next ==
  \/ PassC
  \/ \E h \in Requests :
       \/ Handle(h)
       \/ \E k \in {"status", "patch"}, m \in Mailboxes, b \in BOOLEAN : Load(h, k, m, b)
  \/ \E m \in Mailboxes :
       \/ DeleteMailbox(m)
       \/ \E b \in BOOLEAN : LinkOauth(m, b) \/ CreateMailbox(m, b)
  \/ \E c \in Chats : ToggleBlock(c) \/ Rebind(c)
  \/ FailIteration
  \/ Restart

Spec == Init /\ [][Next]_vars

\* The loop runs whenever it can; the environment owes nothing.
FairSpec == Spec /\ WF_vars(PassC)

----------------------------------------------------------------------------
(* Properties                                                               *)

TypeOK ==
  /\ row \in [Mailboxes -> Rows]
  /\ \A m \in Mailboxes : ~row[m].live => row[m] = NoRow
  /\ request \in [Requests -> Open \cup {Nobody}]
  /\ alive \subseteq Chats
  /\ blocked \subseteq Chats
  /\ pc \in {"sleep", "list", "walk", "stamp", "send"}
  /\ seesAll \subseteq AdminChats
  /\ cache = {} \/ \E S \in SUBSET MemberChats : cache = {S}
  /\ todo \subseteq Mailboxes
  /\ current \in Mailboxes \cup {Nobody}
  /\ current = Nobody <=> pc \notin {"stamp", "send"}
  /\ targets \subseteq AdminChats \cup MemberChats
  /\ changes \in 0 .. MaxChanges /\ crashes \in 0 .. MaxCrashes
  /\ trouble \in 0 .. MaxTelegram
  /\ outage \in [Mailboxes -> Nat]
  /\ stampOf \in [Mailboxes -> Nat]
  /\ \A m \in Mailboxes : stampOf[m] <= outage[m]
  /\ excused \subseteq Mailboxes
  /\ heard \subseteq Alerts /\ twice \subseteq heard /\ spared \subseteq Alerts
  /\ estranged \subseteq Chats

\* The stamp of a row was set in the outage the row is in, and an active row
\* has none, so that the next outage is alerted; only a re-enabling past the
\* status channel, or a recovery that overlapped the stamp, leaves an old one
\* (apply_sync_status, try_stamp_down_alert).
StampIsFresh ==
  \A m \in Mailboxes :
    row[m].stamped /\ m \notin excused => ~row[m].active /\ stampOf[m] = outage[m]

\* The comment of try_stamp_down_alert, "one per transition": no chat is told
\* twice of the same outage, whatever is pushed, edited or restarted.
ToldOnce == twice = {}

\* Who is to be told of an outage: every chat of a member of the team, and of an
\* administrator one chat, no matter which.
Creditors == {{c} : c \in MemberChats} \cup {ChatsOf(Owner[c]) : c \in AdminChats}

\* Once an outage is stamped and its alerts are sent, every chat of a member and
\* one chat of every administrator has the alert, except where Telegram or a
\* crash lost it; nothing is said of who has blocked the bot at some time.
StampMeansTold ==
  \A m \in Mailboxes, G \in Creditors :
    row[m].stamped /\ current # m /\ G \cap estranged = {}
    => \E c \in G : <<m, c, stampOf[m]>> \in heard \cup spared

\* A documented promise of pass C and the status channel: a stamp belongs to
\* the current outage, so that every outage is alerted once.
StampOfThisOutage ==
  \A m \in Mailboxes :
    row[m].live /\ ~row[m].active /\ row[m].stamped => stampOf[m] = outage[m]

\* A mailbox that stays down is stamped, whichever others are down with it.
OutageNoticed ==
  \A m \in Mailboxes :
    row[m].live /\ ~row[m].active /\ ~row[m].stamped
      ~> row[m].stamped \/ row[m].active \/ ~row[m].live
=============================================================================
