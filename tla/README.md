# Verification of the CRM backend

TLA+ specifications of the parts of this repository in which concurrency,
crashes and retries decide whether the program is correct, TLC configurations
that check them on small instances, and TLAPS proofs of the most important
properties for every value of the constants.

Paths are relative to `backend/app/` unless they start with `docs/`.

## 1. The system

One FastAPI process (`main.py`) over PostgreSQL. Three kinds of actors share the
database: request handlers, fire-and-forget tasks created by handlers
(`asyncio.create_task`), and endless background loops started in `lifespan`.
All are coroutines of one event loop: a step between two awaits is atomic, and
anything may happen at an await. Transactions run at READ COMMITTED, so what is
read in one transaction may be stale in the next. All in-memory state, tasks
included, is lost at a restart; the loops start again, the tasks do not. Nothing
coordinates actors except constraints of the schema, conditional UPDATEs and the
order of the steps, and these are what the specifications are about.

| Component | State | Operations | Hard behaviour |
|---|---|---|---|
| Inbound SMS (`services/sms_ingest_service.py`, `services/sms_delivery_monitor_service.py`, three repositories) | `sms_inbound`, `sms_deliveries`, `sms_telegram_links` | Twilio webhook, fan-out, retry monitor, `/link`, Mini App sign-in | repeated and concurrent webhooks, crash inside a fan-out or between sending and recording, monitor and webhook on one row, users deleted during a fan-out |
| Availability monitors (`services/proxy_monitor_service.py`, `services/backend_monitor_service.py`) | `check_status`, `error_since`, `alert_sent` of each row | poll loop, immediate check, create, edit, delete, reorder | overlapping checks over stale snapshots, alert sent after the commit, edits in mid-check |
| Servers and provisioning (`services/server_service.py`, `services/provisioning_service.py`, `infra/file_sd.py`) | `servers`, target files of Prometheus | create, rename, reorder, delete, install task, startup recovery | table and files are not one transaction; deletion against a running playbook; lost tasks |
| Mail ingest and dispatcher (`services/mail_ingest_service.py`, `services/mail_dispatcher_service.py`, five repositories) | `mail_accounts`, `mail_messages`, `mail_telegram_notifications`, `mail_telegram_links` | pushes of messages, statuses and OAuth accounts, passes A (new messages), B (recovery) and C (mailbox down) | repeated and concurrent pushes, recipients cached while rights change, crash between a send and its record or between a stamp and its alert, three channels that write `is_active` |
| Mail catalogue (`services/mail_service.py`, `infra/mail_client.py`) | `mail_accounts`, the aggregator's mailboxes, sent letters | create, OAuth consent, PATCH, delete, reply | two catalogues and no common transaction: lost answers, compensation, repeated calls; the ORM writes only the columns that changed |
| Mini App of mail (`services/mail_service.py`, `repositories/mail_message_repository.py`) | marks of a user on letters | folders, feed by pages, unread count, read, archive, delete | the same scope computed by SQL and row by row; cursors among equal dates; marks of two requests |
| Load notifier (`services/notifier_service.py`) | `notifier_server_state`, alert log | poll | alerts precede the state that suppresses them |
| AI keys (`services/ai_key_monitor_service.py`, balance sync, credit probe) | statuses and balances of a key | three loops, immediate tasks, edit | as for monitors, without a grace window; a sync lasts minutes |
| Documents (`services/document_service.py`) | tree, versions, visibility, tombstones | create, patch, copy, reorder, visibility, delete, external feed | check-then-write of versions, incremental feed by timestamps that commit out of order |
| Attachments (`services/document_attachment_service.py`) | rows and files | upload, delete, copy, read | row and file are not one transaction |
| Teams and users (`services/team_service.py`, `services/user_service.py`) | membership, leaders, channel extras | create, update, delete, from either side | read-then-write of lists, leader must stay a member |
| Roles and sign-in (`services/auth_service.py`, `services/role_service.py`, `api/deps.py`) | users, roles, rights, tokens | login, first password, reset, assignment, roles | rights checked against rows that change before the write |
| Backend users snapshot (`services/backend_users_snapshot_service.py`) | snapshot rows, source state | paged walk, difference, economics, touch | the source changes during the walk |
| Admin APIs of backends (`infra/backend_admin_client.py`, `services/backend_economics_service.py`) | prefix cache, audit log | detect, read, write | a cached prefix outlives its host; a lost reply of a write that was made |
| Bot links and broadcasts (`services/knowledge_bot_link_service.py`, `services/mail_telegram_service.py`, `services/broadcast_service.py`) | three tables of chats | `/start`, sign-in, audience, broadcast | a chat and a username name different people; three queries of one audience |
| SMS catalogue (`services/sms_number_service.py`, `services/sms_sync_service.py`, `services/sms_message_service.py`) | `sms_phone_numbers` | synchronisation, update, transfer, feed | rows written long after they were read; scope in SQL and by row |
| Monitoring reads (`services/monitoring_service.py`, `infra/prometheus.py`) | cache, futures in flight, semaphore | `fetch_for_instances` | requests that share a batch, which fails half-way or outlives its key |
| Tags of mail (`services/mail_service.py`, `repositories/mail_tag_repository.py`) | `mail_tags`, rules, `mail_message_tags` | catalogue, apply-to-existing, tagging of pushes, silent letters | rules change under a statement; a tag deleted under a push |
| Frontend, deployment | none | views, files | none of their own |

Interactions: deleting a user cascades to links and deliveries (a fan-out in
progress notices through a foreign key); a server's status and target file feed
Prometheus and, through it, the notifier; the team of a mailbox or a number
decides who receives what. Telegram, Twilio, Ansible and the monitored hosts are
external: they answer, fail, or fail after having done the work.

## 2. Plan

Done, in this order: SMS delivery, availability monitors, provisioning, mail
delivery and mailbox alerts, which carry the system's promises to people outside
it; then the registries of the console, the catalogues of the bots and the
remaining loops; then the abstract ledger of deliveries and the proofs that SMS and
mail implement it; then the proofs of the availability monitors' alerts, of the
registries of the console, of the loops and of the catalogues. Every safety property
a passing run checks is now also a theorem.

Next:

1. An abstract specification of a table that follows a remote one, which
   `MailCatalog` and `BackendUsersSnapshot` implement where nothing is excused, as
   SMS and mail implement `DeliveryLedger`.
2. Callbacks of the mail bot and `initData` as actions of `MailFeed`.

## 3. Modules

Each component has a module `X.tla` with one action per transaction, external
call or request, and `XProofs.tla` with the theorems about it. The theorems
about the components that a composing module puts side by side are in one module
for all of them, `ConsoleProofs`, `CatalogueProofs` or `LoopsProofs`, a section
for each, and those of `DeliveryLedger` are in `SmsDeliveryProofs`. `MCX.tla` is
there where TLC needs a symmetry set, the value of a function or a choice
between instances, and `MCConsole`, `MCCatalogues` and `MCLoops` put side by
side components that share no state: a behaviour of theirs belongs to one
component. The other configurations name `X` itself. A definition called "Fault:
..." is a plausible mistake in the operation below it: `PROJECT.json` lists for
each property a fault that must violate it, so that no property holds by the
shape of the model. Faults are not part of any next-state relation.

Some variables are history: no action's guard depends on them, they only record
what the properties compare with (who was owed a message, which copies arrived,
which alerts went out). Sets called `excused`, `overlapped`, `stranded`,
`blind`, `raced`, `tangled`, `crossed`, `late`, `doubtful`, `shared`, `torn` and
the like name the situations in which the code knowingly gives a promise up; the
definitions next to them say when something enters, and the properties say that
nothing else breaks the promise.

### SmsDelivery

| Model | Code |
|---|---|
| `Webhook`, `FindBySid`, `StoreSms`, `Resolve`, `Reserve`, `Answer` | `twilio_sms_webhook`, `handle_incoming_sms`, `_deliver`: one action per transaction |
| `Send`, `Mark` | `_send_one`: the Bot API call, then the transaction that stores its outcome |
| `Poll`, `Visit`, `Sleep` | `retry_pending_deliveries` and the loop of the monitor |
| `LinkChat`, `ChangeAccess`, `DeleteUser`, `ToggleBlock` | linking, membership and extras, `delete_user` with its cascades, the operator's Telegram |
| `Restart` | all coroutines are lost; the token may have been changed |

`pc[a]` is the point at which the coroutine of actor `a` is suspended. A row is
referred to by primary key *and* pair, because a pair's row may be deleted by
cascade and made again while somebody holds the old key.

### GraceMonitor

`Poll`, `CheckOne`, `Probe`, `Commit`, `SendAlert` are the two entry points and
the three steps of `_check_snapshot`; `Evaluate` is `evaluate_transition`.
`Create`, `StartEdit`/`FinishEdit`, `Delete` are the CRUD operations; the edit
is two steps because the row is read in one statement and written in another.
Written from the proxy half; `backend_monitor_service.py` repeats it over
another table.

### Provisioning

`CheckHost`/`Insert` is `create_server`, `Delete`/`Unlink` is `delete_server`,
`BeginInstalling`/`Playbook`/`Finish` is `provision_server`,
`RecoverStuck`/`ListOnline`/`Regenerate`/`Serve` is the start of `lifespan`
(`phase`). `Touch` is a rename or reorder: it changes nothing but `updated_at`,
which recovery reads. `Unlink` runs after the commit and may fail as every other
operation of the disk may; `kept` are the deleted servers whose file stayed.

### MailDispatch

| Model | Code |
|---|---|
| `Push`, `SkipUnknown`, `StoreMessage`, `StoreFails`, `AnswerPush` | `POST /ingest` and `MailIngestService.ingest`: the look at the catalogue, then one transaction per message |
| `Poll`, `ListNew`, `SkipDeleted`, `SkipUntagged`, `Load`, `Reserve`, `ReserveFails`, `MarkNotified`, `PushFanout` | `poll_once` and pass A |
| `Send`, `Mark` | the Bot API call of either pass, then the transaction with its outcome |
| `ListPending`, `Retry`, `EndIteration` | pass B and the end of the iteration |
| `CreateMailbox`, `DeleteMailbox`, `ChangeRights`, `Bind`, `ToggleBlock` | the catalogue, users, roles, teams and opt-outs, linking, the user's Telegram |
| `FailIteration`, `Restart` | an exception that `run` catches; a restart |

The dispatcher is one coroutine: `pc` is where it is suspended and `job` the
delivery in its hands. `cache` is `team_cache`; `seesAll` is computed once per
iteration and may be any choice of one live chat per administrator, because the
code keeps the first row of an unordered query. The model has one mailbox and its
team, and a mailbox that is deleted does not come back. Pass B visits all rows it
may select, in any order: its `LIMIT` and the order by `updated_at` are left out.
Whether a message has a tag is a free choice. The bot is configured and the
dispatcher enabled; otherwise the code does nothing.

### MailDown

| Model | Code |
|---|---|
| `Load`, `WriteStatus` | `apply_mailbox_status`: the SELECT, then the UPDATE of `apply_sync_status` (`Applied`) |
| `Load`, `WritePatch`, `RefusePatch` | `update_mailbox` with `is_active`, before and after the call of the aggregator |
| `LinkOauth`, `CreateMailbox`, `DeleteMailbox` | one statement each |
| `Poll`, `ListDowns`, `Resolve`, `Stamp`, `SendAlert`, `EndMailbox`, `EndPass` | pass C |

A request keeps what it saw of the row, because the ORM compares with the loaded
values and writes only the columns that differ; the model would be wrong if a
request wrote the whole row. `outage` counts the transitions of a row to inactive
and `stampOf` remembers the one a stamp was set in. `Owner` says whose chat a chat
is: the list of a team has all live chats of its members, the list of
administrators one live chat of each, any of them (`OneChatEach`), as in
`MailDispatch`.

### DeliveryLedger

What a table of deliveries promises, without the program: a letter goes from no
row to `pending` and on to `sent`, `failed` or `dead`, and one copy of it
arrives, before the row says `sent` and never after it was given up, unless the
promise was waived for it. `SmsDelivery` and `MailDispatch` state
`ImplementsLedger` through a refinement mapping: the status of a row is its
stage, the copies their history records are the arrivals, and what they excuse
(TD-031, a restart between sending and recording, a cascade) is waived.

### Documents and DocumentAttachments

A write is one transaction of two steps, what it reads and checks and what it
writes with the commit, by two writers that overlap (`BeginX` and `FinishX` for
the endpoint X). A copy has two more: it reads its root and checks the target
(`BeginCopy`), reads the rows of the subtree (`load_subtree`) and then their roles
(`roles_for_nodes`), each in a statement that sees what is committed by then.
`updated_at` is the start of the transaction, as PostgreSQL's
`now()` is, which is why rows may become visible behind the reader's watermark.
`ReadChanges` is a page of `/changes`; `mirror` is what the external reader has
made of its pages. `list_visible_tree` computes visibility downwards as the
recursive query does, `Visible` upwards as the check of one node does.

`DocumentAttachments` has the steps of an upload (the file in place, the
commit), of a deletion (the commit, the file removed) and of a copy of a subtree
(rows listed, files staged, the commit), with rewriting of links in the text, and
a reader of the file. `lost` is a volume restored from an older backup.

### Teams and Accounts

`Teams` is the membership written from the team's side and from the user's side:
both read a list and write it later. `raced` are teams two requests worked on at
once. `Accounts` has sign-in, first password, reset, users and roles; a right is
an element of `Catalogue`, and `granted` remembers what anybody who had it has put
in a user's reach.

### Backends and BackendAdmin

`Backends` is the registry: creation, edits, deletion and reordering, the check by
the loop and the immediate task after an edit, each of which stores its verdict by
primary key. `PlaceRow` writes one position and holds its row lock until
`CommitOrder`. `BackendAdmin` is the client of the admin API: a request is a
list of calls, each of which waits for its reply; `_request` tries the prefix it
remembers or both candidates and tells three meanings of a 404 apart.

### BackendUsersSnapshot, Notifier and AiKeys

`BackendUsersSnapshot` follows `refresh`: `_walk_users` and `upsert_rows` take turns
until an incomplete page, then `delete_rows`, `get_stats`, the cards within a quota
(`FetchCard`) and the row of the source (`FinishCycle`); `_touch_snapshot` is the
task the console leaves behind. `revenue` is the contract of the backend, which
may be upgraded between two cards. What the page shows (`_snapshot_at`,
`_snapshot_errors`, `partial` and the sum of `_aggregate_api_costs`) is stated over
these variables, and `cutShort` is a cycle that ended in a crash.

`Notifier` has `evaluate` over zones, the two sessions of `poll_once` and the
alerts in between; `chat` is what the reader of the chat knows. `AiKeys` has for
each kind of task (`check`, `probe`, `sync`) the steps read, ask, store and tell,
from the loop and as an immediate task, on one row. `told` is the last alert of each
kind. An edit loads the row (`LoadKey`) and later commits it (`update_key`,
`reset_balance`): the session writes the columns the edit changed from what it
loaded and no others (`Flushed`). `astray` are the keys whose balance columns came
out otherwise than if the edit had found the row as it is at the commit, or whose
provider was changed beside an identifier cached for the old one.

### Monitoring

The single flight of `fetch_for_instances`: a request takes a value of the cache, the
future of another request or a batch of its own, whose queries pass a semaphore of
the process. A query that fails fails the batch at once, and those that run on are
`strays`, which hold the semaphore and are awaited by nobody. A value is the
moment it was measured at.

### MailCatalog and MailFeed

`MailCatalog`: a request reads rows, calls the aggregator, and writes rows with
what it read. `calls` are the requests, `strays` the calls given up which the
aggregator may still serve, `_compensate_orphan_mailbox` a call like the others.
`MailFeed` has the scope of a user by SQL (`list_mailboxes`, folders, counts)
and row by row (`_load_account_in_scope`, `_load_message_in_scope`), the marks, and
a feed read page by page behind a cursor of date and id.

### MailTags

The global catalogue of tags and rules. A letter is the set of terms its fields
contain and a rule looks for one. Two statements tag letters: that of a push, in the
transaction of the letter, and that of apply-to-existing; each sees the rows
committed when it starts, and checks its foreign keys at the end, so `found` is what
it matched and the commit decides what becomes of it. With tags required, a pass of
the dispatcher reads the names and marks the letter in a later transaction.

### SmsNumbers and TelegramLinks

`SmsNumbers`: update, transfer and synchronisation read and later write by id;
scope is `list_in_scope` in SQL and `sms_matches` by row; a reader pages through the
texts of the phones he may see. `TelegramLinks`: three tables of chats, the
four steps of `_lookup_user` and the steps of the mail bot's `_resolve_user`, a
visit that writes its link in a later statement, people who are renamed,
deactivated and deleted, audiences by SQL, and a broadcast that goes from chat to
chat inside one transaction.

## 4. Runs

| Run | Checks | Instance, and why it is enough |
|---|---|---|
| SmsRelink | `AnsweredMeansReserved`, `DeliveriesHold`, `ImplementsLedger`, `RetryableSettles` | two instances side by side: 2 chats and a handler, so that a fan-out can stop half-way and be repeated; 2 handlers, which race for the insert of one sid, and 2 changes by people on one chat. Each with the monitor, a limit of 2 attempts and 1 crash; with fairness |
| GraceChecks | `OneRedPerOutage`, `FlagMeansAlert`, `OutageReported`, `RowTellsTruth` | grace of 2 on a clock of 4 instants, poller and 1 immediate check that overlap, 1 change of the network, 2 changes by people, 1 crash, 1 lost alert; with fairness |
| GraceGreen | `GreenOnlyAfterRed` is violated | a restart between commit and send (section 6) |
| Provision | `OnlineHasTarget`, `TargetIsInstalled`, `OrphansAreRaced`, `InstallationSettles` | 2 servers, 2 addresses, 2 requests, 1 restart, 1 fault of the disk (a write or a removal) or database, a clock long enough for a row to look stuck; with fairness |
| ProvisionDelete | `DeletedIsNotScraped` is violated | 1 server deleted during its playbook (section 6) |
| MailFanout | `AnsweredMeansStored`, `NotifiedMeansReserved`, `FannedOnce` | 1 message, 2 handlers and 2 pushes (concurrent, or repeated after a lost answer), a user with 2 chats who may be in the team, an administrator, both or neither, any of the chats linked at first, tags optional, 1 crash and 2 changes at any point |
| MailQueue | `RetriesRemain`, `ImplementsLedger`, `MessageSettles` | 2 messages in 2 overlapping batches, a dispatcher batch of 1, limit of 2 attempts, 1 crash; with fairness |
| MailDowntime | `StampIsFresh`, `StampMeansTold`, `OutageNoticed` | two instances side by side: 2 overlapping requests while every alert reaches the one chat that is picked; 1 request at a time, an administrator with 2 chats, of which an iteration picks one, and 1 block or lost alert. Each with 2 mailboxes, a batch of 1, 3 writes (down, up and down again), new links and 1 crash; with fairness. Several administrators and the members of a team are covered by the proofs |
| MailReenable | `StampOfThisOutage` is violated | PATCH only (section 6) |
| Console | `DocumentsHold`, `FeedLosesNothing`, `VersionNamesContent`, `AttachmentsHold`, `TeamsHold`, `AccountsHold`, `BackendsHold`, `AdminHolds` | documents: 4 nodes (a copy of a folder with a child), 2 transactions that may overlap, a page of 1 so that a walk is interrupted after every node; attachments: 2 requests at a time, 3 files and 4 documents; teams and accounts: 2 people, 2 teams, 3 roles of which 2 exist at first, 3 requests of which 2 overlap; backends: 3 rows to order, 2 domains, a lost check; admin API: 2 hosts, 2 operators, 1 fault |
| Catalogues | `MailboxesHold`, `LettersHold`, `NumbersHold`, `LinksHold`, `NumbersMoveByTransfer`, `ChatStaysWithPerson` | mailboxes: 2 of them, 2 requests at once, 1 lost answer or commit, 2 tries of a call; feed: 3 letters on 3 dates, equal ones included, pages of 1, 3 events between pages; tags: 2 tags, 2 terms, 1 letter that may be pushed before, during and after 4 changes; numbers: 2 numbers, 2 teams and none, 3 texts; links: 2 people, 2 chats, 2 usernames, 2 overlapping visits and 2 changes |
| Loops | `KeysHold`, `SnapshotHolds`, `ReadersHold`, `LiveStaysListed`, `LoopsSettle` | keys: a key under check and probe, or under sync, 2 edits by one editor whose read and commit the tasks cross, 1 change or crash; snapshot: 4 users, pages of 2 and a quota of 1, 4 changes at the backend, 1 failure or repeated page; notifier: 2 servers, so that one's deletion fails the other's commit, 3 changes of load, 1 failure; metrics: 2 requests at a time and 4 in all, for 2 pages of 2 queries, a semaphore of 2 that one batch fills, a value that expires, 1 failed query; with fairness |

`DeliveriesHold` and the properties named `XHold` or `XHolds` are conjunctions of
invariants their modules state. Those of the three composing modules are
asked of the behaviours of one component each (`part = "teams" => ...`), because
the state of the others never changes there; each includes the component's type
invariant. `LettersHold` is about the feed and the tags, `ReadersHold` about the
notifier and the reads of metrics, and `LoopsSettle` is the conjunction of the
liveness properties of the loops and of `AskersAreAnswered`. Every property of a
passing run has a mutant in `PROJECT.json`: a definition as a plausible bug would
have it, under which the run finds the property violated.

Bounds are constants and appear in guards: the clock (`MaxTime`), restarts
(`MaxCrashes`), changes by people (`MaxChanges`, `MaxConfig`, and `Max...Requests`
or `Max...Steps` in the registries), the network (`MaxFlips`), lost alerts
(`MaxLost`), faults (`MaxFaults`, `Max...Trouble`), primary keys (`SmsIds`,
`Servers`, `MaxNodes`). The number of attempts and of retries is not bounded by
the model but by the code's own limit. `CHECK_DEADLOCK FALSE` is set where the
system may stop: with the clock at its bound and every row deleted nothing is
left to do, and requests come to an end when their bound is spent. The SMS and
mail runs check deadlock: a webhook can always come and the dispatcher always
polls again.

Symmetry is used in MailFanout only, a safety run, over sets whose members the
specification never compares with anything but each other.

Fairness is weak, and only of what the event loop itself keeps going: a
coroutine that can go on does (`Send`, `Mark`, the steps of a handler or a task,
the loops, the start), because every external call has a timeout. Requests,
edits, restarts, Telegram's answers and the network have no fairness. In the
mail modules only the dispatcher's loop is fair (`Dispatch`, `PassC`): `run`
catches every exception and polls again, and pushes may stop for ever. In
GraceMonitor the clock is fair too: time passes. In Loops the fair steps are those
of `run` of the three loops, of the tasks an edit has created, and of the touches
of the console; their `run` methods catch every exception as well. A query to
Prometheus has a timeout and a bounded number of attempts, and its batch goes on
when it ends (`MetricsStep`); whether and when somebody asks is not fair. What the
provider, the backend and the servers do has no fairness, and the properties say
what follows once they come to rest, which the bounds on their changes make them
do.

## 5. What is proved

TLAPS checks, for every value of the constants that satisfies the modules'
assumptions (disjointness of the special values, natural bounds, a finite set of
mailboxes, phones or rules where the code orders or counts them, at least one team,
number or username where the initial state has one; nothing else about sizes):

- `SmsTypeCorrect`, `SmsAnsweredMeansReserved`, `SmsOneMessagePerSid`,
  `SmsSentMeansDelivered`, `SmsAttemptsBounded`, `SmsDeliveriesHold`,
  `SmsImplementsLedger`, and `LedgerIsTrue`, what the reader of any table that
  implements the ledger may rely on (`SmsDeliveryProofs`);
- `GraceTypeCorrect`, `GraceRowsCoherent`, `GraceOneRedPerOutage`,
  `GraceFlagMeansAlert`, `GraceWindowNotReopened`;
- `ProvisionTypeCorrect`, `ProvisionOnlineHasTarget`,
  `ProvisionTargetIsInstalled`, `ProvisionOrphansAreRaced`;
- `MailDownTypeCorrect`, `MailDownStampIsFresh`, `MailDownToldOnce`,
  `MailDownStampMeansTold`;
- `MailTypeCorrect`, `MailAnsweredMeansStored`, `MailFannedOnce`,
  `MailNotifiedMeansReserved`, `MailRetriesRemain`, `MailImplementsLedger`
  (`MailDispatchProofs`);
- `DocumentsCorrect`, `AttachmentsCorrect`, `TeamsCorrect`, `AccountsCorrect`,
  `BackendsCorrect`, `AdminCorrect`, each of the specification of its component, and
  `ConsoleDocuments`, `ConsoleFeed`, `ConsoleVersions`, `ConsoleAttachments`,
  `ConsoleTeams`, `ConsoleAccounts`, `ConsoleBackends`, `ConsoleAdmin`, of the
  specification the run Console checks (`ConsoleProofs`);
- `CatalogCorrect`, `FeedCorrect`, `TagsCorrect`, `NumbersCorrect`, `LinksCorrect`,
  each of the specification of its component, and `CatalogueMailboxes`,
  `CatalogueLetters`, `CatalogueNumbers`, `CatalogueNumbersMove`, `CatalogueLinks`,
  `CatalogueChatsStay`, of the specification the run Catalogues checks
  (`CatalogueProofs`);
- `LoopsLiveStaysListed`, `LoopsSnapshot`, `LoopsKeys`, `LoopsReaders`
  (`LoopsProofs`).

The type theorems, `SmsSentMeansDelivered` and `SmsAttemptsBounded` (two parts
of `DeliveriesHold`), `GraceRowsCoherent`, `GraceWindowNotReopened`,
`MailDownToldOnce` and `LedgerIsTrue` have no run of their own: they are what
the others rest on, or follow from the proof alone. `SmsOneMessagePerSid` has no
run because the SMS instances store one message each, to afford two chats or two
concurrent webhooks, and leave two rows of one sid to the proof.

Inductive invariants:

- `AnsweredMeansReserved` does not survive a step on its own: `Answer` must know
  that a handler with an empty list has covered everybody. `AnsweredInv` adds
  that a handler in its fan-out has, for every chat owed its message, either a
  reservation or an entry in its list (`NobodyForgotten`), that a handler past
  the lookup holds a stored message (`HandlerHasMessage`), and that existing
  rows are in the ledger (`LedgerInv`).
- `SentMeansDelivered` needs that whoever is about to record `sent` has delivered.
- `AttemptsBounded` counts the attempt in flight: a row is at its limit plus one only
  when nobody who holds it from before may still write (`Tried`); that the webhook
  that reserved a row is the only one to hold it so needs that ids are fresh
  (`FreshIds`) and that what an actor holds he holds alone, but for the race with the
  monitor which the design accepts (`OwnHands`).
- `OneCopy` and the refinement are proved of pairs that nobody has excused (`Sure`):
  such a pair has a copy only if its row says `sent` or its one holder has sent it
  and not recorded it yet. `LedgerStep` then maps every step to one of the ledger's
  or to a stutter, and a step that excuses pairs to `Waives`.
- `RowsCoherent` needs every snapshot and verdict in flight to be coherent
  (`AllCoherent`): a stale writer then installs an old row but never a mixed one.
  `EvaluateCoherent` is the lemma that `evaluate_transition` keeps coherence.
- `OneRedPerOutage` and `FlagMeansAlert` (`GraceInv`) are about proxies whose checks
  never overlapped: the one check under way follows the outage of the row
  (`Follows`), although an edit may have set the row to `pending` meanwhile; a red
  verdict raises the flag (`Grows`), and the flag remembers the alert until the
  outage ends (`Told`, `Telling`, `Explained`). A row deleted under its check is the
  case a test would hardly reach.
- `ProvisionInv` adds what holds while the process starts (`Quiet`: no task and
  no request), that a registered task has its file and its installation, and that
  a task without a row was raced by a deletion. A removal that fails enters its
  server in `kept` only if there is a file.
- `StampIsFresh` needs to know which recoveries in flight have not seen the stamp
  of their row (`BlindIsExcused`): they are the writes that may strand it.
- `ToldOnce` needs that an outage without a stamp is newer than the last stamp
  (`UnstampedIsNew`) and that what was heard is not newer than it (`HeardIsPast`),
  so that the alerts of a new stamp are new to every chat (`TargetsAreNew`).
- `StampMeansTold` needs that a chat that never blocked the bot stays linked, that
  the lists of an iteration contain every such chat of a member and, of an
  administrator none of whose chats ever blocked it, one (`ResolvedOwed`; who is owed
  one of a group of chats is in `Creditors`), and that while alerts are sent the group
  is told, lost or still waiting (`SendingOwed`). `StepKinds` reduces the writers of
  `is_active` to one shape (`RowWritten`) for these three proofs.
- `AnsweredMeansStored` needs that an ingest has accounted for what it has taken
  from its batch: stored, counted as unknown, or gone with the mailbox (`Accounted`).
- `FannedOnce` needs that a message that was fanned out is marked or gone for good
  (`Settled`, kept by `FateKept`) and on the list only if gone (`FanInv`), and that
  what is listed or in hand was stored (`ListedInv`) and cannot be stored anew
  meanwhile.
- `NotifiedMeansReserved` is the hardest. The cache and the list of administrators
  are of the moment they were read; a debt that outlives the iteration was in them
  (`DebtInv`), and the message in hand owes nobody but its targets (`CoverInv`).
  Chats that became an administrator's since the poll (`newcomers`) are the ones
  the list misses; a message that arrives afterwards does not owe them.
- `RetriesRemain` needs that a task of pass B holds its row alone, as it was read
  (`BacklogInv`), so that the limit computed from the snapshot is that of the row.
- The refinement of the ledger needs that a letter that is not waived has a copy
  only if its row says `sent` or is about to (`CopyInv`); the end of an iteration,
  however it comes, waives the letter it leaves between the two.

- Documents (`DocumentsInv`): identifiers are given out in order, so the way up from
  a node is a recursion over smaller numbers (`AncestorsEq`, `LiveChainEq`,
  `Climbs`), and the list computed downwards is the check computed upwards.
  `StrandedInv` says who has a live parent; `DocReqOK` what a transaction in flight
  may rely on of what it read: nodes stay, do not move and do not come back to
  life (`TreeKeeps`), and a deletion knows the whole subtree of its moment. A copy
  that has read the roles of its rows knows of each row that inherits that it has
  none, unless its mode had changed since the row was read (`torn`).
  `FeedLosesNothing` needs the cursor to be no further back than the watermark and
  the reader's texts to be no newer than the rows (`FeedInv`, `VersionsInv`).
- Attachments: a file is held by the request that will commit its row or is
  settled for good (`Settled`): its row can only go, its file cannot come back.
  What a copy leaves uncopied must not be shown by the documents copied
  (`ListedOK`, `StagedOK`), whatever is deleted between its steps.
- Backends: a reorder has placed a prefix of its list on its numbers (`PlacedOK`)
  and holds the locks of these rows; a check asks the domain of its row, unless the
  row was resited under it (`ChecksFollow`).
- Admin API: a request sees what the prefix tells (`Sees`): it asks the prefix that
  works, or the candidates it has passed by do not; an edit that was made is
  still in the hands of the request that made it (`Undone`, `Done`), which needs
  the numbers of requests to be their own.
- Accounts: what a request has read of a user is still so until a commit tangles it
  (`HasRead`), and the roles it is going to give are within its rights although
  they may be changed or removed before the write; `UserWritten` is the shape of
  every commit.
- Teams: a request from the team's side has its new leader among its members, and
  reads the leader that is there until it is crossed; one from the user's side
  knows exactly which of the teams it works on he is in or leads. `Beside` is what
  a commit may do to the teams it does not work on, which is why those not raced
  stay as they were read.
- Mailboxes (`CatalogInv`): an identifier the aggregator has not given yet has no row
  and nobody works on it (`FreshOK`), and at most one call or consent works on a
  mailbox that is not shared (`LoneOK`). An edit knows the names of its row and
  derives the one it writes (`PatchRow`). `Halfway` says for each call what it has
  made of its mailbox so far, until its end makes row and mailbox agree again: a
  mailbox created has no row yet, one deleted still has. A call that was given up
  can only touch mailboxes that are doubtful, and a letter not served yet has not
  gone, by whichever call it is still to go (`LettersOK`).
- Feed (`FeedInv`): no page shows a letter below its cursor, and a letter that stays
  in the folder was shown or is below it (`WalkShows`); the cursor is the last of a
  finite page, which is why letters of equal dates need the order by id. An unmark
  holds the row of the moment it was read, unless another request crossed it
  (`MarksOK`).
- Tags (`TagsInv`): what a push has found are the tags of the rules of that moment;
  of tags whose rules stay, they are those of the rules now, and the letter stored
  has them all unless one of them is gone. Apply-to-existing has found what matches
  among the letters it saw, and those stored since were tagged by their push. A turn
  of the dispatcher that read no names has a letter that was due none, or lost one.
- SMS numbers (`NumbersInv`): rows have the first identifiers and phones of their own,
  which needs the counting of the missing numbers a synchronisation inserts
  (`GreatestMember` and what follows it). A transfer under way was asked of a number
  its clerk could change; a text that was in scope all the while was shown or is on a
  page to come.
- Links (`LinksInv`): a link names somebody who is there, whatever happened between
  the lookup of a visit and its write; the chats a broadcast has marked have live
  links, which stay locked until its end; and a visit that read a live link is about
  the person it names. A visit therefore gives a chat to somebody else only if the
  link it read was another's, which is `ChatStaysWithPerson`.
- Keys (`KeysInv`): as long as tasks of a kind run one by one, the status in the row
  is the memory of what was told last, or the task that tells is on its way
  (`Follows`, `Agrees`); for a sync, what it asked with is still in the row. The
  commit of an edit gives a row of which the balance is either what the edit makes of
  the present row, which keeps the invariant (`WholePatch`), or astray.
- Notifier: once the alerts still in the outbox are said, the chat knows what was
  seen (`Reaches`), whatever an iteration that failed before has said or not.
- Metrics: a key is taken by the request whose batch runs, every request waits for a
  batch of its key, and what a batch has heard is not older than what was shown.
- Snapshot (`ListingInv`): whom the walk knew at its start it has met, or has still
  before it, as long as the list did not get shorter nor a page repeat.
  `PageInv` adds that between cycles the stored sum is that of the rows.

Some of these proofs failed at first because the model was wrong, and corrected
it: a copy of nodes whose visibility two requests were setting
carries their disagreement along (`crossed` in `Documents`), and so does a copy
that reads a row and its roles on either side of such a change; what an edit of a key
resets had two overlapping cases (`Edited` in `AiKeys`); a page that repeats can
pass for the next one (`repeated`, section 6).

Only model-checked: every liveness property (fairness and ENABLED are out of the
prover's reach): `RetryableSettles`, `OutageReported`, `RowTellsTruth`,
`InstallationSettles`, `MessageSettles`, `OutageNoticed` and `LoopsSettle`.
Nothing in the modules with theorems is a RECURSIVE operator; the recursive
functions of `Documents` are used through the equations that define them, and
induction over data is not needed.

## 6. Disagreements with the documentation

- **A recovery is announced without its outage** (`GraceGreen`).
  `docs/modules/proxies/README.md` promises that the green alert is sent only if
  the red one was, across restarts. `_check_snapshot` commits `alert_sent` and
  then sends; a restart in between loses the red alert, and the recovery is
  announced all the same.
- **A deleted server is scraped again** (`ProvisionDelete`).
  `docs/09-provisioning.md` says that DELETE removes the target file and
  Prometheus stops scraping. A playbook that ends after the deletion writes the
  file again, without looking at the row, and nothing removes it later.
- **A re-enabled mailbox keeps its stamp** (`MailReenable`).
  `docs/modules/mail/README.md` promises one alert per transition and a reset of
  `down_alert_sent_at` when a mailbox is re-enabled. A PATCH and an OAuth
  notification re-enable without the reset, and the status channel, which then
  sees an active row, has no transition to act on: the next outage is silent.
  The status channel breaks the same property alone, with `Channels = {"status"}`
  and two requests: the handler assigns NULL to an attribute it loaded as NULL,
  which the ORM does not write, and a stamp set in between survives.

Met while modelling, without a run: the list of runs is kept to one for each
question, and these are smaller. Those with a name are stated in their modules
as a property that does not hold; adding it to the configuration named shows a
counterexample.

| Promise | Where | What the code does |
|---|---|---|
| `InactiveIsPassedOver` (Catalogues) | docstring, `services/knowledge_bot_link_service.py:93` | a link to somebody inactive ends the lookup (lines 94–104) instead of leaving it to the next step |
| `PrefixWorks` (Console) | `docs/adr/ADR-069` lines 39–40, comment at `infra/backend_admin_client.py:399` | any reply but 404, an error of the gateway included, pins the candidate prefix (line 375) |
| `TruncatedTailWaits` (Loops) | docstring, `services/backend_users_snapshot_service.py:475` | a changed user beyond the quota whose row had a price keeps the old price and is not in the backfill's queue |
| `CompleteHasNoGap` (Loops) | docstring of `_api_costs`, `services/backend_user_service.py` | a sum is called complete without the costs of some users after an upgrade of the backend, or after a cycle that broke off once a card was priced |
| `VisibilityMovesUpdatedAt` (Console, as a PROPERTY) | `docs/modules/documents/README.md:79` | replacing the roles of a restricted node leaves `updated_at` as it is, and the change never reaches the feed |
| `MembersHaveLeader` (Console) | `docs/08-design-system.md:2031`, `docs/modules/teams/README.md:37` | a user created into an empty team without a leader is a member of a team that has none |

A page of users that a backend repeats is recognised by having no new user
(`services/backend_users_snapshot_service.py:412`,
`docs/modules/backend-users/README.md:233`). When somebody has registered since, the
repeated page has one and is taken for the next; the walk may then end early as
complete, and users the backend still has are deleted from the snapshot.
`LiveStaysListed` excuses this case (`repeated`), which its proof brought up.

Also met, smaller still: the docstring of `sees_all_candidates` speaks of all live
links, and its dictionary keeps one per user in no defined order (`OneChatEach`).
Tokens and subscriptions are audited after strict validation of the reply only
(`api/backend_users.py:104`). Every IntegrityError of a backend, a vanished site
included, is answered as `backend_code_taken`. Overlapping PATCHes of a mailbox
leave a display name that is not the derived one. `unmark_read` may drop a mark
that archives the letter. A commit that fails after the mailbox was created, and a
consent that ends with its team deleted, leave a mailbox of the aggregator without
a row. A transfer to a team deleted meanwhile is a 500. `upsert_orphan` does not
revive a dead link. A broadcast may bury a chat linked again meanwhile, and one that
breaks off forgets the chats it found dead. Overlapping `set_visibility` leave role
rows on a node that inherits, and one that commits between the two reads of a copy
(`services/document_service.py:307-308`) leaves them on the copy. A target file that
cannot be removed (`infra/file_sd.py:79`) is a 500 after the row is gone: DELETE
again is a 404, and the file stays. A node created or copied under a folder that is being
deleted stays live below a tombstone. Rows that commit out of the order of their
timestamps are missed by a reader of the feed. A balance sync in flight rewrites the
balance of a key switched off meanwhile (`docs/modules/ai-keys/README.md:86`). A PATCH
of a key that loaded `provider_api_key_id` as NULL does not write the NULL it
assigns, so the identifier a sync has stored for the old key since stays beside the
new one; a PATCH of the provider alone leaves the cached identifier as it is, and
starts the check over, so that an error may be announced once more. A card
that always fails starves the ones after it. A tag deleted while a letter is stored
takes all the letter's tags with the savepoint and, with tags required, its
notification. A letter pushed against older rules is missed by apply-to-existing.
Cached metrics are stamped when their batch ends, so they may be older than the
TTL. The properties name these cases in the sets that excuse them.

## 7. What is not modelled

Content of messages, formatting, phone and name normalisation, signatures of
requests, credentials and encryption, the steps inside a playbook, HTTP details of
probes: one nondeterministic outcome each. A request that is cancelled by the
client goes on to its end, as it does under the server used here; cancellation at
shutdown is the restart.

Of modelled components: the callbacks and the settings of the mail bot and the
verification of `initData`, which write one row each; profile fields, ordering of
siblings and slugs of documents; texts of alerts, names and colours of tags; the
fields of products and tariffs; units and zones of metrics. The right to assign any
role (`assign_any`) is left out of `Accounts`. `MAX_PAGES` ends a walk as a
stalled page does. A page of SMS texts is one step, and its reader uses one filter
at a time where the code intersects those it is given. The reads a document request
makes before it writes are one step but for a copy's. A failure of
`_record_failure` itself (`BackendUsersSnapshot`) leaves what a crash at that point leaves.

Not modelled at all: the frontend (`src/frontend`), which keeps no state of the
system; migrations; deployment files; `config.py`, `errors.py` and the schemas, which
are declarations; the rate limiter and the expiry of tokens.
