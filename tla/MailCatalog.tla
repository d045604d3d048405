---------------------------- MODULE MailCatalog ----------------------------
(***************************************************************************)
(* The catalogue of mailboxes and what leaves through them                 *)
(* (services/mail_service.py, infra/mail_client.py).  Mailboxes live at    *)
(* the aggregator, a separate service which alone holds their credentials; *)
(* mail_accounts says whose they are and what they are called, and         *)
(* mail_sent_messages what was sent from them.  A request reads rows,      *)
(* calls the aggregator for up to 85 s, and writes rows with what it read. *)
(* The aggregator may serve a call after the CRM has given it up.          *)
(* Who may ask is in MailFeed, is_active and its channels in MailDown.     *)
(***************************************************************************)
EXTENDS Naturals, Sequences

CONSTANTS
  Boxes,             \* identifiers the aggregator assigns, in order
  Numbers,           \* values of "number"
  Apps,              \* values of "app_name"
  NoName,            \* a number or an app_name of NULL
  MailTeams,         \* teams of the CRM
  NoTeam,            \* a team_id of NULL
  MaxMailCalls,      \* bound on requests
  MaxTries,          \* len(_BACKOFF_DELAYS_SEC) + 1
  MaxMailTrouble     \* bound on lost answers, refusals and failed commits

ASSUME MailCatalogAssumption ==
  /\ Boxes \subseteq Nat \ {0} /\ MailTeams # {} /\ NoTeam \notin MailTeams
  /\ Numbers # {} /\ NoName \notin Numbers \cup Apps
  /\ MaxMailCalls \in Nat /\ MaxTries \in Nat \ {0} /\ MaxMailTrouble \in Nat

VARIABLES
  boxes,             \* the aggregator's mailboxes, with the names it was told
  accounts,          \* mail_accounts
  mailTeams,         \* teams that exist
  calls,             \* what each request is doing, in the order they began
  strays,            \* calls given up which the aggregator may still serve
  consents,          \* Outlook consents asked for, and those given and not yet told
  letters,           \* how often the letter of each request has gone out
  sentRows,          \* mail_sent_messages, by request
  mailBegun,         \* requests begun
  mailTrouble,
  doubtful,          \* mailboxes that trouble came to
  shared             \* mailboxes that two requests worked on at once

catalogVars == <<boxes, accounts, mailTeams, calls, strays, consents, letters, sentRows,
                 mailBegun, mailTrouble, doubtful, shared>>

NoBox == [state |-> "none"]
Requested == 1 .. MaxMailCalls

\* mail_sent_messages: a letter and the mailbox it was sent from.
MailSentMessage == [n : Requested, box : Boxes]

Free == [op |-> "none", at |-> "none"]

\* domain/mail.py.  A name is the list of its parts.
build_display_name(number, app) ==
  CASE number = NoName /\ app = NoName -> <<>>
    [] number # NoName /\ app = NoName -> <<number>>
    [] number = NoName /\ app # NoName -> <<app>>
    [] OTHER -> <<number, app>>

parse_display_name(name) ==
  LET first == IF name # <<>> /\ name[1] \in Numbers THEN name[1] ELSE NoName
      rest == IF first = NoName THEN name ELSE Tail(name)
  IN  [number |-> first, app |-> IF rest = <<>> THEN NoName ELSE rest[1]]

AccountRow(number, app, team) ==
  [number |-> number, app |-> app, name |-> build_display_name(number, app), team |-> team]

\* _ensure_team_exists, and what a foreign key accepts.
Insertable(team) == team = NoTeam \/ team \in mailTeams

IsRow(b) == accounts[b] # NoBox
AliveAt(b) == boxes[b].state = "live"

-----------------------------------------------------------------------------
CountedCall == mailBegun < MaxMailCalls /\ mailBegun' = mailBegun + 1
Goes == mailTrouble < MaxMailTrouble /\ mailTrouble' = mailTrouble + 1

WorkedOn(b) ==
  \/ \E c \in Requested : calls[c] # Free /\ calls[c].box = b
  \/ \E r \in strays : r.box = b
  \/ \E g \in consents : g.box = b

\* A request of a mailbox (0 when there is none yet): it waits for the aggregator,
\* or has nothing to ask it.
Request(op, b, at) ==
  [op |-> op, n |-> mailBegun + 1, box |-> b, at |-> at, tries |-> 0, verdict |-> "ok",
   fields |-> {}, team |-> NoTeam, number |-> NoName, app |-> NoName, name |-> <<>>, old |-> NoBox]

Start(r) ==
  /\ CountedCall
  /\ calls' = [calls EXCEPT ![mailBegun + 1] = r]
  /\ shared' = IF r.box # 0 /\ WorkedOn(r.box) THEN shared \cup {r.box} ELSE shared
  /\ UNCHANGED <<boxes, accounts, mailTeams, strays, consents, letters, sentRows, mailTrouble,
                 doubtful>>

create_mailbox ==
  \E team \in mailTeams \cup {NoTeam}, number \in Numbers \cup {NoName}, app \in Apps :
    Start([Request("create", 0, "call") EXCEPT !.team = team, !.number = number, !.app = app,
                                               !.name = build_display_name(number, app)])

\* The values after the edit, of a row read before the call.
effective(old, fields, number, app) ==
  [number |-> IF "number" \in fields THEN number ELSE old.number,
   app |-> IF "app" \in fields THEN app ELSE old.app]

\* update_mailbox: a mailbox moves to a team that is there; a move alone asks
\* the aggregator nothing.
update_mailbox(b) ==
  \E fields \in (SUBSET {"number", "app", "team"}) \ {{}} :
  \E number \in Numbers \cup {NoName}, app \in Apps \cup {NoName}, team \in MailTeams \cup {NoTeam} :
    /\ IsRow(b)
    /\ "number" \notin fields => number = NoName
    /\ "app" \notin fields => app = NoName
    /\ IF "team" \in fields THEN Insertable(team) ELSE team = NoTeam
    /\ LET new == effective(accounts[b], fields, number, app)
           renames == fields \cap {"number", "app"} # {}
       IN  Start([Request("patch", b, IF renames THEN "call" ELSE "served") EXCEPT
                    !.fields = fields, !.team = team, !.old = accounts[b],
                    !.number = new.number, !.app = new.app,
                    !.name = build_display_name(new.number, new.app)])

delete_mailbox(b) == IsRow(b) /\ Start(Request("delete", b, "call"))

sync_mailbox(b) == IsRow(b) /\ Start(Request("sync", b, "call"))

\* reply and compose: a letter, checked before the call.
compose(b) == IsRow(b) /\ Start(Request("send", b, "call"))

-----------------------------------------------------------------------------
\* What the aggregator does.  It tests and stores, or answers 404.
NextBox == CHOOSE b \in Boxes : boxes[b] = NoBox /\ \A a \in Boxes : a < b => boxes[a] # NoBox

Target(r) == IF r.op = "create" THEN NextBox ELSE r.box

CanServe(r) == r.op = "create" => \E b \in Boxes : boxes[b] = NoBox

Verdict(r) == IF r.op = "create" \/ AliveAt(r.box) THEN "ok" ELSE "missing"

Served(r) ==
  LET b == Target(r) IN
    IF Verdict(r) = "missing" THEN boxes
    ELSE IF r.op \in {"create", "patch"}
         THEN [boxes EXCEPT ![b] = [state |-> "live", name |-> r.name]]
    ELSE IF r.op \in {"delete", "cleanup"} THEN [boxes EXCEPT ![b].state = "gone"]
    ELSE boxes

Posted(r) ==
  IF r.op = "send" /\ Verdict(r) = "ok" THEN [letters EXCEPT ![r.n] = @ + 1] ELSE letters

ServeCall(c) ==
  LET r == calls[c] IN
    /\ r.at = "call" /\ CanServe(r)
    /\ boxes' = Served(r) /\ letters' = Posted(r)
    /\ calls' = [calls EXCEPT ![c].at = "served", ![c].box = Target(r), ![c].verdict = Verdict(r)]
    /\ UNCHANGED <<accounts, mailTeams, strays, consents, sentRows, mailBegun, mailTrouble,
                   doubtful, shared>>

ServeStray(r) ==
  /\ CanServe(r)
  /\ boxes' = Served(r) /\ letters' = Posted(r)
  /\ strays' = strays \ {r} /\ doubtful' = doubtful \cup {Target(r)}
  /\ UNCHANGED <<accounts, mailTeams, calls, consents, sentRows, mailBegun, mailTrouble, shared>>

-----------------------------------------------------------------------------
\* The client.  Ends of a call that failed: the cleanup of a mailbox without a
\* row is not tried again.
GiveUpOn(c, lost) ==
  LET r == calls[c] IN
    /\ calls' = [calls EXCEPT ![c] = Free]
    /\ doubtful' = IF r.box # 0 /\ (lost \/ r.op = "cleanup") THEN doubtful \cup {r.box} ELSE doubtful

\* _request_with_retries: only a connection that was not made is tried again.
RetriedOn == {"connect"}

\* A call that never left; one that is refused with nothing done; one given up
\* while it is on its way or its answer is (a read timeout, the deadline, 504).
CallFails(c) ==
  LET r == calls[c] IN
    /\ Goes
    /\ \E why \in {"connect", "refused", "timeout"} :
         /\ IF why = "timeout" THEN r.at \in {"call", "served"} ELSE r.at = "call"
         /\ r.op = "patch" => r.fields # {"team"}
         /\ strays' = IF why = "timeout" /\ r.at = "call" THEN strays \cup {r} ELSE strays
         /\ IF why \in RetriedOn /\ r.tries + 1 < MaxTries
            THEN /\ calls' = [calls EXCEPT ![c].at = "call", ![c].tries = @ + 1]
                 /\ UNCHANGED doubtful
            ELSE GiveUpOn(c, why = "timeout")
    /\ UNCHANGED <<boxes, accounts, mailTeams, consents, letters, sentRows, mailBegun, shared>>

\* _map_rejected and _map_reply_rejected: 404 is an answer to all but DELETE.
Missing(c) ==
  LET r == calls[c] IN
    /\ r.at = "served" /\ r.verdict = "missing" /\ r.op # "delete"
    /\ GiveUpOn(c, FALSE)
    /\ UNCHANGED <<boxes, accounts, mailTeams, strays, consents, letters, sentRows, mailBegun,
                   mailTrouble, shared>>

-----------------------------------------------------------------------------
\* What the request does with the answer, to the commit.
Answered(c, op) ==
  /\ calls[c].op = op /\ calls[c].at = "served"
  /\ calls[c].verdict = "ok" \/ op = "delete"

Finished(c) ==
  /\ calls' = [calls EXCEPT ![c] = Free]
  /\ UNCHANGED <<boxes, mailTeams, strays, consents, letters, mailBegun, mailTrouble, doubtful,
                 shared>>

FinishCreateMailbox(c) ==
  LET r == calls[c] IN
    /\ Answered(c, "create") /\ Insertable(r.team)
    /\ accounts' = [accounts EXCEPT ![r.box] = AccountRow(r.number, r.app, r.team)]
    /\ Finished(c) /\ UNCHANGED sentRows

\* Fault: the mailbox of a row that cannot be stored is left to the aggregator.
_leave_orphan_mailbox(c) == [calls EXCEPT ![c] = Free]

_compensate_orphan_mailbox(c) ==
  [calls EXCEPT ![c].op = "cleanup", ![c].at = "call", ![c].tries = 0]

\* A team that has gone since it was checked fails the insertion.
InsertFails(c) ==
  /\ Answered(c, "create") /\ ~Insertable(calls[c].team)
  /\ calls' = _compensate_orphan_mailbox(c)
  /\ UNCHANGED <<boxes, accounts, mailTeams, strays, consents, letters, sentRows, mailBegun,
                 mailTrouble, doubtful, shared>>

\* The session writes the columns that differ from the row it has read.
Written(r, now) ==
  [number |-> IF r.number # r.old.number THEN r.number ELSE now.number,
   app |-> IF r.app # r.old.app THEN r.app ELSE now.app,
   name |-> IF r.name # r.old.name /\ r.fields # {"team"} THEN r.name ELSE now.name,
   team |-> IF "team" \in r.fields /\ r.team # r.old.team THEN r.team ELSE now.team]

\* A row or a team that has gone meanwhile fails the request, after the
\* aggregator has done its part.
FinishUpdateMailbox(c) ==
  LET r == calls[c] IN
    /\ Answered(c, "patch")
    /\ IF IsRow(r.box) /\ Insertable(Written(r, accounts[r.box]).team)
       THEN /\ accounts' = [accounts EXCEPT ![r.box] = Written(r, @)]
            /\ UNCHANGED doubtful
       ELSE doubtful' = doubtful \cup {r.box} /\ UNCHANGED accounts
    /\ calls' = [calls EXCEPT ![c] = Free]
    /\ UNCHANGED <<boxes, mailTeams, strays, consents, letters, sentRows, mailBegun, mailTrouble,
                   shared>>

SentElsewhere(b) == {s \in sentRows : s.box # b}

FinishDeleteMailbox(c) ==
  LET b == calls[c].box IN
    /\ Answered(c, "delete")
    /\ accounts' = [accounts EXCEPT ![b] = NoBox] /\ sentRows' = SentElsewhere(b)
    /\ Finished(c)

\* The letter has gone; its row follows, unless the mailbox has gone meanwhile.
FinishSend(c) ==
  LET r == calls[c] IN
    /\ Answered(c, "send")
    /\ sentRows' = IF IsRow(r.box) THEN sentRows \cup {[n |-> r.n, box |-> r.box]} ELSE sentRows
    /\ Finished(c) /\ UNCHANGED accounts

FinishSync(c) ==
  /\ Answered(c, "sync") \/ Answered(c, "cleanup")
  /\ Finished(c) /\ UNCHANGED <<accounts, sentRows>>

\* The commit fails, or the application stops, after the aggregator's answer.
CommitFails(c) ==
  /\ Goes /\ calls[c].at = "served"
  /\ GiveUpOn(c, TRUE)
  /\ UNCHANGED <<boxes, accounts, mailTeams, strays, consents, letters, sentRows, mailBegun, shared>>

-----------------------------------------------------------------------------
\* authorize_oauth: a signed state carries the team; box 0 is a consent to come.
authorize_oauth ==
  \E team \in mailTeams \cup {NoTeam} :
    /\ CountedCall
    /\ consents' = consents \cup {[n |-> mailBegun + 1, team |-> team, box |-> 0]}
    /\ UNCHANGED <<boxes, accounts, mailTeams, calls, strays, letters, sentRows, mailTrouble,
                   doubtful, shared>>

\* The user consents: the aggregator adds a mailbox or reconnects one.
Consent(g) ==
  /\ g.box = 0
  /\ \E b \in Boxes :
       /\ IF AliveAt(b) THEN UNCHANGED boxes
          ELSE /\ boxes[b] = NoBox /\ b = NextBox
               /\ \E number \in Numbers \cup {NoName}, app \in Apps \cup {NoName} :
                    boxes' = [boxes EXCEPT ![b] = [state |-> "live",
                                                   name |-> build_display_name(number, app)]]
       /\ consents' = (consents \ {g}) \cup {[g EXCEPT !.box = b]}
       /\ shared' = IF WorkedOn(b) THEN shared \cup {b} ELSE shared
  /\ UNCHANGED <<accounts, mailTeams, calls, strays, letters, sentRows, mailBegun, mailTrouble,
                 doubtful>>

\* upsert_catalog: a row that is there keeps its names.
upsert_catalog(g) ==
  LET parsed == parse_display_name(boxes[g.box].name) IN
    [accounts EXCEPT ![g.box] = IF @ = NoBox THEN AccountRow(parsed.number, parsed.app, g.team)
                                ELSE [@ EXCEPT !.team = g.team]]

\* link_oauth_account: a team that has gone fails it.
link_oauth_account(g) ==
  /\ g.box # 0 /\ consents' = consents \ {g}
  /\ IF Insertable(g.team) THEN accounts' = upsert_catalog(g) /\ UNCHANGED doubtful
     ELSE doubtful' = doubtful \cup {g.box} /\ UNCHANGED accounts
  /\ UNCHANGED <<boxes, mailTeams, calls, strays, letters, sentRows, mailBegun, mailTrouble, shared>>

\* decode_crm_state: the state has expired (410), or the call is lost.
ConsentExpires(g) ==
  /\ Goes /\ g.box # 0
  /\ consents' = consents \ {g} /\ doubtful' = doubtful \cup {g.box}
  /\ UNCHANGED <<boxes, accounts, mailTeams, calls, strays, letters, sentRows, mailBegun, shared>>

\* A team is deleted: its mailboxes are left without one.
DropMailTeam(t) ==
  /\ t \in mailTeams /\ mailTeams' = mailTeams \ {t}
  /\ accounts' = [b \in Boxes |-> IF IsRow(b) /\ accounts[b].team = t
                                  THEN [accounts[b] EXCEPT !.team = NoTeam] ELSE accounts[b]]
  /\ UNCHANGED <<boxes, calls, strays, consents, letters, sentRows, mailBegun, mailTrouble,
                 doubtful, shared>>

-----------------------------------------------------------------------------
AMailTeam == CHOOSE t \in MailTeams : TRUE
ANumber == CHOOSE number \in Numbers : TRUE

\* One mailbox is there, with a number, in a team.
CatalogInit ==
  /\ accounts = [b \in Boxes |-> IF b = 1 THEN AccountRow(ANumber, NoName, AMailTeam) ELSE NoBox]
  /\ boxes = [b \in Boxes |-> IF b = 1 THEN [state |-> "live", name |-> <<ANumber>>] ELSE NoBox]
  /\ mailTeams = MailTeams /\ calls = [c \in Requested |-> Free]
  /\ strays = {} /\ consents = {} /\ letters = [n \in Requested |-> 0] /\ sentRows = {}
  /\ mailBegun = 0 /\ mailTrouble = 0 /\ doubtful = {} /\ shared = {}

MailStep(c) ==
  \/ ServeCall(c) \/ CallFails(c) \/ Missing(c) \/ CommitFails(c)
  \/ FinishCreateMailbox(c) \/ InsertFails(c) \/ FinishUpdateMailbox(c)
  \/ FinishDeleteMailbox(c) \/ FinishSend(c) \/ FinishSync(c)

CatalogNext ==
  \/ create_mailbox \/ authorize_oauth
  \/ \E b \in Boxes : update_mailbox(b) \/ delete_mailbox(b) \/ sync_mailbox(b) \/ compose(b)
  \/ \E c \in Requested : calls[c] # Free /\ MailStep(c)
  \/ \E r \in strays : ServeStray(r)
  \/ \E g \in consents : Consent(g) \/ link_oauth_account(g) \/ ConsentExpires(g)
  \/ \E t \in MailTeams : DropMailTeam(t)

CatalogSpec == CatalogInit /\ [][CatalogNext]_catalogVars

-----------------------------------------------------------------------------
\* The shape of the catalogue.
CatalogTypeOK ==
  /\ \A b \in Boxes : IsRow(b) => accounts[b].team \in mailTeams \cup {NoTeam}
  /\ sentRows \subseteq MailSentMessage /\ \A s \in sentRows : IsRow(s.box)
  /\ doubtful \cup shared \subseteq Boxes

\* The catalogue and the aggregator hold the same mailboxes under the same
\* names, except where an answer or a commit was lost, or two requests worked
\* on a mailbox at once: whatever else fails leaves no mailbox nobody sees.
CatalogFollows ==
  \A b \in Boxes \ (doubtful \cup shared) :
    ~WorkedOn(b) => /\ IsRow(b) <=> AliveAt(b)
                    /\ IsRow(b) => accounts[b].name = boxes[b].name

\* A request sends its letter once at most, whatever the connection does, and
\* a letter listed as sent has gone.
LetterGoesOnce ==
  /\ \A n \in DOMAIN letters : letters[n] <= 1
  /\ \A s \in sentRows : letters[s.n] = 1

\* docs/adr ADR-047, 3.3: display_name is derived from number and app_name; it
\* is, in a mailbox two edits did not work on at once.
NameIsDerived ==
  \A b \in Boxes \ shared :
    IsRow(b) => accounts[b].name = build_display_name(accounts[b].number, accounts[b].app)

\* What holds of mailboxes and letters at any moment.
CatalogHolds == CatalogTypeOK /\ CatalogFollows /\ LetterGoesOnce /\ NameIsDerived
=============================================================================
