--------------------------- MODULE TelegramLinks ---------------------------
(***************************************************************************)
(* Which person a Telegram chat belongs to.  Three bots keep a link table  *)
(* each, keyed by chat: the knowledge bot (services/                       *)
(* knowledge_bot_link_service.py, broadcast_service.py), the mail bot      *)
(* (mail_telegram_service.py) and the SMS bot (sms_telegram_link_          *)
(* service.py).  A visit of a chat reads the tables, finds a person by the *)
(* links or by the chat's username, and writes its link when it commits;   *)
(* meanwhile people are created, renamed, deactivated and deleted, refused *)
(* messages kill links, and a broadcast goes from chat to chat inside one  *)
(* transaction.                                                            *)
(***************************************************************************)
EXTENDS Naturals, FiniteSets

CONSTANTS
  People,            \* rows of users
  NoPerson,          \* a user_id of NULL
  Chats,             \* telegram_user_id
  Nicks,             \* Telegram usernames, normalised
  NoNick,
  BotRoles,          \* roles
  Visitors,          \* requests that may be under way at once
  MaxVisits,         \* bound on visits
  MaxChanges,        \* bound on changes of people
  MaxRefusals        \* bound on refused messages and broken broadcasts

ASSUME TelegramLinksAssumption ==
  NoPerson \notin People /\ NoNick \notin Nicks /\ Nicks # {}

VARIABLES
  people,            \* users: there or not, active, telegram, roles
  knowledge,         \* knowledge_bot_links
  smsLinks,          \* sms_telegram_links
  mailLinks,         \* mail_telegram_links
  visit,             \* the request each visitor is in, after its reads
  cast,              \* the broadcast
  visits, changes, refusals

linksVars == <<people, knowledge, smsLinks, mailLinks, visit, cast, visits, changes, refusals>>

NoLink == [at |-> "none"]
NoVisit == [at |-> "idle"]
Absent == [here |-> FALSE, active |-> FALSE, nick |-> NoNick, roles |-> {}]

\* The tables; a link of the mail bot may be without a person.
User == [here : BOOLEAN, active : BOOLEAN, nick : Nicks \cup {NoNick}, roles : SUBSET BotRoles]
KnowledgeBotLink == [at : {"link"}, person : People, dead : BOOLEAN]
MailTelegramLink == [at : {"link"}, person : People \cup {NoPerson}, nick : Nicks \cup {NoNick},
                     dead : BOOLEAN]

Registered == {p \in People : people[p].here}
ActivePeople == {p \in Registered : people[p].active}
Linked(table, z) == table[z] # NoLink
Alive(table, z) == Linked(table, z) /\ ~table[z].dead

\* UserRepository.get_by_telegram; "telegram" is unique among people.
get_by_telegram(nick) ==
  IF \E p \in Registered : nick \in Nicks /\ people[p].nick = nick
  THEN CHOOSE p \in Registered : people[p].nick = nick ELSE NoPerson

\* _lookup_user of the knowledge bot: its own link, that of the SMS bot, that of
\* the mail bot, and only then the username.
_lookup_user(z, nick) ==
  IF Alive(knowledge, z) THEN knowledge[z].person
  ELSE IF Alive(smsLinks, z) THEN smsLinks[z].person
  ELSE IF Alive(mailLinks, z) /\ mailLinks[z].person # NoPerson THEN mailLinks[z].person
  ELSE get_by_telegram(nick)

-----------------------------------------------------------------------------
\* A visit that has found whom it links: "held" is the person its table named
\* when it read it (ghost).
Held(table, z) ==
  IF Linked(table, z) /\ table[z].person \in ActivePeople THEN table[z].person ELSE NoPerson

Turn(v, write) ==
  /\ visits < MaxVisits /\ visit[v] = NoVisit /\ visits' = visits + 1
  /\ visit' = [visit EXCEPT ![v] = write]
  /\ UNCHANGED <<people, knowledge, smsLinks, mailLinks, cast, changes, refusals>>

\* POST /external/knowledge-bot/link; somebody not found or not active gets a 404.
VisitKnowledge(v, z, nick) ==
  LET p == _lookup_user(z, nick) IN
    /\ p \in ActivePeople
    /\ Turn(v, [at |-> "knowledge", chat |-> z, person |-> p, nick |-> nick,
                  held |-> IF Alive(knowledge, z) THEN Held(knowledge, z) ELSE NoPerson])

\* Fault: the username decides before the link.
_resolve_user_by_nick(z, nick) ==
  LET named == get_by_telegram(nick) IN
    IF named \in ActivePeople THEN named ELSE Held(mailLinks, z)

\* _resolve_user of the mail bot: the link, dead or not, then the username.
_resolve_user(z, nick) ==
  LET named == get_by_telegram(nick) IN
    IF Held(mailLinks, z) # NoPerson THEN Held(mailLinks, z)
    ELSE IF named \in ActivePeople THEN named ELSE NoPerson

\* /start and the sign-in of the Mini App.  A live link of the person found is
\* left alone; nobody found leaves an orphan behind /start.
VisitMail(v, z, nick, start) ==
  LET p == _resolve_user(z, nick) IN
    /\ p = NoPerson => start
    /\ p # NoPerson => ~(Alive(mailLinks, z) /\ mailLinks[z].person = p)
    /\ Turn(v, [at |-> "mail", chat |-> z, person |-> p, held |-> Held(mailLinks, z),
                  nick |-> IF nick = NoNick /\ p # NoPerson THEN mailLinks[z].nick ELSE nick])

\* SmsTelegramLinkService.auth: a link revives, and only without one the
\* username counts.
VisitSms(v, z, nick) ==
  LET p == IF Linked(smsLinks, z) THEN smsLinks[z].person ELSE get_by_telegram(nick) IN
    /\ p \in ActivePeople /\ ~Alive(smsLinks, z)
    /\ Turn(v, [at |-> IF Linked(smsLinks, z) THEN "revive" ELSE "sms", chat |-> z, person |-> p,
                  nick |-> NoNick, held |-> NoPerson])

\* link, with the session of the person himself.
VisitSmsOwn(v, z) ==
  \E p \in ActivePeople :
    Turn(v, [at |-> "sms", chat |-> z, person |-> p, nick |-> NoNick, held |-> NoPerson])

-----------------------------------------------------------------------------
\* The write and the commit.  The row of somebody deleted meanwhile refuses the
\* link; a chat a broadcast has marked is locked until the broadcast ends.
Leave(v) ==
  /\ visit' = [visit EXCEPT ![v] = NoVisit]
  /\ UNCHANGED <<people, cast, visits, changes, refusals>>

Known(w) == w.person \in Registered

upsert(v) ==
  LET w == visit[v] IN
    /\ w.at = "knowledge" /\ w.chat \notin cast.marks /\ Leave(v)
    /\ knowledge' = IF Known(w)
         THEN [knowledge EXCEPT ![w.chat] = [at |-> "link", person |-> w.person, dead |-> FALSE]]
         ELSE knowledge
    /\ UNCHANGED <<smsLinks, mailLinks>>

bind(w) ==
  [mailLinks EXCEPT ![w.chat] =
     [at |-> "link", person |-> w.person, nick |-> w.nick, dead |-> FALSE]]

\* The person of an orphan's row and its death are left as they are.
upsert_orphan(w) ==
  [mailLinks EXCEPT ![w.chat] =
     IF @ = NoLink THEN [at |-> "link", person |-> NoPerson, nick |-> w.nick, dead |-> FALSE]
     ELSE [@ EXCEPT !.nick = w.nick]]

FinishMail(v) ==
  LET w == visit[v] IN
    /\ w.at = "mail" /\ Leave(v)
    /\ mailLinks' = IF w.person = NoPerson THEN upsert_orphan(w)
                    ELSE IF Known(w) THEN bind(w) ELSE mailLinks
    /\ UNCHANGED <<knowledge, smsLinks>>

\* auth and link; a revival sets dead_at alone.
FinishSms(v) ==
  LET w == visit[v] IN
    /\ w.at \in {"sms", "revive"} /\ Leave(v)
    /\ smsLinks' =
         CASE w.at = "sms" /\ Known(w) ->
                [smsLinks EXCEPT ![w.chat] = [at |-> "link", person |-> w.person, dead |-> FALSE]]
           [] w.at = "revive" /\ Linked(smsLinks, w.chat) ->
                [smsLinks EXCEPT ![w.chat].dead = FALSE]
           [] OTHER -> smsLinks
    /\ UNCHANGED <<knowledge, mailLinks>>

-----------------------------------------------------------------------------
\* People.  bind_orphans_for_user, in the transaction that gives the nick.
bind_orphans_for_user(p, nick) ==
  mailLinks' = [z \in Chats |->
    IF /\ Linked(mailLinks, z) /\ mailLinks[z].person = NoPerson /\ mailLinks[z].nick = nick
    THEN [mailLinks[z] EXCEPT !.person = p] ELSE mailLinks[z]]

Change(p, row) ==
  /\ changes < MaxChanges /\ changes' = changes + 1
  /\ people' = [people EXCEPT ![p] = row]
  /\ UNCHANGED <<visit, cast, visits, refusals>>

CreatePerson(p) ==
  /\ p \notin Registered
  /\ \E nick \in Nicks : \E k \in BotRoles :
       /\ get_by_telegram(nick) = NoPerson
       /\ Change(p, [here |-> TRUE, active |-> TRUE, nick |-> nick, roles |-> {k}])
       /\ bind_orphans_for_user(p, nick)
  /\ UNCHANGED <<knowledge, smsLinks>>

RenamePerson(p) ==
  /\ p \in Registered
  /\ \E nick \in Nicks :
       /\ get_by_telegram(nick) = NoPerson
       /\ Change(p, [people[p] EXCEPT !.nick = nick]) /\ bind_orphans_for_user(p, nick)
  /\ UNCHANGED <<knowledge, smsLinks>>

SwitchPerson(p) ==
  /\ p \in Registered /\ Change(p, [people[p] EXCEPT !.active = ~@])
  /\ UNCHANGED <<knowledge, smsLinks, mailLinks>>

Unlinked(table, p) ==
  [z \in Chats |-> IF Linked(table, z) /\ table[z].person = p THEN NoLink ELSE table[z]]

\* The links go by cascade.
DeletePerson(p) ==
  /\ p \in Registered /\ \A z \in cast.marks : knowledge[z].person # p
  /\ Change(p, Absent)
  /\ knowledge' = Unlinked(knowledge, p) /\ smsLinks' = Unlinked(smsLinks, p)
  /\ mailLinks' = Unlinked(mailLinks, p)

\* reconcile_orphans, on a tick of the mail dispatcher.
reconcile_orphans ==
  /\ mailLinks' = [z \in Chats |->
       IF Linked(mailLinks, z) /\ mailLinks[z].person = NoPerson
       THEN [mailLinks[z] EXCEPT !.person = get_by_telegram(mailLinks[z].nick)]
       ELSE mailLinks[z]]
  /\ mailLinks' # mailLinks
  /\ UNCHANGED <<people, knowledge, smsLinks, visit, cast, visits, changes, refusals>>

\* mark_dead of the mail dispatcher and of the SMS deliveries.
RefuseMail(z) ==
  /\ refusals < MaxRefusals /\ Alive(mailLinks, z) /\ refusals' = refusals + 1
  /\ mailLinks' = [mailLinks EXCEPT ![z].dead = TRUE]
  /\ UNCHANGED <<people, knowledge, smsLinks, visit, cast, visits, changes>>

RefuseSms(z) ==
  /\ refusals < MaxRefusals /\ Alive(smsLinks, z) /\ refusals' = refusals + 1
  /\ smsLinks' = [smsLinks EXCEPT ![z].dead = TRUE]
  /\ UNCHANGED <<people, knowledge, mailLinks, visit, cast, visits, changes>>

-----------------------------------------------------------------------------
\* Audiences: everybody active, or who has one of some roles.
Everybody == [all |-> TRUE, roles |-> {}]
Audiences == {Everybody} \cup [all : {FALSE}, roles : (SUBSET BotRoles) \ {{}}]

Candidates(a) == {p \in ActivePeople : a.all \/ people[p].roles \cap a.roles # {}}

Reached(a) == {z \in Chats : Alive(knowledge, z) /\ knowledge[z].person \in Candidates(a)}

\* Fault: chats are counted where people are meant.
recipients_for_roles_by_chats(a) ==
  [chats |-> Reached(a), skipped |-> Cardinality(Candidates(a)) - Cardinality(Reached(a))]

recipients_for_roles(a) ==
  [chats |-> Reached(a),
   skipped |-> Cardinality(Candidates(a)) - Cardinality({knowledge[z].person : z \in Reached(a)})]

exists_for_user(p) == \E z \in Chats : Alive(knowledge, z) /\ knowledge[z].person = p

\* audience_totals and audience_by_role: people with a live link, and without.
audience_totals ==
  [started |-> Cardinality({p \in ActivePeople : exists_for_user(p)}),
   not_started |-> Cardinality({p \in ActivePeople : ~exists_for_user(p)})]

audience_by_role(k) ==
  LET holders == {p \in ActivePeople : k \in people[p].roles} IN
    [started |-> Cardinality({p \in holders : exists_for_user(p)}),
     not_started |-> Cardinality({p \in holders : ~exists_for_user(p)})]

\* send: the recipients are read, then one chat after another.
BeginCast ==
  /\ cast.at = "idle" /\ refusals < MaxRefusals
  /\ \E a \in Audiences :
       cast' = [at |-> "sending", todo |-> recipients_for_roles(a).chats, marks |-> {}]
  /\ cast'.todo # {}
  /\ UNCHANGED <<people, knowledge, smsLinks, mailLinks, visit, visits, changes, refusals>>

\* The message arrives or fails, or Telegram refuses the chat.
SendCast(z) ==
  /\ cast.at = "sending" /\ z \in cast.todo
  /\ \/ /\ cast' = [cast EXCEPT !.todo = @ \ {z}] /\ UNCHANGED refusals
     \/ /\ refusals < MaxRefusals /\ refusals' = refusals + 1
        /\ cast' = [at |-> "refused", chat |-> z, todo |-> cast.todo \ {z}, marks |-> cast.marks]
  /\ UNCHANGED <<people, knowledge, smsLinks, mailLinks, visit, visits, changes>>

\* mark_dead, within the transaction of the request.
MarkCast ==
  /\ cast.at = "refused"
  /\ cast' = [at |-> "sending", todo |-> cast.todo,
               marks |-> cast.marks \cup {z \in Chats : z = cast.chat /\ Alive(knowledge, z)}]
  /\ UNCHANGED <<people, knowledge, smsLinks, mailLinks, visit, visits, changes, refusals>>

\* The request ends and commits, or breaks and its marks are lost.
EndCast ==
  /\ cast.at = "sending"
  /\ \/ /\ cast.todo = {} /\ UNCHANGED refusals
        /\ knowledge' = [z \in Chats |-> IF z \in cast.marks THEN [knowledge[z] EXCEPT !.dead = TRUE]
                                         ELSE knowledge[z]]
     \/ /\ refusals < MaxRefusals /\ refusals' = refusals + 1 /\ UNCHANGED knowledge
  /\ cast' = [at |-> "idle", todo |-> {}, marks |-> {}]
  /\ UNCHANGED <<people, smsLinks, mailLinks, visit, visits, changes>>

-----------------------------------------------------------------------------
FirstPerson == CHOOSE p \in People : TRUE
FirstNick == CHOOSE k \in Nicks : TRUE

\* One person is there, with every role.
LinksInit ==
  /\ people = [p \in People |->
       IF p = FirstPerson THEN [here |-> TRUE, active |-> TRUE, nick |-> FirstNick, roles |-> BotRoles]
       ELSE Absent]
  /\ knowledge = [z \in Chats |-> NoLink] /\ smsLinks = [z \in Chats |-> NoLink]
  /\ mailLinks = [z \in Chats |-> NoLink] /\ visit = [v \in Visitors |-> NoVisit]
  /\ cast = [at |-> "idle", todo |-> {}, marks |-> {}]
  /\ visits = 0 /\ changes = 0 /\ refusals = 0

Visit(v) ==
  \/ visits < MaxVisits /\ \E z \in Chats :
       \/ \E nick \in {NoNick} \cup Nicks :
            \/ VisitKnowledge(v, z, nick) \/ VisitSms(v, z, nick)
            \/ \E start \in BOOLEAN : VisitMail(v, z, nick, start)
       \/ VisitSmsOwn(v, z)
  \/ upsert(v) \/ FinishMail(v) \/ FinishSms(v)

LinksNext ==
  \/ \E v \in Visitors : Visit(v)
  \/ \E p \in People : CreatePerson(p) \/ RenamePerson(p) \/ SwitchPerson(p) \/ DeletePerson(p)
  \/ reconcile_orphans
  \/ \E z \in Chats : RefuseMail(z) \/ RefuseSms(z) \/ SendCast(z)
  \/ BeginCast \/ MarkCast \/ EndCast

LinksSpec == LinksInit /\ [][LinksNext]_linksVars

-----------------------------------------------------------------------------
\* The shape of the tables; links name people who are there, and only an orphan
\* of the mail bot names nobody.
LinksTypeOK ==
  /\ people \in [People -> User]
  /\ \A z \in Chats : /\ Linked(knowledge, z) =>
                           knowledge[z] \in KnowledgeBotLink /\ knowledge[z].person \in Registered
                      /\ Linked(smsLinks, z) => smsLinks[z].person \in Registered
                      /\ Linked(mailLinks, z) =>
                           mailLinks[z] \in MailTelegramLink
                             /\ mailLinks[z].person \in Registered \cup {NoPerson}
  /\ \A p, q \in Registered : people[p].nick = people[q].nick => p = q
  /\ cast.marks \subseteq {z \in Chats : Alive(knowledge, z)}

\* What the page of broadcasts promises is what a broadcast does: those who have
\* started the bot are reached, in every chat of theirs, the others are counted
\* as skipped, for everybody and for each role (audience_totals,
\* audience_by_role and recipients_for_roles count apart).
AudienceAddsUp ==
  LET all == recipients_for_roles(Everybody) IN
    /\ audience_totals.not_started = all.skipped
    /\ audience_totals.started = Cardinality({knowledge[z].person : z \in all.chats})
    /\ \A k \in BotRoles :
         LET some == recipients_for_roles([all |-> FALSE, roles |-> {k}]) IN
           /\ audience_by_role(k).not_started = some.skipped
           /\ audience_by_role(k).started = Cardinality({knowledge[z].person : z \in some.chats})

\* A chat that belongs to an active person does not pass to another one because
\* its username did: only a visit that read the table before the chat was this
\* person's gives it away (the link first, mail_telegram_service.py and
\* knowledge_bot_link_service.py).
Passes(table, z) ==
  /\ Linked(table, z) /\ Linked(table', z) /\ ~table[z].dead
  /\ table[z].person \in ActivePeople /\ table'[z].person # table[z].person

ChatStaysWithPerson ==
  [][\A z \in Chats : Passes(mailLinks, z) \/ Passes(knowledge, z) =>
       \E v \in Visitors : /\ visit[v] # NoVisit /\ visit'[v] = NoVisit /\ visit[v].chat = z
                           /\ visit[v].held # IF visit[v].at = "mail" THEN mailLinks[z].person
                                              ELSE knowledge[z].person]_linksVars

\* services/knowledge_bot_link_service.py:93 says of the steps of _lookup_user
\* that a link to somebody inactive counts as none, and the next step decides.
\* It does not hold: README, section 6.
InactiveIsPassedOver ==
  \A z \in Chats : \A nick \in {NoNick} \cup Nicks :
    (\/ \E table \in {knowledge, smsLinks, mailLinks} :
          Alive(table, z) /\ table[z].person \in ActivePeople
     \/ get_by_telegram(nick) \in ActivePeople)
    => _lookup_user(z, nick) \in ActivePeople

\* What holds of the three tables at any moment.
TelegramLinksHold == LinksTypeOK /\ AudienceAddsUp
=============================================================================
