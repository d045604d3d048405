----------------------------- MODULE SmsNumbers -----------------------------
(***************************************************************************)
(* The registry of SMS numbers and the feed of texts: scopes of people     *)
(* (domain/sms.py), the requests of the page (services/                    *)
(* sms_number_service.py), the synchronisation with the Twilio account     *)
(* (sms_sync_service.py) and the pages of texts (sms_message_service.py).  *)
(* A request reads a number and later writes it, by id and without looking *)
(* again, while other requests, deleted teams and the synchronisation      *)
(* write the same rows.                                                    *)
(***************************************************************************)
EXTENDS Naturals, FiniteSets

CONSTANTS
  SmsClerks,         \* requests that may be under way at once
  SmsTeams,          \* teams
  Spare,             \* a team_id of NULL
  Phones,            \* numbers of the Twilio account, E.164
  MaxNumbers,        \* bound on rows of sms_phone_numbers
  MaxTexts,          \* bound on rows of sms_inbound
  MaxSmsRequests,    \* bound on requests
  MaxSmsTrouble      \* bound on failures of Twilio and on deleted teams

ASSUME SmsNumbersAssumption ==
  /\ Spare \notin SmsTeams /\ SmsTeams # {} /\ Phones # {} /\ IsFiniteSet(Phones)
  /\ MaxNumbers \in Nat /\ MaxTexts \in Nat

VARIABLES
  numbers,           \* sms_phone_numbers
  smsTeams,          \* teams that exist
  clerk,             \* the request each clerk is in
  texts,             \* sms_inbound: to_number and received_at, in order of id
  reader,            \* a person who reads the feed, page by page
  smsRequests,
  smsTrouble

smsNumbersVars == <<numbers, smsTeams, clerk, texts, reader, smsRequests, smsTrouble>>

Nids == 1 .. MaxNumbers
Tids == 1 .. MaxTexts
Never == [at |-> "never"]
Deleted == [at |-> "deleted"]
Unused == [at |-> "free"]

SmsPhoneNumber == [at : {"row"}, phone : Phones, team : SmsTeams \cup {Spare},
                   label : {"none", "friendly"}, fields : {"filled", "cleared"}]

Rows == {n \in Nids : numbers[n].at = "row"}
Texts == {x \in Tids : texts[x] # Never}

\* get_sms_scope: everything for an administrator, otherwise the teams of the
\* user, his own and the extra ones, and perhaps the numbers without a team.
SmsScope(teams) ==
  {[sees_all_teams |-> TRUE, team_ids |-> {}, includes_unassigned |-> TRUE]}
    \cup [sees_all_teams : {FALSE}, team_ids : {{}} \cup {{t} : t \in teams},
          includes_unassigned : BOOLEAN]

sms_matches(s, team) ==
  \/ s.sees_all_teams
  \/ IF team = Spare THEN s.includes_unassigned ELSE team \in s.team_ids

is_empty(s) == ~s.sees_all_teams /\ s.team_ids = {} /\ ~s.includes_unassigned

\* Fault: the branch of the numbers without a team is missing.
list_in_scope_by_team(s) == {n \in Rows : numbers[n].team \in s.team_ids}

\* list_in_scope, the same predicate in SQL.
list_in_scope(s) ==
  {n \in Rows : \/ numbers[n].team \in s.team_ids
                \/ s.includes_unassigned /\ numbers[n].team = Spare}

list_numbers(s) ==
  IF s.sees_all_teams THEN Rows ELSE IF is_empty(s) THEN {} ELSE list_in_scope(s)

PhonesOf(ns) == {numbers[n].phone : n \in ns}

\* Filters of the feed: none, one number, one team, or the numbers without one.
SmsFilters ==
  [by : {"none", "spare"}] \cup [by : {"number"}, id : Nids] \cup [by : {"team"}, id : SmsTeams]

Filtered(f) ==
  CASE f.by = "number" -> Rows \cap {f.id}
    [] f.by = "team" -> {n \in Rows : numbers[n].team = f.id}
    [] f.by = "spare" -> {n \in Rows : numbers[n].team = Spare}
    [] OTHER -> Rows

\* Texts whose to_number is visible; an administrator without a filter sees also
\* those of numbers that are in no row.
_resolve_visible_phones(s, f) ==
  IF s.sees_all_teams /\ f.by = "none" THEN Phones
  ELSE PhonesOf(list_numbers(s)) \cap PhonesOf(Filtered(f))

Shown(s, f) == {x \in Texts : texts[x].to \in _resolve_visible_phones(s, f)}

\* received_at DESC, id DESC.
Later(x, y) ==
  texts[x].at > texts[y].at \/ (texts[x].at = texts[y].at /\ x > y)

list_inbound(s, f, c) ==
  {x \in Shown(s, f) :
     c # Unused => texts[x].at < c.at \/ (texts[x].at = c.at /\ x < c.id)}

-----------------------------------------------------------------------------
\* Requests.  A clerk asks with the scope he has, and it does not change.
Ask(c, request) ==
  /\ smsRequests < MaxSmsRequests /\ clerk[c] = Unused
  /\ smsRequests' = smsRequests + 1
  /\ clerk' = [clerk EXCEPT ![c] = request]

Answer(c) == clerk' = [clerk EXCEPT ![c] = Unused]

_require_mutation_scope(s, n) == n \in Rows /\ sms_matches(s, numbers[n].team)

\* Fault: anybody who has the number may take its team away.
MayMove_freely(s, to) ==
  to = Spare \/ (IF s.sees_all_teams THEN to \in smsTeams ELSE to \in s.team_ids)

\* The checks of a transfer that look at where the number goes.
MayMove(s, to) ==
  IF to = Spare THEN s.sees_all_teams \/ s.includes_unassigned
  ELSE IF s.sees_all_teams THEN to \in smsTeams ELSE to \in s.team_ids

\* The scope of the clerk, get_by_id and the checks: 404, 403 or 404 of the team
\* change nothing, otherwise the write follows.
AskNumber(c) ==
  /\ \E s \in SmsScope(smsTeams) : \E n \in Rows :
       /\ _require_mutation_scope(s, n)
       /\ \/ \E op \in {"update", "delete"} : Ask(c, [at |-> "write", op |-> op, id |-> n])
          \/ \E to \in {Spare} \cup SmsTeams :
               /\ MayMove(s, to)
               /\ Ask(c, [at |-> "write", op |-> "transfer", id |-> n, to |-> to, scope |-> s])
  /\ UNCHANGED <<numbers, smsTeams, texts, reader, smsTrouble>>

\* What the reader is owed after a change of some rows (ghost).
Disturb(ns) ==
  reader' = IF reader.at = "open"
            THEN [reader EXCEPT !.owed = {x \in @ : texts[x].to \notin PhonesOf(ns)}]
            ELSE reader

\* Columns as the statements leave them; a row that has gone stays gone.
set_team(n, to) ==
  numbers' = IF n \in Rows THEN [numbers EXCEPT ![n].team = to] ELSE numbers

delete_by_id(n) ==
  numbers' = IF n \in Rows THEN [numbers EXCEPT ![n] = Deleted] ELSE numbers

\* The write and its commit.  A transfer to a team deleted meanwhile breaks on
\* the foreign key, a change of the fields of a deleted row on its missing row.
update_number(c) ==
  LET r == clerk[c] IN
    /\ r.at = "write" /\ r.op = "update"
    /\ IF r.id \in Rows
       THEN \E v \in {"filled", "cleared"} :
              /\ numbers' = [numbers EXCEPT ![r.id].fields = v]
              /\ clerk' = [clerk EXCEPT ![c].at = "reload"]
       ELSE Answer(c) /\ UNCHANGED numbers
    /\ UNCHANGED <<smsTeams, texts, reader, smsRequests, smsTrouble>>

transfer_number(c) ==
  LET r == clerk[c] IN
    /\ r.at = "write" /\ r.op = "transfer"
    /\ IF r.to = Spare \/ r.to \in smsTeams \/ r.id \notin Rows
       THEN /\ set_team(r.id, r.to) /\ Disturb(Rows \cap {r.id})
            /\ clerk' = [clerk EXCEPT ![c].at = "reload"]
       ELSE Answer(c) /\ UNCHANGED <<numbers, reader>>
    /\ UNCHANGED <<smsTeams, texts, smsRequests, smsTrouble>>

delete_number(c) ==
  LET r == clerk[c] IN
    /\ r.at = "write" /\ r.op = "delete"
    /\ delete_by_id(r.id) /\ Disturb(Rows \cap {r.id}) /\ Answer(c)
    /\ UNCHANGED <<smsTeams, texts, smsRequests, smsTrouble>>

\* The row is read again for the answer; "assert reloaded is not None" fails on
\* one deleted since.
Reload(c) ==
  /\ clerk[c].at = "reload" /\ Answer(c)
  /\ UNCHANGED <<numbers, smsTeams, texts, reader, smsRequests, smsTrouble>>

-----------------------------------------------------------------------------
\* Synchronisation: the account is listed in a thread, then the rows follow.
AskSync(c) ==
  /\ Ask(c, [at |-> "twilio", op |-> "sync"])
  /\ UNCHANGED <<numbers, smsTeams, texts, reader, smsTrouble>>

\* The account lists some of its numbers: numbers are bought and released.
list_incoming_numbers(c) ==
  /\ clerk[c].at = "twilio"
  /\ \/ \E found \in SUBSET Phones :
          clerk' = [clerk EXCEPT ![c] = [at |-> "listed", op |-> "sync", found |-> found]]
        /\ UNCHANGED smsTrouble
     \/ smsTrouble < MaxSmsTrouble /\ smsTrouble' = smsTrouble + 1 /\ Answer(c)
  /\ UNCHANGED <<numbers, smsTeams, texts, reader, smsRequests>>

Ordered(missing) ==
  CHOOSE f \in [1 .. Cardinality(missing) -> missing] :
    \A i, j \in 1 .. Cardinality(missing) : i # j => f[i] # f[j]

Used == Cardinality({n \in Nids : numbers[n] # Never})

\* A row for the n-th of the missing numbers, with the next id.
Fresh(missing, n) ==
  [at |-> "row", phone |-> Ordered(missing)[n - Used], team |-> Spare, label |-> "none",
   fields |-> "cleared"]

\* ON CONFLICT (phone_number) DO NOTHING: only the missing numbers get a row.
bulk_upsert_unassigned(found) ==
  LET missing == found \ PhonesOf(Rows)
  IN  [n \in Nids |-> IF n \in Used + 1 .. Used + Cardinality(missing) THEN Fresh(missing, n)
                      ELSE numbers[n]]

update_label(rows, found) ==
  [n \in Nids |-> IF rows[n].at = "row" /\ rows[n].phone \in found
                  THEN [rows[n] EXCEPT !.label = "friendly"] ELSE rows[n]]

sync(c) ==
  LET found == clerk[c].found
  IN  /\ clerk[c].at = "listed"
      /\ Used + Cardinality(found \ PhonesOf(Rows)) <= MaxNumbers
      /\ numbers' = update_label(bulk_upsert_unassigned(found), found)
      /\ Answer(c)
      /\ UNCHANGED <<smsTeams, texts, smsRequests, smsTrouble, reader>>

\* A team is deleted: its numbers lose it (ON DELETE SET NULL).
DropSmsTeam(t) ==
  /\ smsTrouble < MaxSmsTrouble /\ t \in smsTeams
  /\ smsTrouble' = smsTrouble + 1 /\ smsTeams' = smsTeams \ {t}
  /\ numbers' = [n \in Nids |-> IF n \in Rows /\ numbers[n].team = t
                                THEN [numbers[n] EXCEPT !.team = Spare] ELSE numbers[n]]
  /\ Disturb({n \in Rows : numbers[n].team = t})
  /\ UNCHANGED <<clerk, texts, smsRequests>>

-----------------------------------------------------------------------------
\* A text is stored: the next id, at this moment or, a slower request, at one
\* before it.
StoreText ==
  /\ \E x \in Tids :
       /\ texts[x] = Never /\ \A y \in 1 .. x - 1 : texts[y] # Never
       /\ \E to \in Phones : \E at \in {x - 1, x} :
            texts' = [texts EXCEPT ![x] = [at |-> at, to |-> to]]
  /\ UNCHANGED <<numbers, smsTeams, clerk, smsRequests, smsTrouble, reader>>

\* The reader opens the feed; "owed" are the texts it holds then.
OpenFeed ==
  /\ reader.at = "free" /\ smsRequests < MaxSmsRequests
  /\ smsRequests' = smsRequests + 1
  /\ \E s \in SmsScope(smsTeams), f \in SmsFilters :
       reader' = [at |-> "open", scope |-> s, filter |-> f, cursor |-> Unused, seen |-> {},
                  repeated |-> FALSE, owed |-> Shown(s, f)]
  /\ UNCHANGED <<numbers, smsTeams, clerk, texts, smsTrouble>>

\* A page of one text, and the cursor of its last when there are more.
list_texts ==
  LET found == list_inbound(reader.scope, reader.filter, reader.cursor)
      first == CHOOSE x \in found : \A y \in found \ {x} : Later(x, y)
  IN  /\ reader.at = "open"
      /\ reader' = IF found = {} THEN [reader EXCEPT !.at = "read"]
                   ELSE [reader EXCEPT
                     !.seen = @ \cup {first}, !.repeated = @ \/ first \in reader.seen,
                     !.cursor = [at |-> texts[first].at, id |-> first],
                     !.at = IF found = {first} THEN "read" ELSE "open"]
      /\ UNCHANGED <<numbers, smsTeams, clerk, texts, smsRequests, smsTrouble>>

-----------------------------------------------------------------------------
FirstPhone == CHOOSE p \in Phones : TRUE
FirstSmsTeam == CHOOSE t \in SmsTeams : TRUE

\* One number of one team is there, and two texts of one moment to it.
SmsNumbersInit ==
  /\ numbers = [n \in Nids |->
       IF n = 1 THEN [at |-> "row", phone |-> FirstPhone, team |-> FirstSmsTeam,
                      label |-> "none", fields |-> "cleared"]
       ELSE Never]
  /\ smsTeams = SmsTeams /\ clerk = [c \in SmsClerks |-> Unused]
  /\ texts = [x \in Tids |-> IF x <= 2 THEN [at |-> 1, to |-> FirstPhone] ELSE Never]
  /\ reader = Unused
  /\ smsRequests = 0 /\ smsTrouble = 0

SmsNumbersNext ==
  \/ \E c \in SmsClerks :
       \/ AskNumber(c)
       \/ update_number(c) \/ transfer_number(c) \/ delete_number(c) \/ Reload(c)
       \/ AskSync(c) \/ list_incoming_numbers(c) \/ sync(c)
  \/ \E t \in SmsTeams : DropSmsTeam(t)
  \/ StoreText \/ OpenFeed \/ list_texts

SmsNumbersSpec == SmsNumbersInit /\ [][SmsNumbersNext]_smsNumbersVars

-----------------------------------------------------------------------------
\* The shape of the registry; a phone has one row at most.
SmsNumbersTypeOK ==
  /\ \A n \in Rows : /\ numbers[n] \in SmsPhoneNumber
                     /\ numbers[n].team \in smsTeams \cup {Spare}
  /\ \A n, m \in Rows : numbers[n].phone = numbers[m].phone => n = m
  /\ \A c \in SmsClerks : clerk[c].at \in {"free", "write", "reload", "twilio", "listed"}
  /\ Texts = 1 .. Cardinality(Texts)

\* Whatever somebody's teams, he is listed the numbers he may change, and the
\* feed shows him the texts of those numbers and no others, under every filter
\* (list_in_scope in SQL, sms_matches row by row, _resolve_visible_phones).  It
\* looks at rows only, so the states without a reader are enough.
NumberViewsAgree ==
  reader.at = "free" => \A s \in SmsScope(smsTeams) :
    /\ \A n \in Nids : n \in list_numbers(s) <=> _require_mutation_scope(s, n)
    /\ \A f \in SmsFilters :
         LET phones == _resolve_visible_phones(s, f)
             listed == list_numbers(s) \cap Filtered(f)
         IN  \A n \in Rows : numbers[n].phone \in phones <=> n \in listed

\* A number gets another team only from a transfer by somebody who, with his
\* scope, still has the number afterwards (sms_number_service.py transfer_number:
\* nobody throws a number out of his own reach), or loses a deleted one: a
\* synchronisation, however long its list took, moves none.
NumbersMoveByTransfer ==
  [][\A n \in Rows : numbers'[n].at = "row" /\ numbers'[n].team # numbers[n].team =>
       \/ numbers[n].team \notin smsTeams' /\ numbers'[n].team = Spare
       \/ \E c \in SmsClerks : /\ clerk[c].at = "write" /\ clerk'[c].at = "reload"
                               /\ clerk[c].op = "transfer" /\ clerk[c].id = n
                               /\ sms_matches(clerk[c].scope, numbers'[n].team)]_smsNumbersVars

\* A feed read to its end has shown, once each, the texts it held when it was
\* opened, but those of numbers that changed hands meanwhile.
TextsAreShownOnce ==
  /\ reader.at = "read" => reader.owed \subseteq reader.seen
  /\ reader.at # "free" => ~reader.repeated

\* What holds of numbers and their texts at any moment.
SmsNumbersHold == SmsNumbersTypeOK /\ NumberViewsAgree /\ TextsAreShownOnce
=============================================================================
