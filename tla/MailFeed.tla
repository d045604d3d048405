------------------------------ MODULE MailFeed ------------------------------
(***************************************************************************)
(* Letters as one user sees them (services/mail_service.py): the mailboxes *)
(* of his scope, his folders and marks (mail_message_reads), and the feed, *)
(* read page by page while letters arrive, are marked in another tab,      *)
(* change hands or go with their mailbox.  A letter's id is its order of   *)
(* arrival; its date is the sender's.                                      *)
(***************************************************************************)
EXTENDS Naturals, FiniteSets

CONSTANTS
  FeedBoxes,         \* mailboxes
  FeedTeams,         \* teams
  Pool,              \* a team_id of NULL
  MaxLetters,        \* bound on letters
  Dates,             \* values of internal_date
  PageSize,          \* limit of a page
  MaxFeedSteps       \* bound on what happens besides reading

ASSUME MailFeedAssumption ==
  /\ FeedBoxes # {} /\ FeedTeams # {} /\ Pool \notin FeedTeams /\ "gone" \notin FeedTeams \cup {Pool}
  /\ Dates \subseteq Nat /\ PageSize \in Nat \ {0} /\ MaxLetters \in Nat

VARIABLES
  scope,             \* MailScope of the user
  boxTeam,           \* mail_accounts.team_id, "gone" after a deletion
  letter,            \* mail_messages
  marks,             \* mail_message_reads of the user
  unmarking,         \* an unmark_read between its read and its write
  walk,              \* the feed being read
  feedSteps,
  asked,             \* what the user was last told of his marks
  crossing           \* letters marked while an unmark_read was under way

feedVars == <<scope, boxTeam, letter, marks, unmarking, walk, feedSteps, asked, crossing>>

Letters == 1 .. MaxLetters
Folders == {"inbox", "archived", "deleted"}
Nothing == [at |-> "none"]
Gone == "gone"

Clear == [read |-> FALSE, archived |-> FALSE, deleted |-> FALSE]
Unfiled == [row |-> FALSE]
\* mail_message_reads: a row marks a letter for the user.
Marks == [read : BOOLEAN, archived : BOOLEAN, deleted : BOOLEAN]

Arrived == {m \in Letters : letter[m].at = "stored"}

\* domain/mail.py MailScope: all mailboxes, or those of some teams with or
\* without the mailboxes that have none.
MailScopes ==
  {[sees_all_teams |-> TRUE, team_ids |-> {}, includes_unassigned |-> FALSE]}
    \cup [sees_all_teams : {FALSE}, team_ids : {{t} : t \in FeedTeams},
          includes_unassigned : BOOLEAN]

matches(team) ==
  \/ scope.sees_all_teams
  \/ IF team = Pool THEN scope.includes_unassigned ELSE team \in scope.team_ids

\* _load_message_in_scope, the lookup of replies and marks.
_load_message_in_scope(m) == m \in Arrived /\ matches(boxTeam[letter[m].box])

_filter_message_ids_in_scope(ms) == {m \in ms : _load_message_in_scope(m)}

Here == {b \in FeedBoxes : boxTeam[b] # Gone}

\* _scope_predicate, the same rule as SQL.
_scope_predicate(b) ==
  boxTeam[b] \in scope.team_ids \/ (scope.includes_unassigned /\ boxTeam[b] = Pool)

\* list_scoped, of GET /mailboxes, and _load_account_in_scope of its operations.
list_mailboxes == IF scope.sees_all_teams THEN Here ELSE {b \in Here : _scope_predicate(b)}
_load_account_in_scope(b) == b \in Here /\ matches(boxTeam[b])

_resolve_visible_accounts ==
  IF scope.sees_all_teams THEN Here ELSE {b \in Here : _scope_predicate(b)}

\* Columns of the user's row; a letter without a row has none set.
Is(m, column) == marks[m] # Unfiled /\ marks[m][column]

InFolder(m, folder) ==
  CASE folder = "inbox" -> ~Is(m, "archived") /\ ~Is(m, "deleted")
    [] folder = "archived" -> Is(m, "archived") /\ ~Is(m, "deleted")
    [] folder = "deleted" -> Is(m, "deleted")

Selected(folder) == {m \in Arrived : letter[m].box \in _resolve_visible_accounts /\ InFolder(m, folder)}

Filed == [folder \in Folders |-> Selected(folder)]

\* The filter of the counter, over letters of mailboxes the user sees.
count_unread_inbox ==
  Cardinality({m \in Arrived : /\ letter[m].box \in _resolve_visible_accounts
                               /\ ~(Is(m, "archived") \/ Is(m, "deleted"))
                               /\ ~Is(m, "read")})

\* Order of the feed: internal_date DESC, id DESC.
Newer(m, k) ==
  letter[m].date > letter[k].date \/ (letter[m].date = letter[k].date /\ m > k)

BelowCursor(m, cursor) ==
  letter[m].date < cursor.date \/ (letter[m].date = cursor.date /\ m < cursor.id)

list_feed(folder, cursor) ==
  {m \in Selected(folder) : cursor # Nothing => BelowCursor(m, cursor)}

\* The first letters of a selection, in the order of the feed.
FirstPage(ms) == {m \in ms : Cardinality({k \in ms : Newer(k, m)}) < PageSize}
Oldest(ms) == CHOOSE m \in ms : \A k \in ms \ {m} : Newer(k, m)

-----------------------------------------------------------------------------
\* list_messages: pages of one folder to the last one.  "steady" are the letters
\* that were in the folder all the while, "shown" those the pages held.
StartWalk(folder) ==
  /\ walk = Nothing
  /\ walk' = [at |-> "reading", folder |-> folder, cursor |-> Nothing, shown |-> {},
              repeated |-> FALSE, steady |-> Selected(folder)]
  /\ UNCHANGED <<scope, boxTeam, letter, marks, unmarking, feedSteps, asked, crossing>>

list_messages ==
  /\ walk.at = "reading"
  /\ LET found == list_feed(walk.folder, walk.cursor)
         page == FirstPage(found)
         last == Oldest(page)
     IN  walk' = [walk EXCEPT
           !.shown = @ \cup page, !.repeated = @ \/ page \cap walk.shown # {},
           !.at = IF found = page THEN "done" ELSE "reading",
           !.cursor = IF found = page THEN @ ELSE [at |-> "cursor", date |-> letter[last].date,
                                                   id |-> last]]
  /\ UNCHANGED <<scope, boxTeam, letter, marks, unmarking, feedSteps, asked, crossing>>

\* Something else happens.
FeedStep == feedSteps < MaxFeedSteps /\ feedSteps' = feedSteps + 1 /\ UNCHANGED scope

\* The letters it takes out of the folder are not steady any more.
KeepSteady ==
  walk' = IF walk.at # "reading" THEN walk
          ELSE [walk EXCEPT !.steady = @ \cap Filed'[walk.folder]]

Arrive(b) ==
  /\ FeedStep /\ boxTeam[b] # Gone
  /\ \E m \in Letters :
       /\ letter[m] = Nothing /\ \A k \in Letters : k < m => letter[k] # Nothing
       /\ \E d \in Dates : letter' = [letter EXCEPT ![m] = [at |-> "stored", box |-> b, date |-> d]]
  /\ UNCHANGED <<boxTeam, marks, unmarking, asked, crossing>> /\ KeepSteady

MoveBox(b) ==
  /\ FeedStep /\ boxTeam[b] # Gone
  /\ \E t \in FeedTeams \cup {Pool} : t # boxTeam[b] /\ boxTeam' = [boxTeam EXCEPT ![b] = t]
  /\ UNCHANGED <<letter, marks, unmarking, asked, crossing>> /\ KeepSteady

\* The mailbox is deleted: its letters and their marks go by cascade.
DropBox(b) ==
  LET lost == {m \in Arrived : letter[m].box = b} IN
    /\ FeedStep /\ boxTeam[b] # Gone /\ boxTeam' = [boxTeam EXCEPT ![b] = Gone]
    /\ letter' = [m \in Letters |-> IF m \in lost THEN [at |-> Gone] ELSE letter[m]]
    /\ marks' = [m \in Letters |-> IF m \in lost THEN Unfiled ELSE marks[m]]
    /\ asked' = [m \in Letters |-> IF m \in lost THEN Clear ELSE asked[m]]
    /\ UNCHANGED <<unmarking, crossing>> /\ KeepSteady

-----------------------------------------------------------------------------
\* Rows as the statements leave them: an upsert sets columns of a row, new or there,
\* an update those of a row that is there.
Inserted(row) == IF row = Unfiled THEN Clear ELSE row

mark_read(row) == [Inserted(row) EXCEPT !.read = TRUE]
mark_archived(row) == [Inserted(row) EXCEPT !.archived = TRUE, !.deleted = FALSE]
mark_deleted(row) == [Inserted(row) EXCEPT !.deleted = TRUE]
mark_unarchived(row) == IF row = Unfiled THEN row ELSE [row EXCEPT !.archived = FALSE]
mark_restored(row) == IF row = Unfiled THEN row ELSE [row EXCEPT !.deleted = FALSE]

\* A batch of letters: those out of scope are passed over, the marks of the
\* others become as in after, and the answer says what they are now.
Marked(ms, after, answer) ==
  LET found == _filter_message_ids_in_scope(ms) IN
    /\ FeedStep /\ found # {}
    /\ marks' = [m \in Letters |-> IF m \in found THEN after[m] ELSE marks[m]]
    /\ asked' = [m \in Letters |-> IF m \in found THEN answer[m] ELSE asked[m]]
    /\ crossing' = IF unmarking # Nothing /\ unmarking.id \in found
                   THEN crossing \cup {unmarking.id} ELSE crossing
    /\ UNCHANGED <<boxTeam, letter, unmarking>> /\ KeepSteady

batch_read(ms) ==
  Marked(ms, [m \in Letters |-> mark_read(marks[m])],
             [m \in Letters |-> [asked[m] EXCEPT !.read = TRUE]])
batch_archive(ms) ==
  Marked(ms, [m \in Letters |-> mark_archived(marks[m])],
             [m \in Letters |-> [asked[m] EXCEPT !.archived = TRUE, !.deleted = FALSE]])
batch_delete(ms) ==
  Marked(ms, [m \in Letters |-> mark_deleted(marks[m])],
             [m \in Letters |-> [asked[m] EXCEPT !.deleted = TRUE]])
batch_unarchive(ms) ==
  Marked(ms, [m \in Letters |-> mark_unarchived(marks[m])],
             [m \in Letters |-> [asked[m] EXCEPT !.archived = FALSE]])
batch_restore(ms) ==
  Marked(ms, [m \in Letters |-> mark_restored(marks[m])],
             [m \in Letters |-> [asked[m] EXCEPT !.deleted = FALSE]])

\* unmark_read reads the row; a row that says nothing else is deleted.
BeginUnmark(m) ==
  /\ FeedStep /\ unmarking = Nothing /\ _load_message_in_scope(m)
  /\ unmarking' = [at |-> "read", id |-> m, row |-> marks[m]]
  /\ UNCHANGED <<boxTeam, letter, marks, asked, crossing>> /\ KeepSteady

Unmarked(seen, row) ==
  IF seen = Unfiled \/ row = Unfiled THEN row
  ELSE IF ~seen.archived /\ ~seen.deleted THEN Unfiled
  ELSE IF seen.read THEN [row EXCEPT !.read = FALSE] ELSE row

unmark_read ==
  LET m == unmarking.id IN
    /\ unmarking # Nothing /\ unmarking' = Nothing
    /\ marks' = [marks EXCEPT ![m] = Unmarked(unmarking.row, @)]
    /\ asked' = [asked EXCEPT ![m].read = FALSE]
    /\ UNCHANGED <<scope, boxTeam, letter, crossing, feedSteps>> /\ KeepSteady

-----------------------------------------------------------------------------
FirstBox == CHOOSE b \in FeedBoxes : TRUE
FirstTeam == CHOOSE t \in FeedTeams : TRUE

\* Two letters of one moment are there, in one mailbox.
FeedInit ==
  /\ scope \in MailScopes
  /\ boxTeam = [b \in FeedBoxes |-> FirstTeam]
  /\ letter = [m \in Letters |-> IF m <= 2 THEN [at |-> "stored", box |-> FirstBox, date |-> 1]
                                  ELSE Nothing]
  /\ marks = [m \in Letters |-> Unfiled] /\ unmarking = Nothing /\ walk = Nothing
  /\ feedSteps = 0 /\ asked = [m \in Letters |-> Clear] /\ crossing = {}

FeedNext ==
  \/ \E folder \in Folders : StartWalk(folder)
  \/ list_messages
  \/ \E b \in FeedBoxes : Arrive(b) \/ MoveBox(b) \/ DropBox(b)
  \/ feedSteps < MaxFeedSteps /\ \E ms \in (SUBSET Arrived) \ {{}} :
       \/ batch_read(ms) \/ batch_archive(ms) \/ batch_delete(ms)
       \/ batch_unarchive(ms) \/ batch_restore(ms)
  \/ \E m \in Letters : BeginUnmark(m)
  \/ unmark_read

FeedSpec == FeedInit /\ [][FeedNext]_feedVars

-----------------------------------------------------------------------------
\* The shape of the feed.
FeedTypeOK ==
  /\ \A m \in Letters : marks[m] # Unfiled => marks[m] \in Marks /\ m \in Arrived
  /\ asked \in [Letters -> Marks]
  /\ \A m \in Arrived : letter[m].box \in Here

\* A letter the user may open is in one of his folders and no other, and one he
\* may not open is in none.
FoldersCoverScope(filed) ==
  \A m \in Letters :
    Cardinality({folder \in Folders : m \in filed[folder]})
      = IF _load_message_in_scope(m) THEN 1 ELSE 0

\* What the lists show and count, by SQL, is what the operations accept, one row
\* at a time: letters, mailboxes, and the unread letters of the inbox.
ViewsAgree ==
  LET filed == Filed IN
    /\ FoldersCoverScope(filed)
    /\ \A b \in FeedBoxes : b \in list_mailboxes <=> _load_account_in_scope(b)
    /\ count_unread_inbox = Cardinality({m \in filed["inbox"] : ~Is(m, "read")})

\* A feed read to its end has shown every letter that was in the folder all the
\* while, and none twice, whatever arrived or left between its pages.
FeedShowsEachOnce ==
  walk # Nothing => ~walk.repeated /\ (walk.at = "done" => walk.steady \subseteq walk.shown)

\* The marks of a letter are those the user was last answered with, except of
\* a letter that was marked while an unmark_read of it was under way.
MarksAreAsAnswered ==
  \A m \in Arrived \ crossing : \A column \in DOMAIN Clear : Is(m, column) = asked[m][column]

\* What holds of the Mini App's views at any moment.
FeedHolds == FeedTypeOK /\ ViewsAgree /\ FeedShowsEachOnce /\ MarksAreAsAnswered
=============================================================================
