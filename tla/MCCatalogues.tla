---------------------------- MODULE MCCatalogues ----------------------------
(***************************************************************************)
(* The catalogues of letters and texts: mailboxes, the feed of the Mini    *)
(* App, tags, SMS numbers, and the people behind Telegram chats.  They     *)
(* share no state the modules look at: a behaviour belongs to one of them, *)
(* and the others stay as they began.                                      *)
(***************************************************************************)
EXTENDS MailCatalog, MailFeed, MailTags, SmsNumbers, TelegramLinks

VARIABLE shelf        \* the catalogue this behaviour is about

cataloguesVars == <<shelf, catalogVars, feedVars, tagsVars, smsNumbersVars, linksVars>>

\* A part that may begin in several ways does so only in its own behaviours.
CataloguesInit ==
  /\ shelf \in {"mailboxes", "feed", "tags", "numbers", "links"}
  /\ CatalogInit /\ FeedInit /\ TagsInit /\ SmsNumbersInit /\ LinksInit
  /\ shelf # "feed" => scope = CHOOSE s \in MailScopes : TRUE
  /\ shelf # "tags" => Existing = Tags

CataloguesNext ==
  \/ shelf = "mailboxes" /\ CatalogNext
     /\ UNCHANGED <<shelf, feedVars, tagsVars, smsNumbersVars, linksVars>>
  \/ shelf = "feed" /\ FeedNext
     /\ UNCHANGED <<shelf, catalogVars, tagsVars, smsNumbersVars, linksVars>>
  \/ shelf = "tags" /\ TagsNext
     /\ UNCHANGED <<shelf, catalogVars, feedVars, smsNumbersVars, linksVars>>
  \/ shelf = "numbers" /\ SmsNumbersNext
     /\ UNCHANGED <<shelf, catalogVars, feedVars, tagsVars, linksVars>>
  \/ shelf = "links" /\ LinksNext
     /\ UNCHANGED <<shelf, catalogVars, feedVars, tagsVars, smsNumbersVars>>

CataloguesSpec == CataloguesInit /\ [][CataloguesNext]_cataloguesVars

(***************************************************************************)
(* The properties of each catalogue, asked of its own behaviours only:     *)
(* elsewhere its state never changes.                                      *)
(***************************************************************************)
\* Mailboxes: the catalogue and the aggregator hold the same ones, a letter goes
\* out once, and a display name is the one derived from number and application.
MailboxesHold == shelf = "mailboxes" => CatalogHolds

\* Stored letters: the feed of the Mini App shows each once and its views agree;
\* a letter has the tags its rules give it, and a tagged letter is told.
LettersHold ==
  /\ shelf = "feed" => FeedHolds
  /\ shelf = "tags" => TagsHold

\* SMS numbers: the list, the right to change and the feed agree on what somebody
\* may see, and a walk of the feed shows a text once.
NumbersHold == shelf = "numbers" => SmsNumbersHold

\* Telegram links: a broadcast reaches those its page counts, and skips the rest.
LinksHold == shelf = "links" => TelegramLinksHold
=============================================================================
