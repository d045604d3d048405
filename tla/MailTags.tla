------------------------------ MODULE MailTags ------------------------------
(***************************************************************************)
(* The tags of mail: the global catalogue of tags and rules and its        *)
(* requests (services/mail_service.py, repositories/mail_tag_repository.py *)
(* with the SQL of domain/mail_tags_sql.py), the tagging of letters as     *)
(* they are pushed (services/mail_ingest_service.py) and the dispatcher    *)
(* that passes over letters without a tag (services/                       *)
(* mail_dispatcher_service.py with MAIL_NOTIFY_ALL off).                   *)
(*                                                                         *)
(* A rule is a term, and a letter the set of terms its fields contain: the *)
(* words, borders and fields of the predicate are left out.  A statement   *)
(* that tags sees the rows committed when it starts; its foreign keys are  *)
(* checked at its end and hold to the commit.  Names (unique by an index)  *)
(* and colours are left out, and the sending itself: see MailDispatch.     *)
(***************************************************************************)
EXTENDS Naturals, FiniteSets

CONSTANTS
  Tags,              \* identifiers of tags, never used twice
  Terms,             \* what a rule may look for
  MaxTagLetters,     \* bound on letters
  MaxTagSteps        \* bound on requests, deletions and restarts

ASSUME MailTagsAssumption == MaxTagLetters \in Nat /\ MaxTagSteps \in Nat

VARIABLES
  tags,              \* mail_tags with their mail_tag_rules
  post,              \* mail_messages, the uncommitted ones among them
  tagged,            \* mail_message_tags
  applying,          \* an apply-to-existing between its statement and its commit
  turn,              \* the letter the dispatcher has looked at
  complete,          \* tags applied to every letter, and not changed since (ghost)
  tagSteps

tagsVars == <<tags, post, tagged, applying, turn, complete, tagSteps>>

Post == 1 .. MaxTagLetters
None == [at |-> "none"]
Removed == [at |-> "removed"]

MailTag == [at : {"row"}, match_mode : {"any", "all"}, rules : SUBSET Terms]

Existing == {t \in Tags : tags[t].at = "row"}
Stored == {m \in Post : post[m].at = "stored"}

\* The predicate of both statements: one of the rules, or all of at least one.
Matches(tag, words) ==
  IF tag.match_mode = "any" THEN tag.rules \cap words # {}
  ELSE tag.rules # {} /\ tag.rules \subseteq words

Matching(words) == {t \in Existing : Matches(tags[t], words)}

TagStep == tagSteps < MaxTagSteps /\ tagSteps' = tagSteps + 1

\* What a change of a tag means to what is under way (ghost): a push or an
\* apply-to-existing that has looked at the old rules.
Changed(t) ==
  /\ complete' = complete \ {t}
  /\ post' = [m \in Post |->
       IF post[m].at = "arriving" THEN [post[m] EXCEPT !.torn = @ \cup {t}] ELSE post[m]]
  /\ applying' = IF applying.at = "matched" /\ applying.tag = t
                 THEN [applying EXCEPT !.torn = TRUE] ELSE applying

-----------------------------------------------------------------------------
(* Requests of the catalogue, each one transaction.                        *)

create_tag(t) ==
  /\ tags[t] = None /\ TagStep
  /\ \E mode \in {"any", "all"} :
       tags' = [tags EXCEPT ![t] = [at |-> "row", match_mode |-> mode, rules |-> {}]]
  /\ Changed(t) /\ UNCHANGED <<tagged, turn>>

update_tag(t) ==
  /\ t \in Existing /\ TagStep
  /\ \E mode \in {"any", "all"} \ {tags[t].match_mode} :
       tags' = [tags EXCEPT ![t].match_mode = mode]
  /\ Changed(t) /\ UNCHANGED <<tagged, turn>>

\* Rules and links of the tag go by cascade.
delete_tag(t) ==
  /\ t \in Existing /\ TagStep
  /\ tags' = [tags EXCEPT ![t] = Removed]
  /\ tagged' = {link \in tagged : link[2] # t}
  /\ Changed(t) /\ UNCHANGED turn

create_tag_rule(t, term) ==
  /\ t \in Existing /\ term \notin tags[t].rules /\ TagStep
  /\ tags' = [tags EXCEPT ![t].rules = @ \cup {term}]
  /\ Changed(t) /\ UNCHANGED <<tagged, turn>>

\* Letters keep the tag that the rule gave them.
delete_tag_rule(t, term) ==
  /\ t \in Existing /\ term \in tags[t].rules /\ TagStep
  /\ tags' = [tags EXCEPT ![t].rules = @ \ {term}]
  /\ Changed(t) /\ UNCHANGED <<tagged, turn>>

\* The statement: the rules of the tag over the letters there are.
apply_tag_to_existing(t) ==
  /\ t \in Existing /\ applying = None /\ TagStep
  /\ applying' = [at |-> "matched", tag |-> t, torn |-> FALSE, seen |-> Stored,
                  found |-> {m \in Stored : Matches(tags[t], post[m].words)}]
  /\ UNCHANGED <<tags, post, tagged, turn, complete>>

\* Its foreign keys and its commit: the request fails when the tag or a letter
\* it found has gone.  A letter already tagged is left as it is.
CommitApply ==
  LET t == applying.tag
      holds == t \in Existing /\ applying.found \subseteq Stored
  IN /\ applying # None /\ applying' = None
     /\ tagged' = IF holds THEN tagged \cup (applying.found \X {t}) ELSE tagged
     /\ complete' = IF holds /\ ~applying.torn THEN complete \cup {t} ELSE complete
     /\ post' = [m \in Post |->
          IF holds /\ m \in applying.seen \cap Stored THEN [post[m] EXCEPT !.torn = @ \ {t}]
          ELSE post[m]]
     /\ UNCHANGED <<tags, turn, tagSteps>>

-----------------------------------------------------------------------------
(* Letters.                                                                *)

\* ingest inserts the letter and, in the same transaction, starts the statement
\* of its tags.
ingest(m) ==
  /\ post[m] = None /\ \A k \in Post : k < m => post[k] # None
  /\ \E words \in SUBSET Terms :
       post' = [post EXCEPT ![m] = [at |-> "arriving", words |-> words, found |-> Matching(words),
                                    torn |-> {}, due |-> {}, told |-> "waiting"]]
  /\ UNCHANGED <<tags, tagged, applying, turn, complete, tagSteps>>

\* Fault: the letter is committed first and tagged afterwards.
TagsAfterCommit(m) ==
  \/ /\ post[m].at = "arriving"
     /\ post' = [post EXCEPT ![m].at = "stored", ![m].due = @ \cup post[m].found]
     /\ UNCHANGED <<tags, tagged, applying, turn, complete, tagSteps>>
  \/ /\ post[m].at = "stored" /\ post[m].found \subseteq Existing
     /\ tagged' = tagged \cup ({m} \X post[m].found)
     /\ UNCHANGED <<tags, post, applying, turn, complete, tagSteps>>

\* The foreign keys of its tags and the commit: when one of the tags has gone
\* the savepoint takes them all back and the letter is stored without any.
apply_tags_to_message(m) ==
  LET holds == post[m].found \subseteq Existing IN
    /\ post[m].at = "arriving"
    /\ tagged' = IF holds THEN tagged \cup ({m} \X post[m].found) ELSE tagged
    /\ post' = [post EXCEPT ![m].at = "stored", ![m].due = post[m].found,
                            ![m].torn = IF holds THEN @ ELSE Tags]
    /\ UNCHANGED <<tags, applying, turn, complete, tagSteps>>

\* The mailbox of the letter is deleted, and the letter with it.
DropLetter(m) ==
  /\ m \in Stored /\ TagStep
  /\ post' = [post EXCEPT ![m] = Removed]
  /\ tagged' = {link \in tagged : link[1] # m}
  /\ UNCHANGED <<tags, applying, turn, complete>>

-----------------------------------------------------------------------------
(* The dispatcher, told to pass over letters without tags.                 *)

\* _process_new_message reads the letter and the names of its tags ...
tag_names_for_message(m) ==
  /\ turn = None /\ m \in Stored /\ post[m].told = "waiting"
  /\ turn' = [at |-> "read", id |-> m, names |-> {t \in Tags : <<m, t>> \in tagged}]
  /\ UNCHANGED <<tags, post, tagged, applying, complete, tagSteps>>

\* ... and marks it, silently or after its deliveries; a letter that has gone
\* is marked in no row.
mark_notified ==
  /\ turn # None /\ turn' = None
  /\ post' = IF turn.id \in Stored
             THEN [post EXCEPT ![turn.id].told = IF turn.names = {} THEN "passed" ELSE "told"]
             ELSE post
  /\ UNCHANGED <<tags, tagged, applying, complete, tagSteps>>

\* The process restarts and begins with the letter again.
RestartDispatcher ==
  /\ turn # None /\ TagStep /\ turn' = None
  /\ UNCHANGED <<tags, post, tagged, applying, complete>>

-----------------------------------------------------------------------------
FirstTag == CHOOSE t \in Tags : TRUE

\* Tags without a rule are there; one may still have to be created.
TagsInit ==
  /\ \E there \in {Tags, Tags \ {FirstTag}} :
       tags = [t \in Tags |-> IF t \in there THEN [at |-> "row", match_mode |-> "any", rules |-> {}]
                              ELSE None]
  /\ post = [m \in Post |-> None] /\ tagged = {} /\ applying = None /\ turn = None
  /\ complete = {} /\ tagSteps = 0

TagsNext ==
  \/ \E t \in Tags : \/ create_tag(t) \/ update_tag(t) \/ delete_tag(t)
                     \/ apply_tag_to_existing(t)
                     \/ \E term \in Terms : create_tag_rule(t, term) \/ delete_tag_rule(t, term)
  \/ CommitApply
  \/ \E m \in Post : \/ ingest(m) \/ apply_tags_to_message(m) \/ DropLetter(m)
                     \/ tag_names_for_message(m)
  \/ mark_notified \/ RestartDispatcher

TagsSpec == TagsInit /\ [][TagsNext]_tagsVars

-----------------------------------------------------------------------------
\* The rows keep their shape, and a link joins a letter and a tag that are there.
TagsTypeOK ==
  /\ \A t \in Tags : tags[t] \in MailTag \cup {None, Removed}
  /\ \A m \in Stored : post[m].words \subseteq Terms /\ post[m].told \in {"waiting", "told", "passed"}
  /\ tagged \subseteq Stored \X Existing
  /\ tagSteps \in 0 .. MaxTagSteps

\* A tag that was applied to the existing letters and whose rules have not
\* changed since is on every letter it matches, those pushed while it was being
\* applied too; not on a letter whose push had looked at older rules or lost its
\* tags.
AppliedIsComplete ==
  \A t \in complete : \A m \in Stored :
    Matches(tags[t], post[m].words) /\ t \notin post[m].torn => <<m, t>> \in tagged

\* A letter is passed over in silence only when no tag matched it as it was
\* pushed, or one of those that did has been deleted.
TaggedIsTold ==
  \A m \in Stored : post[m].told = "passed" => post[m].due = {} \/ ~(post[m].due \subseteq Existing)

\* A letter has a tag only where a rule found one of its terms: with one rule
\* of a tag deleted the letter stays tagged, with none it never was.
NoTagByChance ==
  \A link \in tagged : post[link[1]].words # {}

\* What holds of tags at any moment.
TagsHold == TagsTypeOK /\ AppliedIsComplete /\ TaggedIsTold /\ NoTagByChance
=============================================================================
