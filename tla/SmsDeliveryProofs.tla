------------------------- MODULE SmsDeliveryProofs -------------------------
(***************************************************************************)
(* Theorems about SmsDelivery, for every number of messages, chats, users  *)
(* and webhooks, every limit on attempts and every bound: types, what is   *)
(* reserved and recorded, the invariant that bounds attempts and copies,   *)
(* and the refinement of DeliveryLedger, whose own promise comes last.     *)
(***************************************************************************)
EXTENDS SmsDelivery, DeliveryLedger, TLAPS

\* The values that stand for `none` are of the declared types.
LEMMA Defaults == NoMessage \in SmsIds /\ NoHandle \in Handles /\ NoRow \in Rows
<1> USE SmsConstants
<1>1. PICK m \in SmsIds : TRUE
  OBVIOUS
<1>2. PICK c \in Chats : TRUE
  OBVIOUS
<1>3. <<m, c>> \in Pairs
  BY DEF Pairs
<1>4. (CHOOSE p \in Pairs : TRUE) \in Pairs
  BY <1>3
<1>5. NoMessage \in SmsIds
  BY DEF NoMessage
<1>6. NoRow \in Rows
  BY DEF NoRow, Rows, Statuses
<1>7. QED BY <1>4, <1>5, <1>6 DEF NoHandle, Handles

\* The state after each action has the declared types.
LEMMA TypeStep == TypeOK /\ [Next]_vars => TypeOK'
<1> SUFFICES ASSUME TypeOK, [Next]_vars PROVE TypeOK'
  OBVIOUS
<1> USE SmsConstants
<1>0. NoMessage \in SmsIds /\ NoHandle \in Handles
  BY Defaults
<1>1. ASSUME NEW h \in Handlers, HandlerNext(h) PROVE TypeOK'
  <2>0. h \in Actors  BY DEF Actors
  <2>1. ASSUME NEW d \in Sids \cup {NoSid}, Webhook(h, d) PROVE TypeOK'
    BY <2>0, <2>1 DEF Webhook, TypeOK, database, environment, history
  <2>2. CASE FindBySid(h)
    BY <2>0, <2>2 DEF FindBySid, MessagesWith, TypeOK, database, environment, history
  <2>3. CASE StoreSms(h)
    <3>1. inbound' \in [SmsIds -> Sids \cup {NoSid, Free}]
      BY <2>3 DEF StoreSms, MessagesWith, TypeOK
    <3>2. sms' \in [Handlers -> SmsIds]
      BY <2>3 DEF StoreSms, MessagesWith, TypeOK
    <3>3. owed' \in [SmsIds -> SUBSET Chats]
      BY <2>3 DEF StoreSms, MessagesWith, EligibleUnder, TypeOK
    <3>4. pc' \in [Actors -> {"idle", "lookup", "insert", "resolve", "fanout",
                              "scan", "send", "mark"}]
      BY <2>0, <2>3 DEF StoreSms, TypeOK
    <3>5. QED
      BY <2>3, <3>1, <3>2, <3>3, <3>4 DEF StoreSms, TypeOK, environment
  <2>4. CASE Resolve(h)
    BY <2>0, <2>4 DEF Resolve, RecipientsUnder, TypeOK, database, environment, history
  <2>5. ASSUME NEW r \in todo[h], Reserve(h, r) PROVE TypeOK'
    <3>1. r \in Recipients  BY DEF TypeOK
    <3>2. <<sms[h], r.chat>> \in Pairs  BY <3>1 DEF TypeOK, Recipients, Pairs
    <3>3. r.user \in Users  BY <3>1 DEF Recipients
    <3>4. [id |-> nextId, user |-> r.user, status |-> "pending", attempts |-> 0] \in Rows
      BY <3>3 DEF TypeOK, Rows, Statuses
    <3>5. [pair |-> <<sms[h], r.chat>>, id |-> nextId] \in Handles
      BY <3>2 DEF TypeOK, Handles
    <3>6. delivery' \in [Pairs -> Rows] /\ nextId' \in Nat \ {0} /\ reserved' \subseteq Pairs
      <4>1. [delivery EXCEPT ![<<sms[h], r.chat>>] =
               [id |-> nextId, user |-> r.user, status |-> "pending", attempts |-> 0]]
              \in [Pairs -> Rows]
        BY <3>2, <3>4 DEF TypeOK
      <4>2. delivery' \in [Pairs -> Rows]
        BY <2>5, <4>1 DEF Reserve, TypeOK
      <4>3. nextId' \in Nat \ {0}
        BY <2>5 DEF Reserve, TypeOK
      <4>4. reserved' \subseteq Pairs
        BY <2>5, <3>2 DEF Reserve, TypeOK
      <4>5. QED BY <4>2, <4>3, <4>4
    <3>7. row' \in [Actors -> Handles]
      BY <2>0, <2>5, <3>5 DEF Reserve, TypeOK
    <3>8. todo' \in [Handlers -> SUBSET Recipients]
      BY <2>5 DEF Reserve, TypeOK
    <3>9. /\ pc' \in [Actors -> {"idle", "lookup", "insert", "resolve", "fanout",
                                "scan", "send", "mark"}]
          /\ sid' \in [Handlers -> Sids \cup {NoSid}]
          /\ sms' \in [Handlers -> SmsIds]
      BY <1>0, <2>0, <2>5 DEF Reserve, Return, TypeOK
    <3>10. QED
      BY <2>5, <3>6, <3>7, <3>8, <3>9 DEF Reserve, TypeOK, environment
  <2>6. CASE Answer(h)
    BY <1>0, <2>0, <2>6 DEF Answer, Return, TypeOK, database, environment
  <2>7. QED BY <1>1, <2>1, <2>2, <2>3, <2>4, <2>5, <2>6 DEF HandlerNext
<1>2. ASSUME NEW a \in Actors, Send(a) PROVE TypeOK'
  <2>1. row[a].pair \in Pairs  BY DEF TypeOK, Handles
  <2>2. QED
    BY <1>2, <2>1 DEF Send, TypeOK, Outcomes, database, environment
<1>3. ASSUME NEW a \in Actors, Mark(a) PROVE TypeOK'
  <2>1. row[a].pair \in Pairs /\ row[a].pair[2] \in Chats
    BY DEF TypeOK, Handles, Pairs
  <2>2. ASSUME NEW st \in Statuses, MarkRow(row[a], st) PROVE delivery' \in [Pairs -> Rows]
    BY <2>1, <2>2 DEF MarkRow, TypeOK, Rows
  <2>3. delivery' \in [Pairs -> Rows]
    BY <1>3, <2>2 DEF Mark, Statuses
  <2>4. link' \in [Chats -> Links]
    <3>1. [link EXCEPT ![row[a].pair[2]].live = FALSE]
            \in [Chats -> Links]
      BY <2>1 DEF Links, TypeOK
    <3>2. QED BY <1>3, <3>1 DEF Mark, TypeOK
  <2>5. owed' \in [SmsIds -> SUBSET Chats]
    BY <1>3 DEF Mark, StillOwed, EligibleUnder, TypeOK
  <2>6. QED
    BY <1>0, <1>3, <2>3, <2>4, <2>5 DEF Mark, TypeOK, Outcomes, environment
<1>4. CASE MonitorNext
  <2>1. CASE Poll
    <3>1. Pending \subseteq Handles
      BY DEF Pending, Candidates, Handles, TypeOK, Rows
    <3>2. {p \in {r.pair : r \in Pending} : HeldByHandler(p)} \subseteq Pairs
      BY <3>1 DEF Handles
    <3>3. QED
      BY <2>1, <3>1, <3>2 DEF Poll, TypeOK, Actors, database, environment
  <2>2. CASE Visit
    BY <2>2 DEF Visit, TypeOK, Actors, Outcomes, database, environment, history
  <2>3. CASE Sleep
    BY <2>3 DEF Sleep, TypeOK, Actors, database, environment, history
  <2>4. QED BY <1>4, <2>1, <2>2, <2>3 DEF MonitorNext
<1>5. CASE EnvironmentNext
  <2>0. Change => changes' \in 0 .. MaxChanges
    BY DEF Change, TypeOK
  <2>1. ASSUME NEW c \in Chats, NEW u \in Users, LinkChat(c, u) PROVE TypeOK'
    BY <2>0, <2>1 DEF LinkChat, Links, StillOwed, EligibleUnder, TypeOK, locals
  <2>2. ASSUME NEW u \in Users, ChangeAccess(u) PROVE TypeOK'
    BY <2>0, <2>2 DEF ChangeAccess, StillOwed, EligibleUnder, TypeOK, locals
  <2>3. ASSUME NEW u \in Users, DeleteUser(u) PROVE TypeOK'
    <3>1. delivery' \in [Pairs -> Rows]
      BY <2>3, Defaults DEF DeleteUser, TypeOK
    <3>2. link' \in [Chats -> Links]
      BY <2>3 DEF DeleteUser, NoLink, Links, TypeOK
    <3>3. owed' \in [SmsIds -> SUBSET Chats]
      BY <2>3 DEF DeleteUser, StillOwed, TypeOK
    <3>4. users' \subseteq Users /\ access' \subseteq users' /\ excused' \subseteq Pairs
      BY <2>3 DEF DeleteUser, TypeOK
    <3>5. QED
      BY <2>0, <2>3, <3>1, <3>2, <3>3, <3>4 DEF DeleteUser, TypeOK, locals
  <2>4. ASSUME NEW c \in Chats, ToggleBlock(c) PROVE TypeOK'
    BY <2>0, <2>4 DEF ToggleBlock, TypeOK, database, locals, history
  <2>5. CASE Restart
    <3>1. {row[a].pair : a \in {b \in Actors : pc[b] = "mark" /\ out[b] = "sent"}} \subseteq Pairs
      BY DEF TypeOK, Handles
    <3>2. crashes' \in 0 .. MaxCrashes  BY <2>5 DEF Restart, TypeOK
    <3>3. QED
      BY <1>0, <2>5, <3>1, <3>2 DEF Restart, TypeOK, Outcomes, database
  <2>6. QED BY <1>5, <2>1, <2>2, <2>3, <2>4, <2>5 DEF EnvironmentNext
<1>6. CASE UNCHANGED vars
  BY <1>6 DEF TypeOK, vars, database, environment, locals, history
<1>7. QED BY <1>1, <1>2, <1>3, <1>4, <1>5, <1>6 DEF Next

\* Every variable of the SMS delivery always has its declared type.
THEOREM SmsTypeCorrect == Spec => []TypeOK
<1>1. Init => TypeOK
  <2> SUFFICES ASSUME Init PROVE TypeOK
    OBVIOUS
  <2> USE SmsConstants
  <2>1. QED BY Defaults DEF Init, TypeOK, Outcomes
<1>2. QED BY <1>1, TypeStep, PTL DEF Spec

----------------------------------------------------------------------------
(* An answered webhook has reserved a delivery for everyone entitled        *)

\* A handler past the storing step works for a stored message.
HandlerHasMessage ==
  \A h \in Handlers :
    pc[h] \in {"resolve", "fanout", "send", "mark"} => inbound[sms[h]] # Free

\* In the fan-out, whoever is owed the message has been reserved or is on the
\* part of the list still to be visited.
NobodyForgotten ==
  \A h \in Handlers : pc[h] \in {"fanout", "send", "mark"} =>
    \A c \in owed[sms[h]] :
      <<sms[h], c>> \in reserved \/ \E r \in todo[h] : r.chat = c

\* Only a stored message is answered; a chat is owed a message only while it is
\* eligible; a delivery row has been reserved.
LedgerInv ==
  /\ \A m \in acked : inbound[m] # Free
  /\ \A m \in SmsIds : owed[m] \subseteq EligibleUnder(link, access)
  /\ \A p \in Pairs : Exists(p) => p \in reserved

AnsweredInv ==
  /\ AnsweredMeansReserved
  /\ HandlerHasMessage
  /\ NobodyForgotten
  /\ LedgerInv

\* Marking a delivery neither creates nor removes rows.
LEMMA MarkRowKeepsIds ==
  ASSUME TypeOK, NEW r \in Handles, NEW st \in Statuses, MarkRow(r, st)
  PROVE  \A p \in Pairs : delivery'[p].id = delivery[p].id
BY DEF TypeOK, Handles, MarkRow, Rows

\* What is owed under other links and accesses is eligible and was owed.
LEMMA StillOwedShrinks ==
  ASSUME NEW l, NEW acc
  PROVE  /\ \A m \in SmsIds : StillOwed(l, acc)[m] \subseteq owed[m]
         /\ \A m \in SmsIds : StillOwed(l, acc)[m] \subseteq EligibleUnder(l, acc)
BY DEF StillOwed

\* A step that stores no message, reserves no row, moves no handler and only
\* takes chats out of what is owed preserves the invariant.
LEMMA AnsweredFrame ==
  ASSUME TypeOK, AnsweredInv,
         UNCHANGED <<inbound, acked, reserved, sms, todo>>,
         \A h \in Handlers : \/ pc'[h] = pc[h]
                             \/ pc'[h] \in {"idle", "lookup", "insert"}
                             \/ pc'[h] = "fanout" /\ pc[h] = "mark"
                             \/ pc'[h] = "mark" /\ pc[h] = "send",
         \A m \in SmsIds : owed'[m] \subseteq owed[m],
         \A m \in SmsIds : owed'[m] \subseteq EligibleUnder(link, access)',
         \A p \in Pairs : Exists(p)' => Exists(p)
  PROVE  AnsweredInv'
<1> USE DEF AnsweredInv
<1>1. AnsweredMeansReserved'
  BY DEF AnsweredMeansReserved, TypeOK
<1>2. HandlerHasMessage'
  BY DEF HandlerHasMessage
<1>3. NobodyForgotten'
  BY DEF NobodyForgotten, TypeOK
<1>4. LedgerInv'
  BY DEF LedgerInv
<1>5. QED BY <1>1, <1>2, <1>3, <1>4

\* Every step of the code keeps the answered part of the invariant: a webhook is
\* answered with 200 only after its fan-out has reserved, or passed over, everyone.
LEMMA AnsweredStep == TypeOK /\ AnsweredInv /\ [Next]_vars => AnsweredInv'
<1> SUFFICES ASSUME TypeOK, AnsweredInv, [Next]_vars PROVE AnsweredInv'
  OBVIOUS
<1> USE SmsConstants
<1>1. ASSUME NEW h \in Handlers, HandlerNext(h) PROVE AnsweredInv'
  <2>0. h \in Actors  BY DEF Actors
  <2>1. ASSUME NEW d \in Sids \cup {NoSid}, Webhook(h, d) PROVE AnsweredInv'
    BY <2>0, <2>1, AnsweredFrame
       DEF Webhook, TypeOK, AnsweredInv, LedgerInv, Exists, EligibleUnder, Actors,
           database, environment, history
  <2>2. CASE FindBySid(h)
    <3>1. \A m \in MessagesWith(sid[h]) : inbound[m] # Free
      BY DEF MessagesWith, TypeOK
    <3>2. AnsweredMeansReserved' /\ LedgerInv'
      BY <2>2 DEF FindBySid, AnsweredInv, AnsweredMeansReserved, LedgerInv, Exists,
                  EligibleUnder, database, history
    <3>3. HandlerHasMessage'
      BY <2>0, <2>2, <3>1 DEF FindBySid, AnsweredInv, HandlerHasMessage, TypeOK,
                  Actors, database
    <3>4. NobodyForgotten'
      BY <2>0, <2>2 DEF FindBySid, AnsweredInv, NobodyForgotten, TypeOK, Actors,
                  database, history
    <3>5. QED BY <3>2, <3>3, <3>4 DEF AnsweredInv
  <2>3. CASE StoreSms(h)
    <3>1. sid[h] # Free
      BY DEF TypeOK
    <3>2. CASE \E m \in MessagesWith(Free) :
                 /\ inbound' = [inbound EXCEPT ![m] = sid[h]]
                 /\ sms' = [sms EXCEPT ![h] = m]
                 /\ owed' = [owed EXCEPT ![m] = EligibleUnder(link, access)]
      <4>1. PICK m \in SmsIds : /\ inbound[m] = Free
                               /\ inbound' = [inbound EXCEPT ![m] = sid[h]]
                               /\ sms' = [sms EXCEPT ![h] = m]
                               /\ owed' = [owed EXCEPT ![m] = EligibleUnder(link, access)]
        BY <3>2 DEF MessagesWith
      <4>2. m \notin acked /\ \A g \in Handlers :
              pc[g] \in {"resolve", "fanout", "send", "mark"} => sms[g] # m
        BY <4>1 DEF AnsweredInv, LedgerInv, HandlerHasMessage
      <4>3. pc' = [pc EXCEPT ![h] = "resolve"] /\ pc[h] = "insert"
            /\ UNCHANGED <<acked, reserved, todo, link, access, delivery>>
        BY <2>3 DEF StoreSms
      <4>4. AnsweredMeansReserved'
        BY <4>1, <4>2, <4>3 DEF AnsweredInv, AnsweredMeansReserved, TypeOK
      <4>5. HandlerHasMessage'
        BY <2>0, <3>1, <4>1, <4>3 DEF AnsweredInv, HandlerHasMessage, TypeOK, Actors
      <4>6. NobodyForgotten'
        BY <2>0, <4>1, <4>2, <4>3 DEF AnsweredInv, NobodyForgotten, TypeOK, Actors
      <4>7. LedgerInv'
        BY <3>1, <4>1, <4>3 DEF AnsweredInv, LedgerInv, TypeOK, EligibleUnder, Exists
      <4>8. QED BY <4>4, <4>5, <4>6, <4>7 DEF AnsweredInv
    <3>3. CASE /\ \E m \in MessagesWith(sid[h]) : sms' = [sms EXCEPT ![h] = m]
               /\ UNCHANGED <<inbound, owed>>
      <4>1. PICK m \in SmsIds : inbound[m] = sid[h] /\ sms' = [sms EXCEPT ![h] = m]
        BY <3>3 DEF MessagesWith
      <4>2. pc' = [pc EXCEPT ![h] = "resolve"]
            /\ UNCHANGED <<acked, reserved, todo, link, access, delivery, inbound, owed>>
        BY <2>3, <3>3 DEF StoreSms
      <4>3. AnsweredMeansReserved' /\ LedgerInv'
        BY <4>2 DEF AnsweredInv, AnsweredMeansReserved, LedgerInv, Exists, EligibleUnder
      <4>4. HandlerHasMessage'
        BY <2>0, <3>1, <4>1, <4>2 DEF AnsweredInv, HandlerHasMessage, TypeOK, Actors
      <4>5. NobodyForgotten'
        BY <2>0, <4>1, <4>2 DEF AnsweredInv, NobodyForgotten, TypeOK, Actors
      <4>6. QED BY <4>3, <4>4, <4>5 DEF AnsweredInv
    <3>4. QED BY <2>3, <3>2, <3>3 DEF StoreSms
  <2>4. CASE Resolve(h)
    <3>1. /\ pc[h] = "resolve"
          /\ todo' = [todo EXCEPT ![h] = RecipientsUnder(link, access)]
          /\ pc' = [pc EXCEPT ![h] = "fanout"]
          /\ UNCHANGED <<inbound, owed, acked, reserved, sms, link, access, delivery>>
      BY <2>4 DEF Resolve, database, history
    <3>2. \A c \in EligibleUnder(link, access) :
            \E r \in RecipientsUnder(link, access) : r.chat = c
      <4>1. SUFFICES ASSUME NEW c \in EligibleUnder(link, access)
                     PROVE  [user |-> link[c].user, chat |-> c]
                              \in RecipientsUnder(link, access)
        OBVIOUS
      <4>2. QED BY DEF EligibleUnder, RecipientsUnder, Recipients, TypeOK
    <3>3. AnsweredMeansReserved' /\ LedgerInv'
      BY <3>1 DEF AnsweredInv, AnsweredMeansReserved, LedgerInv, Exists, EligibleUnder
    <3>4. HandlerHasMessage'
      BY <2>0, <3>1 DEF AnsweredInv, HandlerHasMessage, TypeOK, Actors
    <3>5. NobodyForgotten'
      <4>1. owed[sms[h]] \subseteq EligibleUnder(link, access)
        BY DEF AnsweredInv, LedgerInv, TypeOK
      <4>2. QED BY <2>0, <3>1, <3>2, <4>1 DEF AnsweredInv, NobodyForgotten, TypeOK, Actors
    <3>6. QED BY <3>3, <3>4, <3>5 DEF AnsweredInv
  <2>5. ASSUME NEW r \in todo[h], Reserve(h, r) PROVE AnsweredInv'
    <3>0. <<sms[h], r.chat>> \in Pairs /\ UNCHANGED <<inbound, owed, acked, link, access>>
      BY <2>5 DEF Reserve, TypeOK, Recipients, Pairs
    <3>1. CASE /\ ~Exists(<<sms[h], r.chat>>) /\ r.user \notin users
               /\ Return(h)
               /\ todo' = [todo EXCEPT ![h] = {}]
               /\ UNCHANGED <<delivery, nextId, reserved, row>>
      <4>1. AnsweredMeansReserved' /\ LedgerInv'
        BY <3>0, <3>1 DEF AnsweredInv, AnsweredMeansReserved, LedgerInv, Exists, EligibleUnder
      <4>2. HandlerHasMessage' /\ NobodyForgotten'
        BY <2>0, <3>0, <3>1 DEF Return, AnsweredInv, HandlerHasMessage, NobodyForgotten,
                    TypeOK, Actors
      <4>3. QED BY <4>1, <4>2 DEF AnsweredInv
    <3>2. CASE /\ UNCHANGED sms
               /\ todo' = [todo EXCEPT ![h] = @ \ {r}]
               /\ pc' = pc \/ pc' = [pc EXCEPT ![h] = "send"]
               /\ reserved' = reserved \cup {<<sms[h], r.chat>>}
               /\ \A p \in Pairs : Exists(p)' => Exists(p) \/ p = <<sms[h], r.chat>>
      <4>1. pc[h] = "fanout"
        BY <2>5 DEF Reserve
      <4>2. AnsweredMeansReserved'
        BY <3>0, <3>2 DEF AnsweredInv, AnsweredMeansReserved
      <4>3. HandlerHasMessage'
        BY <2>0, <3>0, <3>2, <4>1 DEF AnsweredInv, HandlerHasMessage, TypeOK, Actors
      <4>4. NobodyForgotten'
        BY <2>0, <3>0, <3>2, <4>1 DEF AnsweredInv, NobodyForgotten, TypeOK, Actors
      <4>5. LedgerInv'
        BY <3>0, <3>2 DEF AnsweredInv, LedgerInv, EligibleUnder
      <4>6. QED BY <4>2, <4>3, <4>4, <4>5 DEF AnsweredInv
    <3>3. CASE /\ ~Exists(<<sms[h], r.chat>>) /\ r.user \in users
               /\ delivery' = [delivery EXCEPT ![<<sms[h], r.chat>>] =
                    [id |-> nextId, user |-> r.user, status |-> "pending", attempts |-> 0]]
               /\ reserved' = reserved \cup {<<sms[h], r.chat>>}
               /\ todo' = [todo EXCEPT ![h] = @ \ {r}]
               /\ pc' = [pc EXCEPT ![h] = "send"]
               /\ UNCHANGED <<sid, sms>>
      <4>1. \A p \in Pairs : p # <<sms[h], r.chat>> => delivery'[p] = delivery[p]
        BY <3>0, <3>3 DEF TypeOK
      <4>2. QED BY <3>2, <3>3, <4>1 DEF Exists
    <3>4. CASE /\ Exists(<<sms[h], r.chat>>)
               /\ todo' = [todo EXCEPT ![h] = @ \ {r}]
               /\ UNCHANGED <<delivery, nextId, reserved, row, pc, sid, sms>>
      <4>1. <<sms[h], r.chat>> \in reserved
        BY <3>0, <3>4 DEF AnsweredInv, LedgerInv
      <4>2. reserved' = reserved \cup {<<sms[h], r.chat>>}
        BY <3>4, <4>1
      <4>3. QED BY <3>2, <3>4, <4>2 DEF Exists
    <3>5. QED BY <2>5, <3>1, <3>3, <3>4 DEF Reserve
  <2>6. CASE Answer(h)
    <3>1. /\ pc[h] = "fanout" /\ todo[h] = {}
          /\ acked' = acked \cup {sms[h]}
          /\ UNCHANGED <<inbound, owed, reserved, todo, link, access, delivery>>
      BY <2>6 DEF Answer, database
    <3>2. inbound[sms[h]] # Free /\ \A c \in owed[sms[h]] : <<sms[h], c>> \in reserved
      BY <3>1 DEF AnsweredInv, HandlerHasMessage, NobodyForgotten
    <3>3. AnsweredMeansReserved' /\ LedgerInv'
      BY <3>1, <3>2 DEF AnsweredInv, AnsweredMeansReserved, LedgerInv, Exists, EligibleUnder
    <3>4. HandlerHasMessage' /\ NobodyForgotten'
      BY <2>0, <2>6, <3>1 DEF Answer, Return, AnsweredInv, HandlerHasMessage,
                  NobodyForgotten, TypeOK, Actors
    <3>5. QED BY <3>3, <3>4 DEF AnsweredInv
  <2>7. QED BY <1>1, <2>1, <2>2, <2>3, <2>4, <2>5, <2>6 DEF HandlerNext
<1>2. ASSUME NEW a \in Actors, Send(a) PROVE AnsweredInv'
  BY <1>2, AnsweredFrame
     DEF Send, TypeOK, AnsweredInv, LedgerInv, Exists, EligibleUnder, Actors,
         database, environment
<1>3. ASSUME NEW a \in Actors, Mark(a) PROVE AnsweredInv'
  <2>1. \A p \in Pairs : Exists(p)' => Exists(p)
    <3>1. \A st \in Statuses : MarkRow(row[a], st) =>
            \A p \in Pairs : delivery'[p].id = delivery[p].id
      BY MarkRowKeepsIds DEF TypeOK
    <3>2. \A p \in Pairs : delivery'[p].id = delivery[p].id
      BY <1>3, <3>1 DEF Mark, Statuses
    <3>3. QED BY <3>2 DEF Exists
  <2>2. /\ \A m \in SmsIds : owed'[m] \subseteq owed[m]
        /\ \A m \in SmsIds : owed'[m] \subseteq EligibleUnder(link, access)'
    BY <1>3, StillOwedShrinks DEF Mark, AnsweredInv, LedgerInv, EligibleUnder
  <2>3. \A h \in Handlers : pc'[h] = pc[h] \/ (pc[h] = "mark" /\ pc'[h] = "fanout")
    BY <1>3 DEF Mark, TypeOK, Actors
  <2>4. QED BY <1>3, <2>1, <2>2, <2>3, AnsweredFrame DEF Mark
<1>4. CASE MonitorNext
  <2>1. \A h \in Handlers : h \in Actors /\ h # Monitor
    BY DEF Actors
  <2>2. \A h \in Handlers : pc'[h] = pc[h]
    BY <1>4, <2>1 DEF MonitorNext, Poll, Visit, Sleep, TypeOK
  <2>3. UNCHANGED <<inbound, acked, reserved, sms, todo, owed, link, access, delivery>>
    BY <1>4 DEF MonitorNext, Poll, Visit, Sleep, database, history
  <2>4. QED
    BY <2>2, <2>3, AnsweredFrame DEF AnsweredInv, LedgerInv, Exists, EligibleUnder
<1>5. CASE EnvironmentNext
  <2>1. ASSUME NEW c \in Chats, NEW u \in Users, LinkChat(c, u) PROVE AnsweredInv'
    <3>1. /\ UNCHANGED <<inbound, acked, reserved, sms, todo, pc, delivery, access>>
          /\ owed' = StillOwed(link', access)
      BY <2>1 DEF LinkChat, locals
    <3>2. \A m \in SmsIds : owed'[m] \subseteq EligibleUnder(link, access)'
      BY <3>1, StillOwedShrinks DEF EligibleUnder
    <3>3. \A m \in SmsIds : owed'[m] \subseteq owed[m]
      BY <3>1, StillOwedShrinks
    <3>4. QED BY <3>1, <3>2, <3>3, AnsweredFrame DEF Exists
  <2>2. ASSUME NEW u \in Users, ChangeAccess(u) PROVE AnsweredInv'
    BY <2>2, AnsweredFrame, StillOwedShrinks DEF ChangeAccess, EligibleUnder, Exists, locals
  <2>3. ASSUME NEW u \in Users, DeleteUser(u) PROVE AnsweredInv'
    BY <2>3, AnsweredFrame, StillOwedShrinks
       DEF DeleteUser, NoRow, EligibleUnder, Exists, locals, TypeOK
  <2>4. ASSUME NEW c \in Chats, ToggleBlock(c) PROVE AnsweredInv'
    BY <2>4, AnsweredFrame
       DEF ToggleBlock, AnsweredInv, LedgerInv, EligibleUnder, Exists, database,
           locals, history
  <2>5. CASE Restart
    <3>1. \A h \in Handlers : pc'[h] = "idle"
      BY <2>5 DEF Restart, Actors
    <3>2. UNCHANGED <<inbound, acked, reserved, owed, link, access, delivery>>
      BY <2>5 DEF Restart, database
    <3>3. QED
      BY <3>1, <3>2 DEF AnsweredInv, AnsweredMeansReserved, HandlerHasMessage,
                        NobodyForgotten, LedgerInv, EligibleUnder, Exists
  <2>6. QED BY <1>5, <2>1, <2>2, <2>3, <2>4, <2>5 DEF EnvironmentNext
<1>6. CASE UNCHANGED vars
  BY <1>6 DEF vars, database, environment, locals, history, AnsweredInv,
              AnsweredMeansReserved, HandlerHasMessage, NobodyForgotten, LedgerInv,
              EligibleUnder, Exists
<1>7. QED BY <1>1, <1>2, <1>3, <1>4, <1>5, <1>6 DEF Next

\* Whatever handlers crash, repeat or overlap: once a webhook is answered 200,
\* every chat entitled since the message was stored has had its delivery row.
THEOREM SmsAnsweredMeansReserved == Spec => []AnsweredMeansReserved
<1>1. Init => AnsweredInv
  BY DEF Init, AnsweredInv, AnsweredMeansReserved, HandlerHasMessage, NobodyForgotten,
         LedgerInv, Exists, NoRow, Actors
<1>2. AnsweredInv => AnsweredMeansReserved
  BY DEF AnsweredInv
<1>3. QED BY <1>1, <1>2, AnsweredStep, SmsTypeCorrect, PTL DEF Spec

----------------------------------------------------------------------------
(* One stored message per sid, and `sent` is never a lie                    *)

\* Every step keeps a sid on one stored message: the insert of a second one loses to
\* the UNIQUE constraint and reads the first.
LEMMA OneMessageStep == TypeOK /\ OneMessagePerSid /\ [Next]_vars => OneMessagePerSid'
<1> SUFFICES ASSUME TypeOK, OneMessagePerSid, [Next]_vars PROVE OneMessagePerSid'
  OBVIOUS
<1> USE SmsConstants
<1>1. CASE UNCHANGED inbound
  BY <1>1 DEF OneMessagePerSid
<1>2. ASSUME NEW h \in Handlers, StoreSms(h) PROVE OneMessagePerSid'
  <2>1. CASE sid[h] = NoSid \/ MessagesWith(sid[h]) = {}
    <3>1. \/ UNCHANGED inbound
          \/ \E m \in SmsIds : inbound' = [inbound EXCEPT ![m] = sid[h]]
      BY <1>2 DEF StoreSms, MessagesWith
    <3>2. QED BY <2>1, <3>1, <1>1 DEF OneMessagePerSid, MessagesWith, TypeOK
  <2>2. CASE ~(sid[h] = NoSid \/ MessagesWith(sid[h]) = {})
    BY <1>1, <1>2, <2>2 DEF StoreSms
  <2>3. QED BY <2>1, <2>2
<1>3. CASE \A h \in Handlers : ~StoreSms(h)
  <2>1. UNCHANGED inbound
    BY <1>3 DEF Next, HandlerNext, MonitorNext, EnvironmentNext, Webhook, FindBySid,
       Resolve, Reserve, Answer, Send, Mark, Poll, Visit, Sleep, LinkChat, ChangeAccess,
       DeleteUser, ToggleBlock, Restart, vars, database
  <2>2. QED BY <1>1, <2>1
<1>4. QED BY <1>2, <1>3

\* Concurrent and repeated webhooks with one MessageSid store one message.
THEOREM SmsOneMessagePerSid == Spec => []OneMessagePerSid
<1>1. Init => OneMessagePerSid
  BY SmsConstants DEF Init, OneMessagePerSid
<1>2. QED BY <1>1, OneMessageStep, SmsTypeCorrect, PTL DEF Spec

\* An actor about to record `sent` has delivered a copy.
SentInv ==
  /\ SentMeansDelivered
  /\ \A a \in Actors : pc[a] = "mark" /\ out[a] = "sent" => copies[row[a].pair] >= 1

\* Every step keeps `sent` truthful: only an actor whose send returned records it.
LEMMA SentStep == TypeOK /\ SentInv /\ [Next]_vars => SentInv'
<1> SUFFICES ASSUME TypeOK, SentInv, [Next]_vars PROVE SentInv'
  OBVIOUS
<1> USE SmsConstants DEF SentInv
<1>1. ASSUME NEW h \in Handlers, HandlerNext(h) PROVE SentInv'
  <2>1. h \in Actors
    BY DEF Actors
  <2>2. UNCHANGED <<copies, out>> /\ pc'[h] # "mark"
        /\ \A a \in Actors \ {h} : pc'[a] = pc[a] /\ row'[a] = row[a]
    BY <1>1, <2>1 DEF HandlerNext, Webhook, FindBySid, StoreSms, Resolve, Reserve, Answer,
       Return, TypeOK, history
  <2>3. \A p \in Pairs : delivery'[p] = delivery[p] \/ delivery'[p].status = "pending"
    <3>1. ASSUME NEW r \in todo[h], Reserve(h, r)
          PROVE  UNCHANGED delivery \/ delivery' = [delivery EXCEPT ![<<sms[h], r.chat>>] =
                   [id |-> nextId, user |-> r.user, status |-> "pending", attempts |-> 0]]
      BY <3>1 DEF Reserve
    <3>2. ASSUME NEW r \in todo[h], Reserve(h, r), NEW p \in Pairs
          PROVE  delivery'[p] = delivery[p] \/ delivery'[p].status = "pending"
      <4>1. UNCHANGED delivery \/ delivery' = [delivery EXCEPT ![<<sms[h], r.chat>>] =
              [id |-> nextId, user |-> r.user, status |-> "pending", attempts |-> 0]]
        BY <3>1, <3>2
      <4>2. delivery \in [Pairs -> Rows]
        BY DEF TypeOK
      <4>3. QED BY <4>1, <4>2
    <3>3. UNCHANGED delivery \/ \E r \in todo[h] : Reserve(h, r)
      BY <1>1 DEF HandlerNext, Webhook, FindBySid, StoreSms, Resolve, Answer, database
    <3>4. QED BY <3>2, <3>3
  <2>4. QED BY <2>1, <2>2, <2>3 DEF SentMeansDelivered
<1>2. ASSUME NEW a \in Actors, Send(a) PROVE SentInv'
  <2>1. row[a].pair \in Pairs
    BY DEF TypeOK, Handles
  <2>2. \A p \in Pairs : copies'[p] >= copies[p] /\ copies'[p] \in Nat
    BY <1>2, <2>1 DEF Send, TypeOK
  <2>3. out'[a] = "sent" => copies'[row[a].pair] >= 1
    BY <1>2, <2>1 DEF Send, TypeOK
  <2>4. UNCHANGED <<delivery, row>>
        /\ \A b \in Actors \ {a} : pc'[b] = pc[b] /\ out'[b] = out[b]
    BY <1>2 DEF Send, TypeOK, database
  <2>5. \A b \in Actors : row[b].pair \in Pairs
    BY DEF TypeOK, Handles
  <2>6. \A p \in Pairs : copies[p] \in Nat
    BY DEF TypeOK
  <2>7. QED BY <2>2, <2>3, <2>4, <2>5, <2>6 DEF SentMeansDelivered
<1>3. ASSUME NEW a \in Actors, Mark(a) PROVE SentInv'
  <2>1. row[a].pair \in Pairs
    BY DEF TypeOK, Handles
  <2>2. \A p \in Pairs : \/ delivery'[p].status = delivery[p].status
                         \/ delivery'[p].status # "sent"
                         \/ p = row[a].pair /\ out[a] = "sent"
    BY <1>3, <2>1 DEF Mark, MarkRow, TypeOK, Rows
  <2>3. UNCHANGED copies /\ pc[a] = "mark" /\ pc'[a] # "mark"
        /\ \A b \in Actors \ {a} : pc'[b] = pc[b] /\ out'[b] = out[b] /\ row'[b] = row[b]
    BY <1>3 DEF Mark, TypeOK
  <2>4. QED BY <2>2, <2>3 DEF SentMeansDelivered
<1>4. CASE MonitorNext
  <2>1. UNCHANGED <<copies, delivery>>
        /\ (pc'[Monitor] # "mark" \/ out'[Monitor] # "sent")
        /\ \A a \in Actors \ {Monitor} : pc'[a] = pc[a] /\ out'[a] = out[a] /\ row'[a] = row[a]
    BY <1>4 DEF MonitorNext, Poll, Visit, Sleep, TypeOK, Actors, database, history
  <2>2. QED BY <2>1 DEF SentMeansDelivered
<1>5. CASE EnvironmentNext
  <2>1. UNCHANGED copies /\ (UNCHANGED <<pc, row, out>> \/ \A a \in Actors : pc'[a] # "mark")
    BY <1>5 DEF EnvironmentNext, LinkChat, ChangeAccess, DeleteUser, ToggleBlock, Restart,
       locals, history
  <2>2. \A p \in Pairs : delivery'[p] = delivery[p] \/ delivery'[p].status # "sent"
    BY <1>5 DEF EnvironmentNext, LinkChat, ChangeAccess, DeleteUser, ToggleBlock, Restart,
       NoRow, database
  <2>3. QED BY <2>1, <2>2 DEF SentMeansDelivered
<1>6. CASE UNCHANGED vars
  BY <1>6 DEF SentMeansDelivered, vars, database, locals, history
<1>7. QED BY <1>1, <1>2, <1>3, <1>4, <1>5, <1>6 DEF Next

\* A delivery recorded as sent reached Telegram at least once.
THEOREM SmsSentMeansDelivered == Spec => []SentMeansDelivered
<1>1. Init => SentInv
  BY DEF Init, SentInv, SentMeansDelivered, NoRow
<1>2. SentInv => SentMeansDelivered
  BY DEF SentInv
<1>3. QED BY <1>1, <1>2, SentStep, SmsTypeCorrect, PTL DEF Spec

----------------------------------------------------------------------------
(* A row is tried at most once more than the limit                          *)

\* The row of p as the retry query and a reservation hand it out.
Handle(p) == [pair |-> p, id |-> delivery[p].id]

ByHandler(p) == \E h \in Handlers : Holding(h) /\ row[h] = Handle(p)
ByMonitor(p) == (Holding(Monitor) /\ row[Monitor] = Handle(p)) \/ Handle(p) \in queue

\* Identifiers are handed out once, and a row without one is no row.
FreshIds ==
  /\ \A p \in Pairs : delivery[p].id < nextId
  /\ \A p \in Pairs : delivery[p].id = 0 => delivery[p] = NoRow
  /\ \A a \in Actors : Holding(a) => row[a].id # 0 /\ row[a].id < nextId
  /\ \A r \in queue : r.id # 0 /\ r.id < nextId

\* A row is in the hands of the handler that inserted it and of no other, and
\* the monitor does not visit a row twice in a pass.
OwnHands ==
  /\ \A g, h \in Handlers : Holding(g) /\ Holding(h) /\ row[g].id = row[h].id => g = h
  /\ Holding(Monitor) => row[Monitor] \notin queue

\* What is still to be recorded of a row leaves room for it under the limit.
Tried(p) ==
  /\ delivery[p].attempts <= MaxAttempts + 1
  /\ ByHandler(p) \/ ByMonitor(p) => delivery[p].attempts <= MaxAttempts
  /\ ByHandler(p) /\ ByMonitor(p) => delivery[p].attempts < MaxAttempts

AttemptsInv == FreshIds /\ OwnHands /\ \A p \in Pairs : Tried(p)

\* A step that touches neither rows nor hands, or empties hands, changes nothing.
LEMMA AttemptsFrame ==
  ASSUME AttemptsInv, UNCHANGED <<delivery, nextId>>,
         \A a \in Actors : Holding(a)' => Holding(a) /\ row'[a] = row[a],
         queue' \subseteq queue
  PROVE  AttemptsInv'
<1>0. Monitor \in Actors /\ Handlers \subseteq Actors
  BY DEF Actors
<1>1. FreshIds'
  BY DEF AttemptsInv, FreshIds
<1>2. OwnHands'
  BY <1>0 DEF AttemptsInv, OwnHands
<1>3. \A p \in Pairs : (ByHandler(p)' => ByHandler(p)) /\ (ByMonitor(p)' => ByMonitor(p))
  BY <1>0 DEF ByHandler, ByMonitor, Handle
<1>4. QED BY <1>1, <1>2, <1>3 DEF AttemptsInv, Tried

\* A handler's steps other than Reserve leave rows, copies and hands as they are.
LEMMA QuietHandlerStep ==
  ASSUME TypeOK, NEW h \in Handlers,
         \/ \E d \in Sids \cup {NoSid} : Webhook(h, d)
         \/ FindBySid(h) \/ StoreSms(h) \/ Resolve(h) \/ Answer(h)
  PROVE  /\ UNCHANGED <<delivery, nextId, copies, excused, row, out, queue>>
         /\ ~Holding(h) /\ ~Holding(h)'
         /\ \A a \in Actors \ {h} : pc'[a] = pc[a]
<1>1. h \in Actors
  BY DEF Actors
<1>2. QED
  BY <1>1 DEF Webhook, FindBySid, StoreSms, Resolve, Answer, Return, Holding, TypeOK,
              database, history

\* What a reservation does to rows and hands.
LEMMA ReserveKinds ==
  ASSUME TypeOK, NEW h \in Handlers, NEW r \in todo[h], Reserve(h, r)
  PROVE  /\ h \in Actors /\ <<sms[h], r.chat>> \in Pairs /\ nextId # 0
         /\ UNCHANGED <<copies, excused, out, queue>> /\ ~Holding(h)
         /\ \A a \in Actors \ {h} : pc'[a] = pc[a] /\ row'[a] = row[a]
         /\ \/ UNCHANGED <<delivery, nextId, row>> /\ ~Holding(h)'
            \/ /\ ~Exists(<<sms[h], r.chat>>) /\ nextId' = nextId + 1
               /\ delivery'[<<sms[h], r.chat>>] =
                    [id |-> nextId, user |-> r.user, status |-> "pending", attempts |-> 0]
               /\ \A p \in Pairs \ {<<sms[h], r.chat>>} : delivery'[p] = delivery[p]
               /\ row'[h] = [pair |-> <<sms[h], r.chat>>, id |-> nextId]
               /\ pc'[h] = "send" /\ Holding(h)'
<1>1. h \in Actors /\ <<sms[h], r.chat>> \in Pairs /\ nextId # 0 /\ pc[h] = "fanout"
  BY DEF Actors, TypeOK, Reserve, Recipients, Pairs
<1>2. ~Holding(h)
  BY <1>1 DEF Holding
<1>3. /\ UNCHANGED <<copies, excused, out, queue>>
      /\ \A a \in Actors \ {h} : pc'[a] = pc[a] /\ row'[a] = row[a]
  BY DEF Reserve, Return, TypeOK
<1>4. \/ UNCHANGED <<delivery, nextId, row>> /\ ~Holding(h)'
      \/ /\ ~Exists(<<sms[h], r.chat>>) /\ nextId' = nextId + 1
         /\ delivery' = [delivery EXCEPT ![<<sms[h], r.chat>>] =
              [id |-> nextId, user |-> r.user, status |-> "pending", attempts |-> 0]]
         /\ row' = [row EXCEPT ![h] = [pair |-> <<sms[h], r.chat>>, id |-> nextId]]
         /\ pc' = [pc EXCEPT ![h] = "send"]
  BY <1>1 DEF Reserve, Return, Holding, TypeOK
<1>5. CASE UNCHANGED <<delivery, nextId, row>> /\ ~Holding(h)'
  BY <1>1, <1>2, <1>3, <1>5
<1>6. CASE /\ ~Exists(<<sms[h], r.chat>>) /\ nextId' = nextId + 1
           /\ delivery' = [delivery EXCEPT ![<<sms[h], r.chat>>] =
                [id |-> nextId, user |-> r.user, status |-> "pending", attempts |-> 0]]
           /\ row' = [row EXCEPT ![h] = [pair |-> <<sms[h], r.chat>>, id |-> nextId]]
           /\ pc' = [pc EXCEPT ![h] = "send"]
  <2>1. /\ delivery'[<<sms[h], r.chat>>] =
             [id |-> nextId, user |-> r.user, status |-> "pending", attempts |-> 0]
        /\ \A p \in Pairs \ {<<sms[h], r.chat>>} : delivery'[p] = delivery[p]
    BY <1>1, <1>6 DEF TypeOK
  <2>2. row'[h] = [pair |-> <<sms[h], r.chat>>, id |-> nextId] /\ pc'[h] = "send"
    BY <1>1, <1>6 DEF TypeOK
  <2>3. QED BY <1>1, <1>2, <1>3, <1>6, <2>1, <2>2 DEF Holding
<1>7. QED BY <1>4, <1>5, <1>6

\* What recording an outcome does to rows and hands.
LEMMA MarkKinds ==
  ASSUME TypeOK, NEW a \in Actors, Mark(a)
  PROVE  /\ row[a].pair \in Pairs /\ pc[a] = "mark" /\ Holding(a) /\ ~Holding(a)'
         /\ UNCHANGED <<copies, excused, queue, nextId>>
         /\ \A b \in Actors \ {a} : pc'[b] = pc[b] /\ out'[b] = out[b] /\ row'[b] = row[b]
         /\ \A p \in Pairs \ {row[a].pair} : delivery'[p] = delivery[p]
         /\ \/ delivery[row[a].pair].id # row[a].id
               /\ delivery'[row[a].pair] = delivery[row[a].pair]
            \/ /\ delivery[row[a].pair].id = row[a].id
               /\ delivery'[row[a].pair].id = row[a].id
               /\ delivery'[row[a].pair].attempts = delivery[row[a].pair].attempts + 1
               /\ delivery'[row[a].pair].status \in {"sent", "failed", "dead"}
               /\ delivery'[row[a].pair].status = "sent" <=> out[a] = "sent"
<1> USE SmsConstants
<1>1. row[a].pair \in Pairs /\ pc[a] = "mark" /\ Holding(a)
  BY DEF TypeOK, Handles, Mark, Holding
<1>2. /\ UNCHANGED <<copies, excused, queue, nextId>> /\ ~Holding(a)'
      /\ \A b \in Actors \ {a} : pc'[b] = pc[b] /\ out'[b] = out[b] /\ row'[b] = row[b]
  BY DEF Mark, Holding, TypeOK
<1>3. PICK st \in {"sent", "failed", "dead"} :
        MarkRow(row[a], st) /\ (st = "sent" <=> out[a] = "sent")
  BY DEF Mark
<1>4. \A p \in Pairs \ {row[a].pair} : delivery'[p] = delivery[p]
  BY <1>1, <1>3 DEF MarkRow, TypeOK
<1>5. CASE delivery[row[a].pair].id # row[a].id
  BY <1>1, <1>2, <1>3, <1>4, <1>5 DEF MarkRow
<1>6. CASE delivery[row[a].pair].id = row[a].id
  <2>1. delivery'[row[a].pair] =
          [delivery[row[a].pair] EXCEPT !.status = st, !.attempts = @ + 1]
    BY <1>1, <1>3, <1>6 DEF MarkRow, TypeOK
  <2>2. delivery[row[a].pair] \in Rows
    BY <1>1 DEF TypeOK
  <2>3. /\ delivery'[row[a].pair].id = row[a].id
        /\ delivery'[row[a].pair].attempts = delivery[row[a].pair].attempts + 1
        /\ delivery'[row[a].pair].status = st
    BY <1>6, <2>1, <2>2 DEF Rows
  <2>4. QED BY <1>1, <1>2, <1>3, <1>4, <1>6, <2>3
<1>7. QED BY <1>5, <1>6

\* A reservation hands out a row that was never tried.
LEMMA AttemptsReserve ==
  ASSUME TypeOK, AttemptsInv, NEW h \in Handlers, NEW r \in todo[h], Reserve(h, r)
  PROVE  AttemptsInv'
<1> DEFINE q == <<sms[h], r.chat>>
<1> USE SmsConstants
<1>1. CASE UNCHANGED <<delivery, nextId, row>> /\ ~Holding(h)'
  <2>1. \A a \in Actors : Holding(a)' => Holding(a) /\ row'[a] = row[a]
    BY <1>1, ReserveKinds DEF Holding
  <2>2. QED BY <1>1, <2>1, ReserveKinds, AttemptsFrame
<1>2. CASE /\ ~Exists(q) /\ nextId' = nextId + 1
           /\ delivery'[q] = [id |-> nextId, user |-> r.user, status |-> "pending", attempts |-> 0]
           /\ \A p \in Pairs \ {q} : delivery'[p] = delivery[p]
           /\ row'[h] = [pair |-> q, id |-> nextId]
           /\ pc'[h] = "send" /\ Holding(h)'
  <2>0. /\ Monitor \in Actors \ {h} /\ Handlers \subseteq Actors /\ nextId \in Nat \ {0}
        /\ \A a \in Actors \ {h} : (Holding(a)' <=> Holding(a)) /\ row'[a] = row[a]
        /\ UNCHANGED queue /\ q \in Pairs
    BY ReserveKinds DEF Actors, TypeOK, Holding
  <2>1. \A a \in Actors : row[a].id \in Nat /\ \A s \in queue : s.id \in Nat
    BY DEF TypeOK, Handles
  <2>2. \A p \in Pairs : delivery[p].id \in Nat
    BY DEF TypeOK, Rows
  <2>3. FreshIds'
    <3>1. \A p \in Pairs : delivery'[p].id < nextId'
      BY <1>2, <2>0, <2>2 DEF AttemptsInv, FreshIds
    <3>2. \A p \in Pairs : delivery'[p].id = 0 => delivery'[p] = NoRow
      BY <1>2, <2>0 DEF AttemptsInv, FreshIds
    <3>3. \A a \in Actors : Holding(a)' => row'[a].id # 0 /\ row'[a].id < nextId'
      BY <1>2, <2>0, <2>1 DEF AttemptsInv, FreshIds
    <3>4. \A s \in queue' : s.id # 0 /\ s.id < nextId'
      BY <1>2, <2>0, <2>1 DEF AttemptsInv, FreshIds
    <3>5. QED BY <3>1, <3>2, <3>3, <3>4 DEF FreshIds
  <2>4. \A a \in Actors \ {h} : Holding(a) => row[a].id # nextId
    BY <2>0, <2>1 DEF AttemptsInv, FreshIds
  <2>5. OwnHands'
    BY <1>2, <2>0, <2>4 DEF AttemptsInv, OwnHands
  <2>6. ASSUME NEW p \in Pairs PROVE Tried(p)'
    <3>1. CASE p = q
      <4>1. delivery'[p].attempts = 0
        BY <1>2, <3>1
      <4>2. ~ByMonitor(p)'
        <5>1. Handle(p)'.id = nextId
          BY <1>2, <3>1 DEF Handle
        <5>2. \A s \in queue : s.id # nextId
          BY <2>0, <2>1 DEF AttemptsInv, FreshIds
        <5>3. QED BY <2>0, <2>4, <5>1, <5>2 DEF ByMonitor
      <4>3. QED BY <4>1, <4>2 DEF Tried
    <3>2. CASE p # q
      <4>1. Handle(p)' = Handle(p) /\ delivery'[p] = delivery[p]
        BY <1>2, <3>2 DEF Handle
      <4>2. ByMonitor(p)' => ByMonitor(p)
        BY <2>0, <4>1 DEF ByMonitor
      <4>3. row'[h] # Handle(p)
        BY <1>2, <3>2 DEF Handle
      <4>4. ByHandler(p)' => ByHandler(p)
        BY <2>0, <4>1, <4>3 DEF ByHandler
      <4>5. QED BY <4>1, <4>2, <4>4 DEF AttemptsInv, Tried
    <3>3. QED BY <3>1, <3>2
  <2>7. QED BY <2>3, <2>5, <2>6 DEF AttemptsInv
<1>3. QED BY <1>1, <1>2, ReserveKinds

\* An outcome is recorded by letting go of the row.
LEMMA AttemptsMark ==
  ASSUME TypeOK, AttemptsInv, NEW a \in Actors, Mark(a)
  PROVE  AttemptsInv'
<1> DEFINE q == row[a].pair
<1> USE SmsConstants
<1>0. /\ Monitor \in Actors /\ Handlers \subseteq Actors /\ Monitor \notin Handlers
      /\ Holding(a) /\ ~Holding(a)'
      /\ \A b \in Actors \ {a} : (Holding(b)' <=> Holding(b)) /\ row'[b] = row[b]
      /\ UNCHANGED <<queue, nextId>> /\ q \in Pairs
      /\ \A p \in Pairs : delivery'[p].id = delivery[p].id
  BY MarkKinds DEF Actors, Holding
<1>1. \A p \in Pairs : Handle(p)' = Handle(p)
  BY <1>0 DEF Handle
<1>2. \A p \in Pairs : (ByHandler(p)' => ByHandler(p)) /\ (ByMonitor(p)' => ByMonitor(p))
  BY <1>0, <1>1 DEF ByHandler, ByMonitor
<1>3. FreshIds'
  <2>1. \A p \in Pairs : delivery'[p].id = 0 => delivery'[p] = NoRow
    BY <1>0, MarkKinds DEF AttemptsInv, FreshIds
  <2>2. QED BY <1>0, <2>1 DEF AttemptsInv, FreshIds
<1>4. OwnHands'
  BY <1>0 DEF AttemptsInv, OwnHands
<1>5. ASSUME NEW p \in Pairs PROVE Tried(p)'
  <2>1. CASE delivery'[p] = delivery[p]
    BY <1>2, <2>1 DEF AttemptsInv, Tried
  <2>2. CASE delivery'[p] # delivery[p]
    <3>1. p = q /\ delivery[p].id = row[a].id /\ delivery'[p].attempts = delivery[p].attempts + 1
      BY <2>2, MarkKinds
    <3>2. row[a] = Handle(p)
      BY <3>1 DEF Handle, TypeOK, Handles
    <3>3. delivery[p].attempts \in Nat
      BY DEF TypeOK, Rows
    <3>4. Tried(p)
      BY DEF AttemptsInv
    <3>5. CASE a \in Handlers
      <4>1. ByHandler(p)
        BY <1>0, <3>2, <3>5 DEF ByHandler
      <4>2. ~ByHandler(p)'
        BY <1>0, <1>1, <3>2, <3>5 DEF ByHandler, AttemptsInv, OwnHands
      <4>3. QED BY <1>2, <3>1, <3>3, <3>4, <4>1, <4>2 DEF Tried
    <3>6. CASE a = Monitor
      <4>1. ByMonitor(p)
        BY <1>0, <3>2, <3>6 DEF ByMonitor
      <4>2. ~ByMonitor(p)'
        BY <1>0, <1>1, <3>2, <3>6 DEF ByMonitor, AttemptsInv, OwnHands
      <4>3. QED BY <1>2, <3>1, <3>3, <3>4, <4>1, <4>2 DEF Tried
    <3>7. QED BY <3>5, <3>6 DEF Actors
  <2>3. QED BY <2>1, <2>2
<1>6. QED BY <1>3, <1>4, <1>5 DEF AttemptsInv

\* A pass of the monitor takes up rows that are below the limit.
LEMMA AttemptsMonitor ==
  ASSUME TypeOK, AttemptsInv, MonitorNext
  PROVE  AttemptsInv'
<1> USE SmsConstants
<1>0. /\ Monitor \in Actors /\ Handlers \subseteq Actors /\ Monitor \notin Handlers
      /\ UNCHANGED <<delivery, nextId>> /\ ~Holding(Monitor)
      /\ \A h \in Handlers : (Holding(h)' <=> Holding(h)) /\ row'[h] = row[h]
  BY DEF MonitorNext, Poll, Visit, Sleep, database, Actors, Holding, TypeOK
<1>1. \A p \in Pairs : Handle(p)' = Handle(p) /\ (ByHandler(p)' <=> ByHandler(p))
  BY <1>0 DEF Handle, ByHandler
<1>2. CASE Poll
  <2>1. queue' = Pending /\ ~Holding(Monitor)'
    BY <1>0, <1>2 DEF Poll, TypeOK, Holding
  <2>2. ASSUME NEW r \in Pending
        PROVE  r.pair \in Pairs /\ Retryable(r.pair) /\ r.id = delivery[r.pair].id
    BY DEF Pending, Candidates
  <2>3. \A r \in Pending : r.id # 0 /\ r.id < nextId
    BY <2>2 DEF AttemptsInv, FreshIds, Retryable, NoRow
  <2>4. FreshIds' /\ OwnHands'
    BY <1>0, <2>1, <2>3 DEF AttemptsInv, FreshIds, OwnHands, Actors
  <2>5. ASSUME NEW p \in Pairs PROVE Tried(p)'
    <3>1. ByMonitor(p)' => Retryable(p)
      BY <1>1, <2>1, <2>2 DEF ByMonitor, Handle
    <3>2. delivery[p].attempts \in Nat
      BY DEF TypeOK, Rows
    <3>3. QED BY <1>0, <1>1, <3>1, <3>2 DEF AttemptsInv, Tried, Retryable
  <2>6. QED BY <2>4, <2>5 DEF AttemptsInv
<1>3. CASE Visit
  <2>1. PICK r \in queue : queue' = queue \ {r} /\ row'[Monitor] = r
    BY <1>0, <1>3 DEF Visit, TypeOK
  <2>2. FreshIds' /\ OwnHands'
    BY <1>0, <2>1 DEF AttemptsInv, FreshIds, OwnHands, Actors
  <2>3. \A p \in Pairs : ByMonitor(p)' => ByMonitor(p)
    BY <1>1, <2>1 DEF ByMonitor
  <2>4. QED BY <1>0, <1>1, <2>2, <2>3 DEF AttemptsInv, Tried
<1>4. CASE Sleep
  <2>1. UNCHANGED <<row, queue>> /\ ~Holding(Monitor)'
    BY <1>0, <1>4 DEF Sleep, TypeOK, Holding
  <2>2. QED BY <1>0, <2>1, AttemptsFrame DEF Actors
<1>5. QED BY <1>2, <1>3, <1>4 DEF MonitorNext

\* People and restarts: a deleted row is no row, a restart empties every hand.
LEMMA AttemptsEnvironment ==
  ASSUME TypeOK, AttemptsInv, EnvironmentNext
  PROVE  AttemptsInv'
<1> USE SmsConstants
<1>1. CASE UNCHANGED <<delivery, nextId, locals>>
  BY <1>1, AttemptsFrame DEF locals, Holding
<1>2. ASSUME NEW u \in Users, DeleteUser(u) PROVE AttemptsInv'
  <2>1. /\ UNCHANGED <<nextId, row, pc, queue>>
        /\ \A p \in Pairs : delivery'[p] = delivery[p] \/ delivery'[p] = NoRow
    BY <1>2 DEF DeleteUser, locals
  <2>2. \A a \in Actors : Holding(a)' <=> Holding(a)
    BY <2>1 DEF Holding
  <2>3. FreshIds' /\ OwnHands'
    BY <2>1, <2>2 DEF AttemptsInv, FreshIds, OwnHands, NoRow, TypeOK, Actors
  <2>4. ASSUME NEW p \in Pairs PROVE Tried(p)'
    <3>1. CASE delivery'[p] = delivery[p]
      BY <2>1, <2>2, <3>1 DEF AttemptsInv, Tried, ByHandler, ByMonitor, Handle, Actors
    <3>2. CASE delivery'[p] = NoRow
      BY <3>2 DEF Tried, NoRow
    <3>3. QED BY <2>1, <3>1, <3>2
  <2>5. QED BY <2>3, <2>4 DEF AttemptsInv
<1>3. CASE Restart
  <2>1. /\ UNCHANGED <<delivery, nextId>> /\ queue' = {}
        /\ \A a \in Actors : ~Holding(a)'
    BY <1>3 DEF Restart, database, Holding
  <2>2. QED BY <2>1, AttemptsFrame
<1>4. QED
  BY <1>1, <1>2, <1>3 DEF EnvironmentNext, LinkChat, ChangeAccess, ToggleBlock, database

\* Every step keeps room for what is still to be recorded.
LEMMA AttemptsStep == TypeOK /\ AttemptsInv /\ [Next]_vars => AttemptsInv'
<1> SUFFICES ASSUME TypeOK, AttemptsInv, [Next]_vars PROVE AttemptsInv'
  OBVIOUS
<1>1. ASSUME NEW h \in Handlers, HandlerNext(h) PROVE AttemptsInv'
  <2>1. CASE \E r \in todo[h] : Reserve(h, r)
    BY <2>1, AttemptsReserve
  <2>2. CASE \/ \E d \in Sids \cup {NoSid} : Webhook(h, d)
             \/ FindBySid(h) \/ StoreSms(h) \/ Resolve(h) \/ Answer(h)
    <3>1. /\ UNCHANGED <<delivery, nextId, row, queue>> /\ ~Holding(h)'
          /\ \A a \in Actors \ {h} : pc'[a] = pc[a]
      BY <2>2, QuietHandlerStep
    <3>2. \A a \in Actors : Holding(a)' => Holding(a) /\ row'[a] = row[a]
      BY <3>1 DEF Holding
    <3>3. QED BY <3>1, <3>2, AttemptsFrame
  <2>3. QED BY <1>1, <2>1, <2>2 DEF HandlerNext
<1>2. ASSUME NEW a \in Actors, Send(a) PROVE AttemptsInv'
  <2>1. UNCHANGED <<delivery, nextId, row, queue>>
    BY <1>2 DEF Send, database
  <2>2. \A b \in Actors : Holding(b)' => Holding(b)
    BY <1>2 DEF Send, Holding, TypeOK
  <2>3. QED BY <2>1, <2>2, AttemptsFrame
<1>3. ASSUME NEW a \in Actors, Mark(a) PROVE AttemptsInv'
  BY <1>3, AttemptsMark
<1>4. CASE MonitorNext
  BY <1>4, AttemptsMonitor
<1>5. CASE EnvironmentNext
  BY <1>5, AttemptsEnvironment
<1>6. CASE UNCHANGED vars
  <2>1. UNCHANGED <<delivery, nextId, row, pc, queue>>
    BY <1>6 DEF vars, database, locals
  <2>2. QED BY <2>1, AttemptsFrame DEF Holding
<1>7. QED BY <1>1, <1>2, <1>3, <1>4, <1>5, <1>6 DEF Next

\* Initially nothing has been tried.
LEMMA AttemptsStart == Init => AttemptsInv
BY SmsConstants DEF Init, AttemptsInv, FreshIds, OwnHands, Tried, NoRow, Holding, Actors

\* A row is tried at most once more than the limit, whatever the webhook that
\* reserved it and the monitor do to it at the same time.
THEOREM SmsAttemptsBounded == Spec => []AttemptsBounded
<1>1. AttemptsInv => AttemptsBounded
  BY DEF AttemptsInv, AttemptsBounded, Tried
<1>2. QED BY <1>1, AttemptsStart, AttemptsStep, SmsTypeCorrect, PTL DEF Spec

----------------------------------------------------------------------------
(* A letter whose promise is not waived                                     *)

\* An actor is between deciding to send p and having stored the outcome.
Has(a, p) == Holding(a) /\ row[a].pair = p
HasSent(a, p) == Has(a, p) /\ pc[a] = "mark" /\ out[a] = "sent"

\* Its copy arrives at most once; whoever has it in hand works on its present
\* row, alone; what the monitor still has to visit is in nobody's hand.
Sure(p) ==
  /\ copies[p] <= 1
  /\ copies[p] = 1 => delivery[p].status = "sent" \/ \E a \in Actors : HasSent(a, p)
  /\ \A a \in Actors : Has(a, p) =>
       /\ row[a].id = delivery[p].id
       /\ delivery[p].status \in {"pending", "failed"}
       /\ ~HasSent(a, p) => copies[p] = 0
  /\ \A a, b \in Actors : Has(a, p) /\ Has(b, p) => a = b
  /\ \A r \in queue : r.pair = p =>
       /\ r.id = delivery[p].id
       /\ delivery[p].status \in {"pending", "failed"}
       /\ copies[p] = 0
       /\ \A a \in Actors : ~Has(a, p)

SureInv == \A p \in Pairs \ excused : Sure(p)

\* A letter stays sure when its row and copies stay, nobody takes it up, and
\* nobody lets go of a copy that is not recorded.
LEMMA SureFrame ==
  ASSUME NEW p \in Pairs, Sure(p),
         delivery'[p] = delivery[p], copies'[p] = copies[p],
         \A a \in Actors : Has(a, p)' => Has(a, p) /\ row'[a] = row[a],
         \A a \in Actors : HasSent(a, p) => HasSent(a, p)',
         \A r \in queue' : r.pair = p => r \in queue
  PROVE  Sure(p)'
<1>1. \A a \in Actors : Has(a, p)' /\ ~HasSent(a, p)' => copies'[p] = 0
  BY DEF Sure
<1>2. QED BY <1>1 DEF Sure

\* Nobody has a letter without a row.
LEMMA NoRowNoHands ==
  ASSUME TypeOK, AttemptsInv, SureInv, NEW p \in Pairs \ excused, ~Exists(p)
  PROVE  /\ copies[p] = 0
         /\ \A a \in Actors : ~Has(a, p)
         /\ \A r \in queue : r.pair # p
<1>1. delivery[p].status = "none" /\ Sure(p) /\ copies[p] \in Nat
  BY DEF AttemptsInv, FreshIds, Exists, NoRow, SureInv, TypeOK
<1>2. QED BY <1>1 DEF Sure, HasSent

\* A reservation: the new row is in the hands of the handler that made it.
LEMMA SureReserve ==
  ASSUME TypeOK, AttemptsInv, SureInv, NEW h \in Handlers, NEW r \in todo[h], Reserve(h, r)
  PROVE  SureInv'
<1>q. PICK q \in Pairs : q = <<sms[h], r.chat>>
  BY ReserveKinds
<1>0. /\ h \in Actors /\ ~Holding(h)
      /\ UNCHANGED <<copies, excused, out, queue>>
      /\ \A a \in Actors \ {h} : pc'[a] = pc[a] /\ row'[a] = row[a]
  BY ReserveKinds
<1>1. ASSUME NEW p \in Pairs, NEW a \in Actors \ {h}
      PROVE  (Has(a, p)' <=> Has(a, p)) /\ (HasSent(a, p)' <=> HasSent(a, p))
  BY <1>0 DEF Has, HasSent, Holding
<1>2. \A p \in Pairs : ~Has(h, p) /\ ~HasSent(h, p)
  BY <1>0 DEF Has, HasSent
<1>3. CASE UNCHANGED <<delivery, nextId, row>> /\ ~Holding(h)'
  <2>1. ASSUME NEW p \in Pairs \ excused PROVE Sure(p)'
    <3>1. ~Has(h, p)'
      BY <1>3 DEF Has
    <3>2. QED BY <1>0, <1>1, <1>2, <1>3, <3>1, SureFrame DEF SureInv
  <2>2. QED BY <1>0, <2>1 DEF SureInv
<1>4. CASE /\ ~Exists(q) /\ nextId' = nextId + 1
           /\ delivery'[q] = [id |-> nextId, user |-> r.user, status |-> "pending", attempts |-> 0]
           /\ \A p \in Pairs \ {q} : delivery'[p] = delivery[p]
           /\ row'[h] = [pair |-> q, id |-> nextId]
           /\ pc'[h] = "send" /\ Holding(h)'
  <2>1. ASSUME NEW p \in Pairs \ excused, p # q PROVE Sure(p)'
    <3>1. ~Has(h, p)'
      BY <1>4, <2>1 DEF Has
    <3>2. QED BY <1>0, <1>1, <1>2, <1>4, <2>1, <3>1, SureFrame DEF SureInv
  <2>2. ASSUME q \notin excused PROVE Sure(q)'
    <3>1. copies[q] = 0 /\ (\A a \in Actors : ~Has(a, q)) /\ \A s \in queue : s.pair # q
      BY <1>0, <1>4, <2>2, NoRowNoHands
    <3>2. \A a \in Actors : Has(a, q)' => a = h
      BY <1>1, <3>1
    <3>3. QED BY <1>0, <1>4, <3>1, <3>2 DEF Sure
  <2>3. QED BY <1>0, <2>1, <2>2 DEF SureInv
<1>5. QED BY <1>q, <1>3, <1>4, ReserveKinds

\* A send: the copy arrives while its row is in the hands of the sender alone.
LEMMA SureSend ==
  ASSUME TypeOK, SureInv, NEW a \in Actors, Send(a)
  PROVE  SureInv'
<1>0. PICK q \in Pairs : q = row[a].pair /\ pc[a] = "send" /\ Has(a, q)
  BY DEF TypeOK, Handles, Send, Has, Holding
<1>1. /\ UNCHANGED <<delivery, row, queue>> /\ pc'[a] = "mark"
      /\ \A b \in Actors \ {a} : pc'[b] = pc[b] /\ out'[b] = out[b]
      /\ excused \subseteq excused'
  BY DEF Send, TypeOK, database
<1>2. \A p \in Pairs \ {q} : copies'[p] = copies[p]
  BY <1>0 DEF Send, TypeOK
<1>3. ASSUME NEW p \in Pairs, NEW b \in Actors
      PROVE  (Has(b, p)' <=> Has(b, p)) /\ (b # a => (HasSent(b, p)' <=> HasSent(b, p)))
  BY <1>0, <1>1 DEF Has, HasSent, Holding
<1>4. ASSUME NEW p \in Pairs \ excused', p # q PROVE Sure(p)'
  <2>1. \A b \in Actors : HasSent(b, p) => b # a
    BY <1>0, <1>4 DEF HasSent, Has
  <2>2. Sure(p)
    BY <1>1, <1>4 DEF SureInv
  <2>3. QED BY <1>1, <1>2, <1>3, <1>4, <2>1, <2>2, SureFrame
<1>5. ASSUME q \notin excused' PROVE Sure(q)'
  <2>1. Sure(q) /\ ~HasSent(a, q)
    BY <1>0, <1>1, <1>5 DEF SureInv, HasSent
  <2>2. /\ copies[q] = 0 /\ row[a].id = delivery[q].id
        /\ delivery[q].status \in {"pending", "failed"}
        /\ \A b \in Actors : Has(b, q) => b = a
        /\ \A r \in queue : r.pair # q
    BY <1>0, <2>1 DEF Sure
  <2>3. \/ out'[a] = "sent" /\ copies'[q] = 1
        \/ copies'[q] = 0
    BY <1>0, <1>5, <2>2 DEF Send, TypeOK
  <2>4. Has(a, q)' /\ (HasSent(a, q)' <=> out'[a] = "sent")
    BY <1>0, <1>1, <1>3 DEF HasSent
  <2>5. QED BY <1>1, <1>3, <2>2, <2>3, <2>4 DEF Sure
<1>6. QED BY <1>4, <1>5 DEF SureInv

\* Recording an outcome: whoever has the letter lets go of it.
LEMMA SureMark ==
  ASSUME TypeOK, SureInv, NEW a \in Actors, Mark(a)
  PROVE  SureInv'
<1>q. PICK q \in Pairs : q = row[a].pair
  BY MarkKinds
<1>0. /\ pc[a] = "mark" /\ Has(a, q) /\ ~Holding(a)'
      /\ UNCHANGED <<copies, excused, queue>>
      /\ \A b \in Actors \ {a} : pc'[b] = pc[b] /\ out'[b] = out[b] /\ row'[b] = row[b]
      /\ \A p \in Pairs \ {q} : delivery'[p] = delivery[p]
  BY <1>q, MarkKinds DEF Has
<1>1. ASSUME NEW p \in Pairs, NEW b \in Actors
      PROVE  (Has(b, p)' <=> Has(b, p) /\ b # a) /\ (HasSent(b, p)' <=> HasSent(b, p) /\ b # a)
  BY <1>0 DEF Has, HasSent, Holding
<1>2. ASSUME NEW p \in Pairs \ excused, p # q PROVE Sure(p)'
  <2>1. \A b \in Actors : Has(b, p) \/ HasSent(b, p) => b # a
    BY <1>q, <1>2 DEF Has, HasSent
  <2>2. \A b \in Actors : Has(b, p)' => row'[b] = row[b]
    BY <1>0, <1>1
  <2>3. QED BY <1>0, <1>1, <1>2, <2>1, <2>2, SureFrame DEF SureInv
<1>3. ASSUME q \notin excused PROVE Sure(q)'
  <2>1. Sure(q)
    BY <1>0, <1>3 DEF SureInv
  <2>2. /\ row[a].id = delivery[q].id
        /\ \A b \in Actors : Has(b, q) => b = a
        /\ \A r \in queue : r.pair # q
        /\ HasSent(a, q) \/ copies[q] = 0
    BY <1>q, <1>0, <2>1 DEF Sure
  <2>3. HasSent(a, q) => delivery'[q].status = "sent"
    BY <1>q, <2>2, MarkKinds DEF HasSent
  <2>4. \A b \in Actors : ~Has(b, q)'
    BY <1>1, <2>2
  <2>5. QED BY <1>0, <2>1, <2>2, <2>3, <2>4 DEF Sure
<1>4. QED BY <1>0, <1>2, <1>3 DEF SureInv

\* The monitor waives what a webhook has in hand when it is selected.
LEMMA SureMonitor ==
  ASSUME TypeOK, SureInv, MonitorNext
  PROVE  SureInv'
<1> USE SmsConstants
<1>0. /\ Monitor \in Actors /\ UNCHANGED <<delivery, copies>> /\ ~Holding(Monitor)
      /\ excused \subseteq excused'
      /\ \A a \in Actors \ {Monitor} : pc'[a] = pc[a] /\ row'[a] = row[a] /\ out'[a] = out[a]
  BY DEF MonitorNext, Poll, Visit, Sleep, database, history, Actors, Holding, TypeOK
<1>1. ASSUME NEW p \in Pairs, NEW a \in Actors \ {Monitor}
      PROVE  (Has(a, p)' <=> Has(a, p)) /\ (HasSent(a, p)' <=> HasSent(a, p))
  BY <1>0 DEF Has, HasSent, Holding
<1>2. \A p \in Pairs : ~Has(Monitor, p) /\ ~HasSent(Monitor, p)
  BY <1>0 DEF Has, HasSent
<1>3. CASE Poll
  <2>1. /\ queue' = Pending /\ ~Holding(Monitor)'
        /\ excused' = excused \cup {p \in {r.pair : r \in Pending} : HeldByHandler(p)}
    BY <1>0, <1>3 DEF Poll, TypeOK, Holding
  <2>2. ASSUME NEW r \in Pending
        PROVE  r.pair \in Pairs /\ Retryable(r.pair) /\ r.id = delivery[r.pair].id
    BY DEF Pending, Candidates
  <2>3. ASSUME NEW p \in Pairs \ excused' PROVE Sure(p)'
    <3>1. Sure(p) /\ copies[p] \in Nat
      BY <1>0, <2>3 DEF SureInv, TypeOK
    <3>2. ~Has(Monitor, p)'
      BY <2>1 DEF Has
    <3>3. ASSUME NEW r \in Pending, r.pair = p
          PROVE  /\ r.id = delivery[p].id /\ delivery[p].status \in {"pending", "failed"}
                 /\ copies[p] = 0
                 /\ \A a \in Actors : ~Has(a, p)
      <4>1. ~HeldByHandler(p)
        BY <2>1, <2>3, <3>3
      <4>2. \A a \in Actors : ~Has(a, p)
        BY <1>2, <4>1 DEF HeldByHandler, Has, Actors
      <4>3. QED BY <2>2, <3>1, <3>3, <4>2 DEF Sure, HasSent, Retryable
    <3>4. QED BY <1>0, <1>1, <1>2, <2>1, <3>1, <3>2, <3>3 DEF Sure
  <2>4. QED BY <2>3 DEF SureInv
<1>4. CASE Visit
  <2>1. PICK r \in queue :
          /\ queue' = queue \ {r} /\ row'[Monitor] = r
          /\ pc'[Monitor] = "mark" => out'[Monitor] = "unlinked"
    BY <1>0, <1>4 DEF Visit, TypeOK
  <2>2. ASSUME NEW p \in Pairs \ excused' PROVE Sure(p)'
    <3>1. Sure(p)
      BY <1>0, <2>2 DEF SureInv
    <3>2. ~HasSent(Monitor, p)'
      BY <2>1 DEF HasSent
    <3>3. Has(Monitor, p)' => r.pair = p
      BY <2>1 DEF Has
    <3>4. CASE r.pair # p
      <4>1. \A a \in Actors : Has(a, p)' => Has(a, p) /\ row'[a] = row[a]
        BY <1>0, <1>1, <3>3, <3>4
      <4>2. \A a \in Actors : HasSent(a, p) => HasSent(a, p)'
        BY <1>1, <1>2
      <4>3. QED BY <1>0, <2>1, <3>1, <4>1, <4>2, SureFrame
    <3>5. CASE r.pair = p
      <4>1. /\ r.id = delivery[p].id /\ delivery[p].status \in {"pending", "failed"}
            /\ copies[p] = 0 /\ \A a \in Actors : ~Has(a, p)
        BY <3>1, <3>5 DEF Sure
      <4>2. \A a \in Actors : Has(a, p)' => a = Monitor
        BY <1>1, <4>1
      <4>3. \A s \in queue' : s.pair # p
        <5>1. \A s \in queue : s.pair = p => s.id = r.id
          BY <3>1, <4>1 DEF Sure
        <5>2. \A s \in queue : s.pair = p => s = r
          BY <3>5, <5>1 DEF TypeOK, Handles
        <5>3. QED BY <2>1, <5>2
      <4>4. QED BY <1>0, <2>1, <4>1, <4>2, <4>3 DEF Sure
    <3>6. QED BY <3>4, <3>5
  <2>3. QED BY <2>2 DEF SureInv
<1>5. CASE Sleep
  <2>1. UNCHANGED <<queue, row, out>> /\ ~Holding(Monitor)'
    BY <1>0, <1>5 DEF Sleep, TypeOK, Holding
  <2>2. ASSUME NEW p \in Pairs \ excused' PROVE Sure(p)'
    <3>1. Sure(p)
      BY <1>0, <2>2 DEF SureInv
    <3>2. \A a \in Actors : Has(a, p)' => Has(a, p)
      BY <1>1, <2>1 DEF Has
    <3>3. QED BY <1>0, <1>1, <1>2, <2>1, <3>1, <3>2, SureFrame
  <2>3. QED BY <2>2 DEF SureInv
<1>6. QED BY <1>3, <1>4, <1>5 DEF MonitorNext

\* A restart waives the copies that are not recorded, a deletion its rows.
LEMMA SureEnvironment ==
  ASSUME TypeOK, SureInv, EnvironmentNext
  PROVE  SureInv'
<1>1. CASE Restart
  <2>1. /\ UNCHANGED <<delivery, copies>> /\ queue' = {} /\ \A a \in Actors : ~Holding(a)'
        /\ excused \subseteq excused'
        /\ \A a \in Actors, p \in Pairs : HasSent(a, p) => p \in excused'
    BY <1>1 DEF Restart, database, Holding, Has, HasSent
  <2>2. ASSUME NEW p \in Pairs \ excused' PROVE Sure(p)'
    <3>1. Sure(p) /\ \A a \in Actors : ~HasSent(a, p)
      BY <2>1, <2>2 DEF SureInv
    <3>2. \A a \in Actors : ~Has(a, p)' /\ ~HasSent(a, p)'
      BY <2>1 DEF Has, HasSent
    <3>3. QED BY <2>1, <3>1, <3>2, SureFrame
  <2>3. QED BY <2>2 DEF SureInv
<1>2. CASE ~Restart
  <2>1. /\ UNCHANGED <<pc, row, out, queue, copies>> /\ excused \subseteq excused'
        /\ \A p \in Pairs \ excused' : delivery'[p] = delivery[p]
    BY <1>2 DEF EnvironmentNext, LinkChat, ChangeAccess, DeleteUser, ToggleBlock, database,
                locals, history
  <2>2. ASSUME NEW p \in Pairs \ excused' PROVE Sure(p)'
    <3>1. Sure(p)
      BY <2>1, <2>2 DEF SureInv
    <3>2. \A a \in Actors : (Has(a, p)' <=> Has(a, p)) /\ (HasSent(a, p)' <=> HasSent(a, p))
      BY <2>1 DEF Has, HasSent, Holding
    <3>3. QED BY <2>1, <2>2, <3>1, <3>2, SureFrame
  <2>3. QED BY <2>2 DEF SureInv
<1>3. QED BY <1>1, <1>2

\* Every step keeps the letters that are not waived sure.
LEMMA SureStep == TypeOK /\ AttemptsInv /\ SureInv /\ [Next]_vars => SureInv'
<1> SUFFICES ASSUME TypeOK, AttemptsInv, SureInv, [Next]_vars PROVE SureInv'
  OBVIOUS
<1>1. ASSUME UNCHANGED <<delivery, copies, excused, row, out, queue>>,
             \A a \in Actors : Holding(a) \/ Holding(a)' => pc'[a] = pc[a]
      PROVE  SureInv'
  <2>1. ASSUME NEW p \in Pairs \ excused PROVE Sure(p)'
    <3>1. \A a \in Actors : (Has(a, p)' <=> Has(a, p)) /\ (HasSent(a, p)' <=> HasSent(a, p))
      BY <1>1 DEF Has, HasSent, Holding
    <3>2. QED BY <1>1, <3>1, SureFrame DEF SureInv
  <2>2. QED BY <1>1, <2>1 DEF SureInv
<1>2. ASSUME NEW h \in Handlers, HandlerNext(h) PROVE SureInv'
  <2>1. CASE \E r \in todo[h] : Reserve(h, r)
    BY <2>1, SureReserve
  <2>2. CASE \/ \E d \in Sids \cup {NoSid} : Webhook(h, d)
             \/ FindBySid(h) \/ StoreSms(h) \/ Resolve(h) \/ Answer(h)
    BY <1>1, <2>2, QuietHandlerStep
  <2>3. QED BY <1>2, <2>1, <2>2 DEF HandlerNext
<1>3. ASSUME NEW a \in Actors, Send(a) \/ Mark(a) PROVE SureInv'
  BY <1>3, SureSend, SureMark
<1>4. CASE MonitorNext
  BY <1>4, SureMonitor
<1>5. CASE EnvironmentNext
  BY <1>5, SureEnvironment
<1>6. CASE UNCHANGED vars
  BY <1>1, <1>6 DEF vars, database, locals, history
<1>7. QED BY <1>2, <1>3, <1>4, <1>5, <1>6 DEF Next

\* Initially there are no letters.
LEMMA SureStart == Init => SureInv
<1> SUFFICES ASSUME Init, NEW p \in Pairs PROVE Sure(p)
  BY DEF SureInv
<1>1. copies[p] = 0 /\ queue = {} /\ \A a \in Actors : ~Has(a, p)
  BY DEF Init, Has, Holding
<1>2. QED BY <1>1 DEF Sure

----------------------------------------------------------------------------
(* Theorems                                                                 *)

DeliveryInv == AttemptsInv /\ SentInv /\ SureInv

\* The strengthened invariant holds in every state.
LEMMA SmsDeliveryInv == Spec => [](TypeOK /\ DeliveryInv)
<1>1. Init => DeliveryInv
  BY AttemptsStart, SureStart DEF DeliveryInv, Init, SentInv, SentMeansDelivered, NoRow
<1>2. TypeOK /\ DeliveryInv /\ [Next]_vars => DeliveryInv'
  BY AttemptsStep, SentStep, SureStep DEF DeliveryInv
<1>3. QED BY <1>1, <1>2, SmsTypeCorrect, PTL DEF Spec

\* At any moment, whoever writes the rows: `sent` means delivered, nothing that
\* is not excused arrives twice, and no row is tried beyond the limit but once.
THEOREM SmsDeliveriesHold == Spec => []DeliveriesHold
<1>1. TypeOK /\ DeliveryInv => DeliveriesHold
  BY DEF DeliveryInv, DeliveriesHold, AttemptsInv, Tried, AttemptsBounded, SentInv, SureInv,
         Sure, OneCopy
<1>2. QED BY <1>1, SmsDeliveryInv, PTL

\* A step that changes only what is waived afterwards waives it.
LEMMA WaivingStep ==
  ASSUME TypeOK, TypeOK', SentInv', excused \subseteq excused',
         \A p \in Pairs : copies[p] <= copies'[p],
         \A p \in Pairs \ excused' :
           delivery'[p].status = delivery[p].status /\ copies'[p] = copies[p]
  PROVE  Ledger!Waives
<1>1. \A p \in Pairs : delivery'[p].status \in Statuses /\ copies'[p] \in Nat
  BY DEF TypeOK, Rows
<1>2. \A p \in Pairs : delivery'[p].status = "sent" => copies'[p] > 0
  BY <1>1 DEF SentInv, SentMeansDelivered
<1>3. excused' \subseteq Pairs
  BY DEF TypeOK
<1>4. copies' \in [Pairs -> Nat]
  BY DEF TypeOK
<1>5. QED BY <1>1, <1>2, <1>3, <1>4 DEF Ledger!Waives, Ledger!Stages, Statuses

\* Every step is a step of the ledger, or waives what it breaks.
LEMMA LedgerStep ==
  ASSUME TypeOK, TypeOK', DeliveryInv, DeliveryInv', [Next]_vars
  PROVE  [Ledger!LedgerNext]_Ledger!ledger
<1> DEFINE stageOf == [p \in Pairs |-> delivery[p].status]
<1>0. SentInv' /\ SureInv /\ AttemptsInv
  BY DEF DeliveryInv
<1>1. ASSUME UNCHANGED <<delivery, copies, excused>> PROVE UNCHANGED Ledger!ledger
  BY <1>1 DEF Ledger!ledger
<1>2. ASSUME NEW h \in Handlers, NEW r \in todo[h], Reserve(h, r)
      PROVE  [Ledger!LedgerNext]_Ledger!ledger
  <2>1. PICK q \in Pairs : q = <<sms[h], r.chat>> /\ UNCHANGED <<copies, excused>>
    BY <1>2, ReserveKinds
  <2>2. CASE UNCHANGED delivery
    BY <1>1, <2>1, <2>2
  <2>3. CASE /\ ~Exists(q) /\ delivery'[q].status = "pending"
             /\ \A p \in Pairs \ {q} : delivery'[p] = delivery[p]
    <3>1. stageOf[q] = "none"
      BY <1>0, <2>1, <2>3 DEF AttemptsInv, FreshIds, Exists, NoRow
    <3>2. stageOf' = [stageOf EXCEPT ![q] = "pending"]
      BY <2>1, <2>3
    <3>3. Ledger!Reserved(q)
      BY <2>1, <3>1, <3>2 DEF Ledger!Reserved
    <3>4. QED BY <2>1, <3>3 DEF Ledger!LedgerNext
  <2>4. \/ UNCHANGED delivery
        \/ /\ ~Exists(q) /\ delivery'[q].status = "pending"
           /\ \A p \in Pairs \ {q} : delivery'[p] = delivery[p]
    <3>1. \/ UNCHANGED <<delivery, nextId, row>> /\ ~Holding(h)'
          \/ /\ ~Exists(q)
             /\ delivery'[q] =
                  [id |-> nextId, user |-> r.user, status |-> "pending", attempts |-> 0]
             /\ \A p \in Pairs \ {q} : delivery'[p] = delivery[p]
      BY <1>2, <2>1, ReserveKinds
    <3>2. QED BY <3>1
  <2>5. QED BY <2>2, <2>3, <2>4
<1>3. ASSUME NEW a \in Actors, Send(a) PROVE [Ledger!LedgerNext]_Ledger!ledger
  <2>1. PICK q \in Pairs :
          /\ q = row[a].pair /\ UNCHANGED delivery /\ excused \subseteq excused'
          /\ Has(a, q) /\ ~HasSent(a, q)
    BY <1>3 DEF TypeOK, Handles, Send, database, Has, HasSent, Holding
  <2>2. copies' = copies \/ copies' = [copies EXCEPT ![q] = @ + 1]
    BY <1>3, <2>1 DEF Send
  <2>3. CASE copies' = copies
    BY <1>0, <2>1, <2>3, WaivingStep DEF Ledger!LedgerNext, TypeOK
  <2>4. CASE copies' = [copies EXCEPT ![q] = @ + 1] /\ q \in excused'
    <3>1. \A p \in Pairs : copies[p] <= copies'[p]
      BY <2>1, <2>4 DEF TypeOK
    <3>2. QED BY <1>0, <2>1, <2>4, <3>1, WaivingStep DEF Ledger!LedgerNext, TypeOK
  <2>5. CASE copies' = [copies EXCEPT ![q] = @ + 1] /\ q \notin excused'
    <3>1. copies[q] = 0 /\ delivery[q].status \in {"pending", "failed"}
      BY <1>0, <2>1, <2>5 DEF SureInv, Sure
    <3>2. excused' = excused
      BY <1>3, <2>1, <2>5 DEF Send
    <3>3. Ledger!Underway(q)
      BY <2>1, <3>1 DEF Ledger!Underway
    <3>4. copies' = [copies EXCEPT ![q] = 1]
      BY <2>1, <2>5, <3>1
    <3>5. UNCHANGED stageOf
      BY <2>1
    <3>6. Ledger!Arrives(q)
      BY <3>1, <3>2, <3>3, <3>4, <3>5 DEF Ledger!Arrives
    <3>7. QED BY <2>1, <3>6 DEF Ledger!LedgerNext
  <2>6. QED BY <2>2, <2>3, <2>4, <2>5
<1>4. ASSUME NEW a \in Actors, Mark(a) PROVE [Ledger!LedgerNext]_Ledger!ledger
  <2>1. PICK q \in Pairs :
          /\ q = row[a].pair /\ UNCHANGED <<copies, excused>> /\ Has(a, q) /\ pc[a] = "mark"
          /\ \A p \in Pairs \ {q} : delivery'[p] = delivery[p]
    BY <1>4, MarkKinds DEF Has
  <2>2. CASE q \in excused
    BY <1>0, <2>1, <2>2, WaivingStep DEF Ledger!LedgerNext, TypeOK
  <2>3. CASE q \notin excused
    <3>1. /\ row[a].id = delivery[q].id
          /\ delivery[q].status \in {"pending", "failed"}
          /\ HasSent(a, q) \/ copies[q] = 0
          /\ copies[q] <= 1 /\ copies[q] \in Nat
      BY <1>0, <2>1, <2>3 DEF SureInv, Sure, TypeOK
    <3>2. PICK outcome \in {"sent", "failed", "dead"} :
            delivery'[q].status = outcome /\ (outcome = "sent" <=> out[a] = "sent")
      BY <1>4, <2>1, <3>1, MarkKinds
    <3>3. IF outcome = "sent" THEN copies[q] = 1 ELSE copies[q] = 0
      BY <1>0, <2>1, <3>1, <3>2 DEF HasSent, SentInv, DeliveryInv
    <3>4. stageOf' = [stageOf EXCEPT ![q] = outcome]
      BY <2>1, <3>2
    <3>5. Ledger!Recorded(q, outcome)
      BY <2>1, <3>1, <3>2, <3>3, <3>4 DEF Ledger!Recorded, Ledger!Underway
    <3>6. QED BY <2>1, <3>5 DEF Ledger!LedgerNext
  <2>4. QED BY <2>2, <2>3
<1>5. ASSUME excused \subseteq excused', UNCHANGED copies,
             \A p \in Pairs \ excused' : delivery'[p] = delivery[p]
      PROVE  [Ledger!LedgerNext]_Ledger!ledger
  BY <1>0, <1>5, WaivingStep DEF Ledger!LedgerNext, TypeOK
<1>6. ASSUME NEW h \in Handlers, HandlerNext(h) PROVE [Ledger!LedgerNext]_Ledger!ledger
  <2>1. CASE \E r \in todo[h] : Reserve(h, r)
    BY <1>2, <2>1
  <2>2. CASE \/ \E d \in Sids \cup {NoSid} : Webhook(h, d)
             \/ FindBySid(h) \/ StoreSms(h) \/ Resolve(h) \/ Answer(h)
    BY <1>1, <2>2, QuietHandlerStep
  <2>3. QED BY <1>6, <2>1, <2>2 DEF HandlerNext
<1>7. CASE MonitorNext \/ EnvironmentNext
  BY <1>5, <1>7 DEF MonitorNext, Poll, Visit, Sleep, EnvironmentNext, LinkChat, ChangeAccess,
     DeleteUser, ToggleBlock, Restart, database, history
<1>8. CASE UNCHANGED vars
  BY <1>1, <1>8 DEF vars, database, history
<1>9. QED BY <1>3, <1>4, <1>6, <1>7, <1>8 DEF Next

\* The initial states are those of an empty ledger.
LEMMA LedgerStart == Init => Ledger!LedgerInit
BY DEF Init, Ledger!LedgerInit, NoRow

\* The rows of SMS deliveries are a delivery ledger: no interleaving of
\* webhooks, monitor, restarts and administrators takes a letter that is not
\* excused through a step the ledger does not have.
THEOREM SmsImplementsLedger == Spec => ImplementsLedger
<1>1. TypeOK /\ DeliveryInv /\ (TypeOK /\ DeliveryInv)' /\ [Next]_vars
        => [Ledger!LedgerNext]_Ledger!ledger
  BY LedgerStep
<1>2. QED
  BY <1>1, LedgerStart, SmsDeliveryInv, PTL DEF Spec, ImplementsLedger, Ledger!LedgerSpec

----------------------------------------------------------------------------
(* What a delivery ledger promises: the reader of a table that implements   *)
(* DeliveryLedger may rely on LedgerTruth.                                   *)

LedgerKept == LedgerTypeOK /\ LedgerTruth

\* Every step of the ledger keeps its truth.
LEMMA LedgerKeptStep == LedgerKept /\ [LedgerNext]_ledger => LedgerKept'
<1> SUFFICES ASSUME LedgerKept, [LedgerNext]_ledger PROVE LedgerKept'
  OBVIOUS
<1> USE DEF LedgerKept
<1>1. ASSUME NEW p \in Letters, Reserved(p) PROVE LedgerKept'
  BY <1>1 DEF Reserved, LedgerTypeOK, LedgerTruth, Stages
<1>2. ASSUME NEW p \in Letters, Arrives(p) PROVE LedgerKept'
  BY <1>2 DEF Arrives, Underway, LedgerTypeOK, LedgerTruth
<1>3. ASSUME NEW p \in Letters, NEW outcome \in {"sent", "failed", "dead"},
             Recorded(p, outcome)
      PROVE  LedgerKept'
  <2>1. LedgerTypeOK'
    BY <1>3 DEF Recorded, LedgerTypeOK, Stages
  <2>2. \A q \in Letters \ {p} : stage'[q] = stage[q]
    BY <1>3 DEF Recorded, LedgerTypeOK
  <2>3. stage'[p] = outcome /\ UNCHANGED <<arrived, waived>>
    BY <1>3 DEF Recorded, LedgerTypeOK
  <2>4. IF outcome = "sent" THEN arrived[p] = 1 ELSE arrived[p] = 0
    BY <1>3 DEF Recorded
  <2>5. QED BY <2>1, <2>2, <2>3, <2>4 DEF LedgerTruth
<1>4. CASE Waives
  BY <1>4 DEF Waives, LedgerTypeOK, LedgerTruth
<1>5. CASE UNCHANGED ledger
  BY <1>5 DEF ledger, LedgerTypeOK, LedgerTruth
<1>6. QED BY <1>1, <1>2, <1>3, <1>4, <1>5 DEF LedgerNext

\* In every ledger `sent` means arrived, and a letter that is not waived arrives
\* at most once and is then neither missing nor given up.
THEOREM LedgerIsTrue == LedgerSpec => []LedgerTruth
<1>1. LedgerInit => LedgerKept
  BY DEF LedgerInit, LedgerKept, LedgerTypeOK, LedgerTruth, Stages
<1>2. LedgerKept => LedgerTruth
  BY DEF LedgerKept
<1>3. QED BY <1>1, <1>2, LedgerKeptStep, PTL DEF LedgerSpec
=============================================================================
