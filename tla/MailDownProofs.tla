--------------------------- MODULE MailDownProofs ---------------------------
(***************************************************************************)
(* Proofs about the alerts of mailboxes that stopped working, for any      *)
(* number of mailboxes, chats, requests, changes and crashes.              *)
(***************************************************************************)
EXTENDS MailDown, FiniteSetTheorems, TLAPS

\* The rows of the history of a mailbox after WriteRow.
LEMMA WriteRowFacts ==
  ASSUME TypeOK, NEW m \in Mailboxes, NEW new \in Rows, NEW bypass \in BOOLEAN,
         ~new.live => new = NoRow,
         WriteRow(m, new, bypass)
  PROVE  /\ row' \in [Mailboxes -> Rows]
         /\ row'[m] = new
         /\ \A k \in Mailboxes \ {m} : row'[k] = row[k] /\ outage'[k] = outage[k]
         /\ \A k \in Mailboxes : ~row'[k].live => row'[k] = NoRow
         /\ outage' \in [Mailboxes -> Nat]
         /\ outage'[m] = IF BeginsOutage(m, new) THEN outage[m] + 1 ELSE outage[m]
         /\ \A k \in Mailboxes : stampOf[k] <= outage[k] /\ stampOf[k] <= outage'[k]
         /\ stampOf' = stampOf
         /\ excused' \subseteq Mailboxes
         /\ excused \ {m} \subseteq excused' /\ excused' \subseteq excused \cup {m}
         /\ new.stamped => excused \subseteq excused'
         /\ new.stamped /\ bypass /\ new.active => m \in excused'
BY DEF WriteRow, TypeOK

\* What the ORM writes is a row again, of the same mailbox and never a new stamp.
LEMMA AppliedFacts ==
  ASSUME NEW r \in Rows, NEW saw \in Saw, NEW want \in BOOLEAN
  PROVE  /\ Applied(r, saw, want) \in Rows
         /\ Applied(r, saw, want).live = r.live
         /\ Applied(r, saw, want).stamped => r.stamped
         /\ Applied(r, saw, want).active =>
              r.active \/ (want /\ ~saw.active)
         /\ Applied(r, saw, want).stamped => ~(~saw.active /\ want /\ saw.stamped)
         /\ r.stamped /\ ~Applied(r, saw, want).stamped => Applied(r, saw, want).active
BY DEF Applied, Rows, Saw

\* Every step keeps every variable in its type.
LEMMA MailDownTypeStep == TypeOK /\ [Next]_vars => TypeOK'
<1> SUFFICES ASSUME TypeOK, [Next]_vars PROVE TypeOK'
  OBVIOUS
<1> USE MailDownConstants DEF tables, dispatcher, budgets, told, history
<1>1. ASSUME NEW h \in Requests, WriteStatus(h) PROVE TypeOK'
  <2> DEFINE q == request[h]
             new == Applied(row[q.box], q.saw, q.want)
  <2>1. q \in Open
    BY <1>1 DEF WriteStatus, TypeOK
  <2>2. CASE row[q.box].live
    <3>1. WriteRow(q.box, new, FALSE) /\ q.box \in Mailboxes
      BY <1>1, <2>1, <2>2 DEF WriteStatus, Open
    <3>2. new \in Rows /\ new.live
      <4>1. row[q.box] \in Rows /\ q.saw \in Saw /\ q.want \in BOOLEAN
        BY <2>1 DEF Open, TypeOK
      <4>2. QED
        BY <2>2, <4>1, AppliedFacts
    <3> HIDE DEF new
    <3>3. row' \in [Mailboxes -> Rows] /\ outage' \in [Mailboxes -> Nat] /\ stampOf' = stampOf
          /\ excused' \subseteq Mailboxes
          /\ \A m \in Mailboxes : (~row'[m].live => row'[m] = NoRow) /\ stampOf[m] <= outage'[m]
      BY <3>1, <3>2, WriteRowFacts
    <3>4. request' = [request EXCEPT ![h] = Nobody]
          /\ UNCHANGED <<alive, blocked, dispatcher, budgets, told, estranged>>
      BY <1>1 DEF WriteStatus
    <3>5. QED
      BY <3>3, <3>4 DEF TypeOK
  <2>3. CASE ~row[q.box].live
    BY <1>1, <2>3 DEF WriteStatus, TypeOK
  <2>4. QED
    BY <2>2, <2>3
<1>2. ASSUME NEW h \in Requests, WritePatch(h) PROVE TypeOK'
  <2> DEFINE q == request[h]
             new == [row[q.box] EXCEPT !.active = q.want]
  <2>1. q \in Open
    BY <1>2 DEF WritePatch, TypeOK
  <2>2. CASE row[q.box].live /\ q.want # q.saw.active
    <3>1. WriteRow(q.box, new, TRUE) /\ q.box \in Mailboxes
      BY <1>2, <2>1, <2>2 DEF WritePatch, Open
    <3>2. new \in Rows /\ new.live
      BY <2>1, <2>2 DEF Open, TypeOK, Rows
    <3> HIDE DEF new
    <3>3. row' \in [Mailboxes -> Rows] /\ outage' \in [Mailboxes -> Nat] /\ stampOf' = stampOf
          /\ excused' \subseteq Mailboxes
          /\ \A m \in Mailboxes : (~row'[m].live => row'[m] = NoRow) /\ stampOf[m] <= outage'[m]
      BY <3>1, <3>2, WriteRowFacts
    <3>4. request' = [request EXCEPT ![h] = Nobody]
          /\ UNCHANGED <<alive, blocked, dispatcher, budgets, told, estranged>>
      BY <1>2 DEF WritePatch
    <3>5. QED
      BY <3>3, <3>4 DEF TypeOK
  <2>3. CASE ~(row[q.box].live /\ q.want # q.saw.active)
    BY <1>2, <2>3 DEF WritePatch, TypeOK
  <2>4. QED
    BY <2>2, <2>3
<1>3. ASSUME NEW h \in Requests, RefusePatch(h) PROVE TypeOK'
  BY <1>3 DEF RefusePatch, TypeOK
<1>4. ASSUME NEW h \in Requests, NEW k \in {"status", "patch"}, NEW m \in Mailboxes,
             NEW b \in BOOLEAN, Load(h, k, m, b)
      PROVE TypeOK'
  <2>1. [kind |-> k, box |-> m, want |-> b,
         saw |-> [active |-> row[m].active, stamped |-> row[m].stamped]] \in Open
    BY DEF TypeOK, Open, Saw, Rows
  <2>2. QED
    BY <1>4, <2>1 DEF Load, Change, TypeOK
<1>5. ASSUME NEW m \in Mailboxes, DeleteMailbox(m) PROVE TypeOK'
  <2>1. NoRow \in Rows
    BY DEF NoRow, Rows
  <2>2. WriteRow(m, NoRow, FALSE)
    BY <1>5 DEF DeleteMailbox
  <2>3. row' \in [Mailboxes -> Rows] /\ outage' \in [Mailboxes -> Nat] /\ stampOf' = stampOf
        /\ excused' \subseteq Mailboxes
        /\ \A k \in Mailboxes : (~row'[k].live => row'[k] = NoRow) /\ stampOf[k] <= outage'[k]
    BY <2>1, <2>2, WriteRowFacts
  <2>4. QED
    BY SMTT(30), <1>5, <2>3 DEF DeleteMailbox, Change, TypeOK
<1>6. ASSUME NEW m \in Mailboxes, NEW b \in BOOLEAN, LinkOauth(m, b) PROVE TypeOK'
  <2> DEFINE new == IF row[m].live THEN [row[m] EXCEPT !.active = b]
                    ELSE [live |-> TRUE, active |-> b, stamped |-> FALSE]
  <2>1. new \in Rows /\ new.live
    BY DEF TypeOK, Rows
  <2>2. WriteRow(m, new, TRUE)
    BY <1>6 DEF LinkOauth
  <2> HIDE DEF new
  <2>3. row' \in [Mailboxes -> Rows] /\ outage' \in [Mailboxes -> Nat] /\ stampOf' = stampOf
        /\ excused' \subseteq Mailboxes
        /\ \A k \in Mailboxes : (~row'[k].live => row'[k] = NoRow) /\ stampOf[k] <= outage'[k]
    BY <2>1, <2>2, WriteRowFacts
  <2>4. /\ changes < MaxChanges /\ changes' = changes + 1
        /\ UNCHANGED <<request, alive, blocked, dispatcher, crashes, trouble, told, estranged>>
    BY <1>6 DEF LinkOauth, Change
  <2>5. QED
    BY <2>3, <2>4 DEF TypeOK
<1>7. ASSUME NEW m \in Mailboxes, NEW b \in BOOLEAN, CreateMailbox(m, b) PROVE TypeOK'
  <2> DEFINE new == [live |-> TRUE, active |-> b, stamped |-> FALSE]
  <2>1. new \in Rows /\ new.live
    BY DEF Rows
  <2>2. WriteRow(m, new, TRUE)
    BY <1>7 DEF CreateMailbox
  <2>3. row' \in [Mailboxes -> Rows] /\ outage' \in [Mailboxes -> Nat] /\ stampOf' = stampOf
        /\ excused' \subseteq Mailboxes
        /\ \A k \in Mailboxes : (~row'[k].live => row'[k] = NoRow) /\ stampOf[k] <= outage'[k]
    BY <2>1, <2>2, WriteRowFacts
  <2>4. QED
    BY <1>7, <2>3 DEF CreateMailbox, Change, TypeOK
<1>8. CASE Poll
  <2>1. seesAll' \subseteq AdminChats
    BY <1>8 DEF Poll, OneChatEach
  <2>2. cache' = {} \/ cache' = {alive \cap MemberChats}
    BY <1>8 DEF Poll
  <2>3. QED
    BY <1>8, <2>1, <2>2 DEF Poll, TypeOK
<1>9. CASE ListDowns
  BY <1>9 DEF ListDowns, Lowest, Downs, TypeOK
<1>10. ASSUME NEW m \in Mailboxes, Resolve(m) PROVE TypeOK'
  <2>1. PICK S \in SUBSET MemberChats : cache' = {S}
    BY <1>10 DEF Resolve, TypeOK
  <2>2. targets' \subseteq AdminChats \cup MemberChats
    BY <1>10, <2>1 DEF Resolve, Recipients, TypeOK
  <2>3. QED
    BY <1>10, <2>1, <2>2 DEF Resolve, TypeOK
<1>11. CASE Stamp
  <2>1. current \in Mailboxes
    BY <1>11 DEF Stamp, TypeOK
  <2>2. CASE MayStamp(row[current])
    <3>1. row' \in [Mailboxes -> Rows]
      <4> row[current] \in Rows
        BY <2>1 DEF TypeOK
      <4>1. [row[current] EXCEPT !.stamped = TRUE] \in Rows
        BY DEF Rows
      <4>2. row' = [row EXCEPT ![current] = [row[current] EXCEPT !.stamped = TRUE]]
        BY <1>11, <2>2 DEF Stamp
      <4>3. QED
        BY <2>1, <4>1, <4>2 DEF TypeOK
    <3>2. \A m \in Mailboxes : ~row'[m].live => row'[m] = NoRow
      BY <1>11, <2>1, <2>2 DEF Stamp, MayStamp, TypeOK, Rows
    <3>3. stampOf' \in [Mailboxes -> Nat] /\ \A m \in Mailboxes : stampOf'[m] <= outage'[m]
      BY <1>11, <2>1, <2>2 DEF Stamp, TypeOK
    <3>4. excused' \subseteq Mailboxes /\ current' = current /\ pc' = "send"
      BY <1>11, <2>2 DEF Stamp, TypeOK
    <3>5. targets' = targets /\ outage' = outage
          /\ UNCHANGED <<request, alive, blocked, seesAll, cache, todo, budgets, told, estranged>>
      BY <1>11, <2>2 DEF Stamp
    <3>6. current' = Nobody <=> pc' \notin {"stamp", "send"}
      BY <2>1, <3>4, MailDownConstants
    <3>7. QED
      BY <2>1, <3>1, <3>2, <3>3, <3>4, <3>5, <3>6 DEF TypeOK, budgets, told
  <2>3. CASE ~MayStamp(row[current])
    BY <1>11, <2>3 DEF Stamp, TypeOK
  <2>4. QED
    BY <2>2, <2>3
<1>12. ASSUME NEW c \in Chats, SendAlert(c) PROVE TypeOK'
  <2>1. <<current, c, stampOf[current]>> \in Alerts
    BY <1>12 DEF SendAlert, TypeOK, Alerts
  <2>2. QED
    BY SMTT(30), <1>12, <2>1 DEF SendAlert, Arrives, TypeOK
<1>13. CASE EndMailbox \/ EndPass
  BY <1>13 DEF EndMailbox, EndPass, TypeOK
<1>14. CASE Interrupted /\ (request' = request \/ request' = [h \in Requests |-> Nobody])
  <2>1. spared' \subseteq Alerts
    BY <1>14 DEF Interrupted, TypeOK, Alerts, AdminChats, MemberChats
  <2>2. QED
    BY <1>14, <2>1 DEF Interrupted, TypeOK
<1>15. ASSUME NEW c \in Chats, ToggleBlock(c) \/ Rebind(c) PROVE TypeOK'
  <2>1. CASE ToggleBlock(c)
    BY <2>1 DEF ToggleBlock, TypeOK
  <2>2. CASE Rebind(c)
    BY <2>2 DEF Rebind, TypeOK
  <2>3. QED
    BY <1>15, <2>1, <2>2
<1>16. CASE UNCHANGED vars
  BY <1>16 DEF vars, TypeOK
<1>17. QED
  BY <1>1, <1>2, <1>3, <1>4, <1>5, <1>6, <1>7, <1>8, <1>9, <1>10, <1>11, <1>12, <1>13, <1>14,
     <1>15, <1>16 DEF Next, PassC, Handle, FailIteration, Restart

\* Rows, requests and the iteration are well typed at all times.
THEOREM MailDownTypeCorrect == Spec => []TypeOK
<1>1. Init => TypeOK
  <2> SUFFICES ASSUME Init PROVE TypeOK
    OBVIOUS
  <2>1. row \in [Mailboxes -> Rows] /\ \A m \in Mailboxes : ~row[m].live => row[m] = NoRow
    <3> DEFINE fresh == [live |-> TRUE, active |-> TRUE, stamped |-> FALSE]
    <3>1. row \in [Mailboxes -> {fresh, NoRow}]
      BY DEF Init
    <3>2. fresh \in Rows /\ NoRow \in Rows /\ fresh.live
      BY DEF Rows, NoRow
    <3> HIDE DEF fresh
    <3>3. QED
      BY <3>1, <3>2
  <2>2. outage \in [Mailboxes -> Nat] /\ stampOf \in [Mailboxes -> Nat]
        /\ \A m \in Mailboxes : stampOf[m] <= outage[m]
    <3>1. outage = [m \in Mailboxes |-> 0] /\ stampOf = [m \in Mailboxes |-> 0]
      BY DEF Init
    <3>2. outage \in [Mailboxes -> Nat] /\ stampOf \in [Mailboxes -> Nat]
      BY <3>1
    <3>3. \A m \in Mailboxes : stampOf[m] = 0 /\ outage[m] = 0
      BY <3>1
    <3>4. QED
      BY <3>2, <3>3
  <2>3. QED
    BY MailDownConstants, <2>1, <2>2 DEF Init, TypeOK
<1>2. QED
  BY <1>1, MailDownTypeStep, PTL DEF Spec

----------------------------------------------------------------------------
(* What a step does to the rows                                             *)

\* One writer of is_active at work: it never sets a stamp, it resets one only
\* on a row that it deletes or makes active, and it keeps one on a row it makes
\* active only past the status channel or when the push had not seen the stamp.
RowWritten ==
  /\ \E m \in Mailboxes, new \in Rows, bypass \in BOOLEAN :
       /\ WriteRow(m, new, bypass)
       /\ ~new.live => new = NoRow
       /\ new.stamped => row[m].live /\ row[m].stamped
       /\ row[m].stamped /\ ~new.stamped => new.active \/ ~new.live
       /\ new.stamped /\ new.active => row[m].active \/ bypass \/ BlindRecovery(m)
  /\ \A h \in Requests : request'[h] \in {request[h], Nobody}
  /\ UNCHANGED <<alive, blocked, dispatcher, told, estranged>>

\* A request loads a row or leaves without a write.
RequestStep ==
  /\ \A h \in Requests :
       \/ request'[h] \in {request[h], Nobody}
       \/ request'[h] \in Open /\ request'[h].saw.stamped = row[request'[h].box].stamped
  /\ UNCHANGED <<tables, blocked, dispatcher, history>>

\* A pushed status writes one row, or only ends its request.
LEMMA StatusWrites ==
  ASSUME TypeOK, NEW h \in Requests, WriteStatus(h) PROVE RowWritten \/ RequestStep
<1> DEFINE q == request[h]
           new == Applied(row[q.box], q.saw, q.want)
<1>1. q \in Open /\ q # Nobody /\ q.kind = "status"
  BY DEF WriteStatus, TypeOK
<1>2. \A k \in Requests : request'[k] \in {request[k], Nobody}
  BY DEF WriteStatus, TypeOK
<1>3. UNCHANGED <<alive, blocked, dispatcher, told, estranged>>
  BY DEF WriteStatus
<1>4. CASE row[q.box].live
  <2>1. row[q.box] \in Rows /\ q.saw \in Saw /\ q.want \in BOOLEAN /\ q.box \in Mailboxes
    BY <1>1 DEF Open, TypeOK
  <2>2. WriteRow(q.box, new, FALSE)
    BY <1>4 DEF WriteStatus
  <2>3. /\ new \in Rows /\ new.live
        /\ new.stamped => row[q.box].stamped
        /\ new.active => row[q.box].active \/ (q.want /\ ~q.saw.active)
        /\ new.stamped => ~(~q.saw.active /\ q.want /\ q.saw.stamped)
        /\ row[q.box].stamped /\ ~new.stamped => new.active
    BY <1>4, <2>1, AppliedFacts
  <2>4. new.stamped /\ new.active /\ ~row[q.box].active => BlindRecovery(q.box)
    BY <1>1, <2>3 DEF BlindRecovery, InFlight
  <2> HIDE DEF new
  <2>5. QED
    BY <1>2, <1>3, <1>4, <2>1, <2>2, <2>3, <2>4 DEF RowWritten
<1>5. CASE ~row[q.box].live
  <2>1. UNCHANGED <<row, outage, stampOf, excused>>
    BY <1>5 DEF WriteStatus
  <2>2. QED
    BY <1>2, <1>3, <2>1 DEF RequestStep, tables, history
<1>6. QED
  BY <1>4, <1>5

\* So does an edit of the row.
LEMMA PatchWrites ==
  ASSUME TypeOK, NEW h \in Requests, WritePatch(h) PROVE RowWritten \/ RequestStep
<1> DEFINE q == request[h]
           new == [row[q.box] EXCEPT !.active = q.want]
<1>1. q \in Open
  BY DEF WritePatch, TypeOK
<1>2. \A k \in Requests : request'[k] \in {request[k], Nobody}
  BY DEF WritePatch, TypeOK
<1>3. UNCHANGED <<alive, blocked, dispatcher, told, estranged>>
  BY DEF WritePatch
<1>4. CASE row[q.box].live /\ q.want # q.saw.active
  <2>1. row[q.box] \in Rows /\ q.want \in BOOLEAN /\ q.box \in Mailboxes
    BY <1>1 DEF Open, TypeOK
  <2>2. WriteRow(q.box, new, TRUE)
    BY <1>4 DEF WritePatch
  <2>3. new \in Rows /\ new.live /\ new.stamped = row[q.box].stamped
    BY <1>4, <2>1 DEF Rows
  <2> HIDE DEF new
  <2>4. QED
    BY <1>2, <1>3, <1>4, <2>1, <2>2, <2>3 DEF RowWritten
<1>5. CASE ~(row[q.box].live /\ q.want # q.saw.active)
  <2>1. UNCHANGED <<row, outage, stampOf, excused>>
    BY <1>5 DEF WritePatch
  <2>2. QED
    BY <1>2, <1>3, <2>1 DEF RequestStep, tables, history
<1>6. QED
  BY <1>4, <1>5

\* Creating, linking and deleting a mailbox write one row.
LEMMA CatalogueWrites ==
  ASSUME TypeOK, NEW m \in Mailboxes, NEW b \in BOOLEAN,
         DeleteMailbox(m) \/ LinkOauth(m, b) \/ CreateMailbox(m, b)
  PROVE  RowWritten
<1>1. row[m] \in Rows /\ (~row[m].live => ~row[m].stamped)
  BY DEF TypeOK, NoRow
<1>2. CASE DeleteMailbox(m)
  <2>1. WriteRow(m, NoRow, FALSE) /\ NoRow \in Rows /\ ~NoRow.live /\ ~NoRow.stamped
    BY <1>2 DEF DeleteMailbox, NoRow, Rows
  <2>2. UNCHANGED <<request, alive, blocked, dispatcher, told, estranged>>
    BY <1>2 DEF DeleteMailbox
  <2>3. QED
    BY <2>1, <2>2 DEF RowWritten
<1>3. CASE LinkOauth(m, b)
  <2> DEFINE new == IF row[m].live THEN [row[m] EXCEPT !.active = b]
                    ELSE [live |-> TRUE, active |-> b, stamped |-> FALSE]
  <2>1. new \in Rows /\ new.live /\ new.stamped = row[m].stamped
    BY <1>1 DEF Rows
  <2>2. WriteRow(m, new, TRUE)
        /\ UNCHANGED <<request, alive, blocked, dispatcher, told, estranged>>
    BY <1>3 DEF LinkOauth
  <2> HIDE DEF new
  <2>3. QED
    BY <1>1, <2>1, <2>2 DEF RowWritten
<1>4. CASE CreateMailbox(m, b)
  <2> DEFINE new == [live |-> TRUE, active |-> b, stamped |-> FALSE]
  <2>1. new \in Rows /\ new.live /\ ~new.stamped
    BY DEF Rows
  <2>2. WriteRow(m, new, TRUE) /\ ~row[m].live
        /\ UNCHANGED <<request, alive, blocked, dispatcher, told, estranged>>
    BY <1>4 DEF CreateMailbox
  <2> HIDE DEF new
  <2>3. QED
    BY <1>1, <2>1, <2>2 DEF RowWritten
<1>5. QED
  BY <1>2, <1>3, <1>4

\* Every step is one of these.
LEMMA StepKinds ==
  ASSUME TypeOK, [Next]_vars
  PROVE  \/ RowWritten
         \/ RequestStep
         \/ PassC
         \/ FailIteration
         \/ Restart
         \/ \E c \in Chats : ToggleBlock(c) \/ Rebind(c)
<1>1. ASSUME NEW h \in Requests, Handle(h) PROVE RowWritten \/ RequestStep
  <2>1. CASE RefusePatch(h)
    BY <2>1 DEF RefusePatch, RequestStep, TypeOK
  <2>2. QED
    BY <1>1, <2>1, StatusWrites, PatchWrites DEF Handle
<1>2. ASSUME NEW h \in Requests, NEW k \in {"status", "patch"}, NEW m \in Mailboxes,
             NEW b \in BOOLEAN, Load(h, k, m, b)
      PROVE RequestStep
  <2> DEFINE q == [kind |-> k, box |-> m, want |-> b,
                   saw |-> [active |-> row[m].active, stamped |-> row[m].stamped]]
  <2>1. q \in Open /\ q.saw.stamped = row[q.box].stamped
    BY DEF TypeOK, Open, Saw, Rows
  <2>2. request' = [request EXCEPT ![h] = q]
        /\ UNCHANGED <<tables, blocked, dispatcher, history>>
    BY <1>2 DEF Load
  <2> HIDE DEF q
  <2>3. QED
    BY <2>1, <2>2 DEF RequestStep, TypeOK
<1>3. ASSUME UNCHANGED vars PROVE RequestStep
  BY <1>3 DEF vars, RequestStep
<1>4. QED
  BY <1>1, <1>2, <1>3, CatalogueWrites DEF Next

----------------------------------------------------------------------------
(* A stamp belongs to the outage of its row                                 *)

\* A recovery in flight that has not seen the stamp of its row: the stamp is
\* one that the race may strand.
BlindIsExcused ==
  \A m \in Mailboxes : row[m].stamped /\ BlindRecovery(m) => m \in excused

FreshInv == TypeOK /\ StampIsFresh /\ BlindIsExcused

\* A row that is written keeps the freshness of stamps.
LEMMA FreshWritten ==
  ASSUME FreshInv, TypeOK', RowWritten PROVE StampIsFresh' /\ BlindIsExcused'
<1> USE DEF FreshInv
<1>1. PICK m \in Mailboxes, new \in Rows, bypass \in BOOLEAN :
        /\ WriteRow(m, new, bypass)
        /\ ~new.live => new = NoRow
        /\ new.stamped => row[m].live /\ row[m].stamped
        /\ new.stamped /\ new.active => row[m].active \/ bypass \/ BlindRecovery(m)
  BY DEF RowWritten
<1>2. /\ row'[m] = new
      /\ \A k \in Mailboxes \ {m} : row'[k] = row[k] /\ outage'[k] = outage[k]
      /\ outage'[m] = IF BeginsOutage(m, new) THEN outage[m] + 1 ELSE outage[m]
      /\ stampOf' = stampOf
      /\ excused \ {m} \subseteq excused'
      /\ new.stamped => excused \subseteq excused'
      /\ new.stamped /\ bypass /\ new.active => m \in excused'
  BY <1>1, WriteRowFacts
<1>3. \A k \in Mailboxes : BlindRecovery(k)' => BlindRecovery(k)
  <2>1. \A h \in Requests : request'[h] \in {request[h], Nobody}
    BY DEF RowWritten
  <2>2. QED
    BY <2>1 DEF BlindRecovery, InFlight
<1>4. BlindIsExcused'
  BY <1>1, <1>2, <1>3 DEF BlindIsExcused
<1>5. new.stamped /\ m \notin excused' => ~new.active /\ stampOf[m] = outage'[m]
  <2> SUFFICES ASSUME new.stamped, m \notin excused'
               PROVE  ~new.active /\ stampOf[m] = outage'[m]
    OBVIOUS
  <2>1. row[m].live /\ row[m].stamped /\ m \notin excused
    BY <1>1, <1>2
  <2>2. ~row[m].active /\ stampOf[m] = outage[m] /\ ~BlindRecovery(m)
    BY <2>1 DEF StampIsFresh, BlindIsExcused
  <2>3. ~new.active
    BY <1>1, <1>2, <2>2
  <2>4. ~BeginsOutage(m, new)
    BY <2>1, <2>2 DEF BeginsOutage
  <2>5. QED
    BY <1>2, <2>2, <2>3, <2>4
<1>6. StampIsFresh'
  <2> SUFFICES ASSUME NEW k \in Mailboxes, row'[k].stamped, k \notin excused'
               PROVE  ~row'[k].active /\ stampOf'[k] = outage'[k]
    BY DEF StampIsFresh
  <2>1. CASE k = m
    BY <1>2, <1>5, <2>1
  <2>2. CASE k # m
    BY <1>2, <2>2 DEF StampIsFresh
  <2>3. QED
    BY <2>1, <2>2
<1>7. QED
  BY <1>4, <1>6

\* So does the stamp of pass C.
LEMMA FreshStamped ==
  ASSUME FreshInv, TypeOK', Stamp PROVE StampIsFresh' /\ BlindIsExcused'
<1> USE DEF FreshInv
<1>1. \A k \in Mailboxes : BlindRecovery(k)' <=> BlindRecovery(k)
  BY DEF Stamp, BlindRecovery, InFlight
<1>2. current \in Mailboxes
  BY DEF Stamp, TypeOK
<1>3. CASE MayStamp(row[current])
  <2>1. /\ row' = [row EXCEPT ![current].stamped = TRUE]
        /\ stampOf' = [stampOf EXCEPT ![current] = outage[current]]
        /\ excused' = IF BlindRecovery(current) THEN excused \cup {current} ELSE excused
        /\ outage' = outage
    BY <1>3 DEF Stamp
  <2>2. /\ \A k \in Mailboxes \ {current} : row'[k] = row[k] /\ stampOf'[k] = stampOf[k]
        /\ stampOf'[current] = outage[current]
    BY <1>2, <2>1 DEF TypeOK
  <2>3. row'[current].active = row[current].active
    <3>1. row[current] \in Rows
      BY <1>2 DEF TypeOK
    <3>2. row'[current] = [row[current] EXCEPT !.stamped = TRUE]
      BY <1>2, <2>1 DEF TypeOK
    <3>3. QED
      BY <3>1, <3>2 DEF Rows
  <2>4. ~row[current].active
    BY <1>3 DEF MayStamp
  <2>5. StampIsFresh'
    BY <2>1, <2>2, <2>3, <2>4 DEF StampIsFresh
  <2>6. BlindIsExcused'
    BY <1>1, <2>1, <2>2 DEF BlindIsExcused
  <2>7. QED
    BY <2>5, <2>6
<1>4. CASE ~MayStamp(row[current])
  <2>1. UNCHANGED <<row, stampOf, excused, outage>>
    BY <1>4 DEF Stamp
  <2>2. QED
    BY <1>1, <2>1 DEF StampIsFresh, BlindIsExcused
<1>5. QED
  BY <1>3, <1>4

\* The stamp of a row was set in the outage the row is in, and no active row
\* has a stamp, except after one of the excused writes.
THEOREM MailDownStampIsFresh == Spec => []StampIsFresh
<1>1. Init => StampIsFresh /\ BlindIsExcused
  <2> SUFFICES ASSUME Init PROVE \A m \in Mailboxes : ~row[m].stamped
    BY DEF StampIsFresh, BlindIsExcused
  <2> DEFINE fresh == [live |-> TRUE, active |-> TRUE, stamped |-> FALSE]
  <2>1. row \in [Mailboxes -> {fresh, NoRow}]
    BY DEF Init
  <2>2. ~fresh.stamped /\ ~NoRow.stamped
    BY DEF NoRow
  <2> HIDE DEF fresh
  <2>3. QED
    BY <2>1, <2>2
<1>2. FreshInv /\ TypeOK' /\ [Next]_vars => FreshInv'
  <2> SUFFICES ASSUME FreshInv, TypeOK', [Next]_vars PROVE StampIsFresh' /\ BlindIsExcused'
    BY DEF FreshInv
  <2> DEFINE Kept == UNCHANGED <<row, outage, stampOf, excused>>
  <2>1. CASE RequestStep
    <3>1. Kept
      BY <2>1 DEF RequestStep, tables, history
    <3>2. \A m \in Mailboxes : row[m].stamped /\ BlindRecovery(m)' => BlindRecovery(m)
      <4>1. \A h \in Requests :
              \/ request'[h] \in {request[h], Nobody}
              \/ request'[h] \in Open /\ request'[h].saw.stamped = row[request'[h].box].stamped
        BY <2>1 DEF RequestStep
      <4>2. QED
        BY <4>1 DEF BlindRecovery, InFlight
    <3>3. QED
      BY <3>1, <3>2 DEF FreshInv, StampIsFresh, BlindIsExcused
  <2>2. ASSUME Kept, request' = request \/ request' = [h \in Requests |-> Nobody]
        PROVE  StampIsFresh' /\ BlindIsExcused'
    <3>1. \A m \in Mailboxes : BlindRecovery(m)' => BlindRecovery(m)
      BY <2>2 DEF BlindRecovery, InFlight
    <3>2. QED
      BY <2>2, <3>1 DEF FreshInv, StampIsFresh, BlindIsExcused
  <2>3. CASE PassC
    <3>1. Stamp \/ (Kept /\ request' = request)
      BY <2>3 DEF PassC, Poll, ListDowns, EndMailbox, EndPass, Resolve, SendAlert, tables, history
    <3>2. QED
      BY <2>2, <3>1, FreshStamped
  <2>4. CASE FailIteration \/ Restart
    BY <2>2, <2>4 DEF FailIteration, Restart, Interrupted, tables
  <2>5. ASSUME NEW c \in Chats, ToggleBlock(c) \/ Rebind(c) PROVE StampIsFresh' /\ BlindIsExcused'
    BY <2>2, <2>5 DEF ToggleBlock, Rebind, tables, history
  <2>6. TypeOK
    BY DEF FreshInv
  <2> HIDE DEF Kept
  <2>7. QED
    BY <2>1, <2>3, <2>4, <2>5, <2>6, FreshWritten, StepKinds
<1>3. QED
  BY <1>1, <1>2, MailDownTypeCorrect, PTL DEF Spec, FreshInv

----------------------------------------------------------------------------
(* No outage is told twice to a chat                                        *)

\* What was told belongs to an outage that was stamped.
HeardIsPast == \A m \in Mailboxes, c \in Chats, n \in Nat :
  <<m, c, n>> \in heard => n <= stampOf[m]

\* An outage without a stamp is newer than the last stamp.
UnstampedIsNew == \A m \in Mailboxes :
  row[m].live /\ ~row[m].active /\ ~row[m].stamped => stampOf[m] < outage[m]

\* The chats that wait for an alert have not heard of its outage.
TargetsAreNew == pc = "send" =>
  \A c \in targets : <<current, c, stampOf[current]>> \notin heard

OnceInv == TypeOK /\ HeardIsPast /\ UnstampedIsNew /\ TargetsAreNew /\ ToldOnce

\* A row that is written leaves what has no stamp without one that was heard of.
LEMMA UnstampedWritten ==
  ASSUME TypeOK, UnstampedIsNew, RowWritten PROVE UnstampedIsNew'
<1>1. PICK m \in Mailboxes, new \in Rows, bypass \in BOOLEAN :
        /\ WriteRow(m, new, bypass)
        /\ ~new.live => new = NoRow
        /\ row[m].stamped /\ ~new.stamped => new.active \/ ~new.live
  BY DEF RowWritten
<1>2. /\ row'[m] = new
      /\ \A k \in Mailboxes \ {m} : row'[k] = row[k] /\ outage'[k] = outage[k]
      /\ outage'[m] = IF BeginsOutage(m, new) THEN outage[m] + 1 ELSE outage[m]
      /\ stampOf' = stampOf
  BY <1>1, WriteRowFacts
<1>3. ASSUME new.live, ~new.active, ~new.stamped PROVE stampOf[m] < outage'[m]
  <2>1. ~row[m].stamped
    BY <1>1, <1>3
  <2>2. stampOf[m] \in Nat /\ outage[m] \in Nat /\ stampOf[m] <= outage[m]
    BY DEF TypeOK
  <2>3. CASE BeginsOutage(m, new)
    BY <1>2, <2>2, <2>3
  <2>4. CASE ~BeginsOutage(m, new)
    <3>1. row[m].live /\ ~row[m].active
      BY <1>3, <2>4 DEF BeginsOutage
    <3>2. QED
      BY <1>2, <2>1, <2>4, <3>1 DEF UnstampedIsNew
  <2>5. QED
    BY <2>3, <2>4
<1>4. QED
  BY <1>2, <1>3 DEF UnstampedIsNew

\* A stamp opens an outage nobody has heard of.
LEMMA OnceStamped ==
  ASSUME OnceInv, TypeOK', Stamp PROVE OnceInv'
<1> USE DEF OnceInv
<1>1. current \in Mailboxes /\ UNCHANGED <<heard, twice, outage>>
  BY DEF Stamp, TypeOK, told
<1>2. CASE MayStamp(row[current])
  <2>1. /\ row' = [row EXCEPT ![current].stamped = TRUE]
        /\ stampOf' = [stampOf EXCEPT ![current] = outage[current]]
        /\ UNCHANGED <<current, targets>>
    BY <1>2 DEF Stamp
  <2>2. /\ \A k \in Mailboxes \ {current} : row'[k] = row[k] /\ stampOf'[k] = stampOf[k]
        /\ stampOf'[current] = outage[current]
    BY <1>1, <2>1 DEF TypeOK
  <2>3. stampOf[current] < outage[current]
    BY <1>1, <1>2 DEF MayStamp, UnstampedIsNew
  <2>4. /\ stampOf[current] \in Nat /\ outage[current] \in Nat
        /\ \A k \in Mailboxes : stampOf[k] \in Nat
    BY <1>1 DEF TypeOK
  <2>5. HeardIsPast'
    <3> SUFFICES ASSUME NEW m \in Mailboxes, NEW c \in Chats, NEW n \in Nat,
                        <<m, c, n>> \in heard
                 PROVE  n <= stampOf'[m]
      BY <1>1 DEF HeardIsPast
    <3>1. n <= stampOf[m]
      BY DEF HeardIsPast
    <3>2. QED
      BY <2>2, <2>3, <2>4, <3>1
  <2>6. TargetsAreNew'
    <3> SUFFICES ASSUME NEW c \in targets, <<current, c, outage[current]>> \in heard
                 PROVE  FALSE
      BY <1>1, <2>1, <2>2 DEF TargetsAreNew
    <3>1. c \in Chats
      BY DEF TypeOK, AdminChats, MemberChats
    <3>2. outage[current] <= stampOf[current]
      BY <1>1, <2>4, <3>1 DEF HeardIsPast
    <3>3. QED
      BY <2>3, <2>4, <3>2
  <2>7. row'[current].stamped
    <3>1. row[current] \in Rows
      BY <1>1 DEF TypeOK
    <3>2. row'[current] = [row[current] EXCEPT !.stamped = TRUE]
      BY <1>1, <2>1 DEF TypeOK
    <3>3. QED
      BY <3>1, <3>2 DEF Rows
  <2>8. UnstampedIsNew'
    BY <1>1, <2>2, <2>7 DEF UnstampedIsNew
  <2>9. QED
    BY <1>1, <2>5, <2>6, <2>8 DEF ToldOnce
<1>3. CASE ~MayStamp(row[current])
  <2>1. UNCHANGED <<row, stampOf>> /\ pc' = "walk"
    BY <1>3 DEF Stamp
  <2>2. QED
    BY <1>1, <2>1 DEF HeardIsPast, UnstampedIsNew, TargetsAreNew, ToldOnce
<1>4. QED
  BY <1>2, <1>3

\* An alert that goes out is heard of once.
LEMMA OnceSent ==
  ASSUME OnceInv, TypeOK', NEW c \in Chats, SendAlert(c) PROVE OnceInv'
<1> USE DEF OnceInv
<1>1. /\ pc = "send" /\ c \in targets /\ targets' = targets \ {c}
      /\ UNCHANGED <<row, pc, current, outage, stampOf>>
  BY DEF SendAlert
<1>2. current \in Mailboxes /\ stampOf[current] \in Nat
  BY <1>1 DEF TypeOK
<1>3. CASE Arrives(c)
  <2> DEFINE a == <<current, c, stampOf[current]>>
  <2>1. a \notin heard
    BY <1>1 DEF TargetsAreNew
  <2>2. heard' = heard \cup {a} /\ twice' = twice
    BY <1>3, <2>1 DEF Arrives
  <2>3. HeardIsPast'
    BY <1>1, <1>2, <2>2 DEF HeardIsPast
  <2>4. TargetsAreNew'
    BY <1>1, <2>2 DEF TargetsAreNew
  <2>5. QED
    BY <1>1, <2>2, <2>3, <2>4 DEF UnstampedIsNew, ToldOnce
<1>4. CASE UNCHANGED <<heard, twice>>
  BY <1>1, <1>4 DEF HeardIsPast, UnstampedIsNew, TargetsAreNew, ToldOnce
<1>5. QED
  BY <1>3, <1>4 DEF SendAlert, told

\* No chat is told twice of one outage, whatever the pushes, PATCHes,
\* recoveries, restarts and losses.
THEOREM MailDownToldOnce == Spec => []ToldOnce
<1>1. Init => HeardIsPast /\ UnstampedIsNew /\ TargetsAreNew /\ ToldOnce
  <2> SUFFICES ASSUME Init PROVE UnstampedIsNew
    BY DEF Init, HeardIsPast, TargetsAreNew, ToldOnce
  <2> DEFINE fresh == [live |-> TRUE, active |-> TRUE, stamped |-> FALSE]
  <2>1. row \in [Mailboxes -> {fresh, NoRow}]
    BY DEF Init
  <2>2. fresh.active /\ ~NoRow.live
    BY DEF NoRow
  <2> HIDE DEF fresh
  <2>3. QED
    BY <2>1, <2>2 DEF UnstampedIsNew
<1>2. OnceInv /\ TypeOK' /\ [Next]_vars => OnceInv'
  <2> SUFFICES ASSUME OnceInv, TypeOK', [Next]_vars PROVE OnceInv'
    OBVIOUS
  <2> DEFINE Kept == UNCHANGED <<row, outage, stampOf, heard, twice>>
  <2>1. CASE RowWritten
    <3>1. UnstampedIsNew'
      BY <2>1, UnstampedWritten DEF OnceInv
    <3>2. UNCHANGED <<pc, current, targets, heard, twice>>
      BY <2>1 DEF RowWritten, dispatcher, told
    <3>3. stampOf' = stampOf
      BY <2>1 DEF RowWritten, WriteRow
    <3>4. QED
      BY <3>1, <3>2, <3>3 DEF OnceInv, HeardIsPast, TargetsAreNew, ToldOnce
  <2>2. ASSUME Kept, pc' # "send" \/ UNCHANGED <<pc, current, targets>> PROVE OnceInv'
    BY <2>2 DEF OnceInv, HeardIsPast, UnstampedIsNew, TargetsAreNew, ToldOnce
  <2>3. CASE RequestStep
    BY <2>2, <2>3 DEF RequestStep, tables, dispatcher, history, told
  <2>4. CASE Poll \/ ListDowns \/ EndMailbox \/ EndPass \/ \E m \in Mailboxes : Resolve(m)
    <3>1. Kept /\ pc' # "send"
      BY <2>4 DEF Poll, ListDowns, EndMailbox, EndPass, Resolve, tables, history, told
    <3>2. QED
      BY <2>2, <3>1
  <2>5. CASE FailIteration \/ Restart
    <3>1. Kept /\ pc' # "send"
      BY <2>5 DEF FailIteration, Restart, Interrupted, tables
    <3>2. QED
      BY <2>2, <3>1
  <2>6. ASSUME NEW c \in Chats, ToggleBlock(c) \/ Rebind(c) PROVE OnceInv'
    BY <2>2, <2>6 DEF ToggleBlock, Rebind, tables, dispatcher, history, told
  <2>7. TypeOK
    BY DEF OnceInv
  <2> HIDE DEF Kept
  <2>8. QED
    BY <2>1, <2>3, <2>4, <2>5, <2>6, <2>7, OnceStamped, OnceSent, StepKinds DEF PassC
<1>3. QED
  BY <1>1, <1>2, MailDownTypeCorrect, PTL DEF Spec, OnceInv

----------------------------------------------------------------------------
(* A stamp means that the recipients were told                              *)

\* Those of whom one chat is to be told and none has ever blocked the bot.
Owed == {G \in Creditors : G \cap estranged = {}}

\* A chat that never blocked the bot keeps its link.
FriendsAreAlive == \A c \in Chats \ estranged : c \in alive /\ c \notin blocked

\* The recipients that an iteration has resolved include a chat of each of them.
ResolvedOwed ==
  /\ pc # "sleep" => \A c \in AdminChats :
       ChatsOf(Owner[c]) \cap estranged = {} => ChatsOf(Owner[c]) \cap seesAll # {}
  /\ \A S \in cache : MemberChats \ estranged \subseteq S
  /\ pc = "stamp" => \A G \in Owed : G \cap targets # {}

\* While the alerts of a mailbox are being sent, a chat of each has its alert,
\* has lost it, or is still to be told.
SendingOwed == pc = "send" => \A G \in Owed : \E c \in G :
  c \in targets \/ <<current, c, stampOf[current]>> \in heard \cup spared

\* StampMeansTold, of the mailbox that waits for its stamp as well.
StampedIsTold == \A m \in Mailboxes, G \in Owed :
  row[m].stamped /\ ~(pc = "send" /\ current = m)
  => \E c \in G : <<m, c, stampOf[m]>> \in heard \cup spared

\* One chat of each administrator is a chat of each.
LEMMA ChatOfEach ==
  ASSUME NEW S, NEW T \in OneChatEach(S), NEW c \in S
  PROVE  ChatsOf(Owner[c]) \cap T # {}
<1>1. Cardinality(T \cap ChatsOf(Owner[c])) = 1
  BY DEF OneChatEach
<1>2. T \cap ChatsOf(Owner[c]) # {}
  BY <1>1, FS_EmptySet
<1>3. QED
  BY <1>2

ToldInv == TypeOK /\ FriendsAreAlive /\ ResolvedOwed /\ SendingOwed /\ StampedIsTold

\* A row that is written is stamped only if it was, so nothing more is owed.
LEMMA ToldWritten ==
  ASSUME ToldInv, TypeOK', RowWritten PROVE ToldInv'
<1>1. UNCHANGED <<alive, blocked, pc, seesAll, cache, current, targets, heard, spared, estranged>>
  BY DEF RowWritten, dispatcher, told
<1>2. /\ stampOf' = stampOf
      /\ \A m \in Mailboxes : row'[m].stamped => row[m].stamped
  <2>1. PICK m \in Mailboxes, new \in Rows, bypass \in BOOLEAN :
          /\ WriteRow(m, new, bypass)
          /\ ~new.live => new = NoRow
          /\ new.stamped => row[m].live /\ row[m].stamped
    BY DEF RowWritten
  <2>2. /\ row'[m] = new /\ stampOf' = stampOf
        /\ \A k \in Mailboxes \ {m} : row'[k] = row[k]
    BY <2>1, WriteRowFacts DEF ToldInv
  <2>3. QED
    BY <2>1, <2>2
<1>3. Owed' = Owed
  BY <1>1 DEF Owed
<1>4. FriendsAreAlive' /\ ResolvedOwed' /\ SendingOwed'
  BY <1>1, <1>2, <1>3 DEF ToldInv, FriendsAreAlive, ResolvedOwed, SendingOwed
<1>5. StampedIsTold'
  BY <1>1, <1>2, <1>3 DEF ToldInv, StampedIsTold
<1>6. QED
  BY <1>4, <1>5 DEF ToldInv

\* A stamp is followed by the recipients it owes the news to.
LEMMA ToldStamped ==
  ASSUME ToldInv, TypeOK', Stamp PROVE ToldInv'
<1> USE DEF ToldInv
<1>1. /\ current \in Mailboxes /\ pc = "stamp"
      /\ UNCHANGED <<alive, blocked, seesAll, cache, heard, spared, estranged>>
  BY DEF Stamp, TypeOK, told
<1>2. Owed' = Owed /\ FriendsAreAlive'
  BY <1>1 DEF Owed, FriendsAreAlive
<1>3. CASE MayStamp(row[current])
  <2>1. /\ row' = [row EXCEPT ![current].stamped = TRUE]
        /\ stampOf' = [stampOf EXCEPT ![current] = outage[current]]
        /\ pc' = "send"
        /\ UNCHANGED <<current, targets>>
    BY <1>3 DEF Stamp
  <2>2. \A k \in Mailboxes \ {current} : row'[k] = row[k] /\ stampOf'[k] = stampOf[k]
    BY <1>1, <2>1 DEF TypeOK
  <2>3. ResolvedOwed' /\ SendingOwed'
    BY <1>1, <1>2, <2>1 DEF ResolvedOwed, SendingOwed
  <2>4. StampedIsTold'
    BY <1>1, <1>2, <2>1, <2>2 DEF StampedIsTold
  <2>5. QED
    BY <1>2, <2>3, <2>4
<1>4. CASE ~MayStamp(row[current])
  <2>1. UNCHANGED <<row, stampOf>> /\ pc' = "walk"
    BY <1>4 DEF Stamp
  <2>2. QED
    BY <1>1, <1>2, <2>1 DEF ResolvedOwed, SendingOwed, StampedIsTold
<1>5. QED
  BY <1>3, <1>4

\* An alert pays what one recipient is owed.
LEMMA ToldSent ==
  ASSUME ToldInv, TypeOK', NEW c \in Chats, SendAlert(c) PROVE ToldInv'
<1> USE DEF ToldInv
<1> DEFINE a == <<current, c, stampOf[current]>>
<1>1. /\ pc = "send" /\ c \in targets /\ targets' = targets \ {c}
      /\ UNCHANGED <<row, blocked, pc, seesAll, cache, current, stampOf, estranged>>
  BY DEF SendAlert
<1>2. Owed' = Owed
  BY <1>1 DEF Owed
<1>3. heard \cup spared \subseteq heard' \cup spared'
  BY DEF SendAlert, Arrives, told
<1>4. FriendsAreAlive' /\ (c \notin estranged => a \in heard' \cup spared')
  <2>1. c \notin estranged => c \notin blocked
    BY DEF FriendsAreAlive
  <2>2. CASE c \notin blocked /\ Arrives(c) /\ alive' = alive
    BY <1>1, <2>2 DEF FriendsAreAlive, Arrives
  <2>3. CASE c \in blocked /\ alive' = alive \ {c}
    BY <1>1, <2>1, <2>3 DEF FriendsAreAlive
  <2>4. CASE spared' = spared \cup {a} /\ alive' = alive
    BY <1>1, <2>4 DEF FriendsAreAlive
  <2>5. QED
    BY <2>2, <2>3, <2>4 DEF SendAlert
<1>5. ResolvedOwed'
  BY <1>1, <1>2 DEF ResolvedOwed
<1>6. SendingOwed'
  <2> SUFFICES ASSUME NEW G \in Owed
               PROVE  \E d \in G : d \in targets'
                                  \/ <<current, d, stampOf[current]>> \in heard' \cup spared'
    BY <1>1, <1>2 DEF SendingOwed
  <2>1. PICK d \in G : d \in targets \/ <<current, d, stampOf[current]>> \in heard \cup spared
    BY <1>1 DEF SendingOwed
  <2>2. d \notin estranged
    BY DEF Owed
  <2>3. CASE d = c
    BY <1>4, <2>2, <2>3
  <2>4. CASE d # c
    BY <1>1, <1>3, <2>1, <2>4
  <2>5. QED
    BY <2>3, <2>4
<1>7. StampedIsTold'
  BY <1>1, <1>2, <1>3 DEF StampedIsTold
<1>8. QED
  BY <1>4, <1>5, <1>6, <1>7

\* The steps of the pass around the alerts pay and owe nothing.
LEMMA ToldLoop ==
  ASSUME ToldInv, TypeOK',
         Poll \/ ListDowns \/ EndMailbox \/ EndPass \/ \E m \in Mailboxes : Resolve(m)
  PROVE  ToldInv'
<1> USE DEF ToldInv
<1>1. /\ UNCHANGED <<row, alive, blocked, stampOf, heard, spared, estranged>>
      /\ pc' # "send"
  BY DEF Poll, ListDowns, EndMailbox, EndPass, Resolve, tables, history, told
<1>2. Owed' = Owed /\ FriendsAreAlive' /\ SendingOwed'
  BY <1>1 DEF Owed, FriendsAreAlive, SendingOwed
<1>3. AdminChats \ estranged \subseteq alive \cap AdminChats
      /\ MemberChats \ estranged \subseteq alive \cap MemberChats
  BY DEF FriendsAreAlive, AdminChats, MemberChats
<1>4. ResolvedOwed'
  <2>1. CASE Poll
    <3>1. ASSUME NEW c \in AdminChats, ChatsOf(Owner[c]) \cap estranged = {}
          PROVE  ChatsOf(Owner[c]) \cap seesAll' # {}
      <4>1. c \in ChatsOf(Owner[c])
        BY DEF ChatsOf, AdminChats
      <4>2. c \in alive \cap AdminChats
        BY <1>3, <3>1, <4>1
      <4>3. seesAll' \in OneChatEach(alive \cap AdminChats)
        BY <2>1 DEF Poll
      <4>4. QED
        BY <4>2, <4>3, ChatOfEach
    <3>2. \A S \in cache' : MemberChats \ estranged \subseteq S
      BY <1>3, <2>1 DEF Poll
    <3>3. pc' = "list"
      BY <2>1 DEF Poll
    <3>4. QED
      BY <1>1, <3>1, <3>2, <3>3 DEF ResolvedOwed
  <2>2. CASE ListDowns \/ EndMailbox \/ EndPass
    BY <1>1, <2>2 DEF ListDowns, EndMailbox, EndPass, ResolvedOwed
  <2>3. ASSUME NEW m \in Mailboxes, Resolve(m) PROVE ResolvedOwed'
    <3>1. \A S \in cache' : MemberChats \ estranged \subseteq S
      BY <1>3, <2>3 DEF Resolve, ResolvedOwed
    <3>2. PICK S \in SUBSET MemberChats : cache' = {S}
      BY <2>3 DEF Resolve, TypeOK
    <3>3. targets' = S \cup seesAll
      BY <2>3, <3>2 DEF Resolve, Recipients
    <3>4. pc # "sleep" /\ seesAll' = seesAll
      BY <2>3 DEF Resolve
    <3>5. ASSUME NEW G \in Owed PROVE G \cap targets' # {}
      <4>1. CASE \E c \in MemberChats : G = {c}
        BY <3>1, <3>2, <3>3, <4>1 DEF Owed
      <4>2. CASE \E c \in AdminChats : G = ChatsOf(Owner[c])
        BY <3>3, <3>4, <4>2 DEF ResolvedOwed, Owed
      <4>3. QED
        BY <4>1, <4>2 DEF Owed, Creditors
    <3>6. QED
      BY <1>1, <1>2, <3>1, <3>4, <3>5 DEF ResolvedOwed
  <2>4. QED
    BY <2>1, <2>2, <2>3
<1>5. StampedIsTold'
  <2> SUFFICES ASSUME NEW m \in Mailboxes, NEW G \in Owed, row[m].stamped
               PROVE  \E c \in G : <<m, c, stampOf[m]>> \in heard \cup spared
    BY <1>1, <1>2 DEF StampedIsTold
  <2>1. CASE pc = "send" /\ current = m
    <3>1. targets = {}
      BY <2>1 DEF Poll, ListDowns, EndMailbox, EndPass, Resolve
    <3>2. QED
      BY <2>1, <3>1 DEF SendingOwed
  <2>2. CASE ~(pc = "send" /\ current = m)
    BY <2>2 DEF StampedIsTold
  <2>3. QED
    BY <2>1, <2>2
<1>6. QED
  BY <1>2, <1>4, <1>5

\* An interruption spares those who were still owed the news.
LEMMA ToldInterrupted ==
  ASSUME ToldInv, TypeOK', Interrupted PROVE ToldInv'
<1> USE DEF ToldInv
<1>1. /\ UNCHANGED <<row, alive, blocked, stampOf, heard, estranged>>
      /\ pc' = "sleep" /\ cache' = {}
      /\ spared \subseteq spared'
      /\ pc = "send" => {current} \X targets \X {stampOf[current]} \subseteq spared'
  BY DEF Interrupted, tables
<1>2. Owed' = Owed /\ FriendsAreAlive' /\ SendingOwed' /\ ResolvedOwed'
  BY <1>1 DEF Owed, FriendsAreAlive, SendingOwed, ResolvedOwed
<1>3. StampedIsTold'
  <2> SUFFICES ASSUME NEW m \in Mailboxes, NEW G \in Owed, row[m].stamped
               PROVE  \E c \in G : <<m, c, stampOf[m]>> \in heard \cup spared'
    BY <1>1, <1>2 DEF StampedIsTold
  <2>1. CASE pc = "send" /\ current = m
    BY <1>1, <2>1 DEF SendingOwed
  <2>2. CASE ~(pc = "send" /\ current = m)
    BY <1>1, <2>2 DEF StampedIsTold
  <2>3. QED
    BY <2>1, <2>2
<1>4. QED
  BY <1>2, <1>3

\* A chat that blocks the bot or is bound anew is owed nothing more.
LEMMA ToldTelegram ==
  ASSUME ToldInv, TypeOK', NEW c \in Chats, ToggleBlock(c) \/ Rebind(c) PROVE ToldInv'
<1> USE DEF ToldInv
<1>1. /\ UNCHANGED <<row, pc, seesAll, cache, current, targets, stampOf, heard, spared>>
      /\ alive \subseteq alive' /\ estranged \subseteq estranged'
      /\ \A k \in Chats \ estranged' : k \in blocked' => k \in blocked
  BY DEF ToggleBlock, Rebind, tables, dispatcher, history, told
<1>2. Owed' \subseteq Owed
  BY <1>1 DEF Owed
<1>3. FriendsAreAlive'
  BY <1>1 DEF FriendsAreAlive
<1>4. ResolvedOwed' /\ SendingOwed'
  BY <1>1, <1>2 DEF ResolvedOwed, SendingOwed
<1>5. StampedIsTold'
  BY <1>1, <1>2 DEF StampedIsTold
<1>6. QED
  BY <1>3, <1>4, <1>5

\* Every chat of a member and one chat of every administrator has the alert of a
\* stamped outage, unless Telegram or a crash lost it or its owner has blocked
\* the bot at some time.
THEOREM MailDownStampMeansTold == Spec => []StampMeansTold
<1>1. Init => FriendsAreAlive /\ ResolvedOwed /\ SendingOwed /\ StampedIsTold
  <2> SUFFICES ASSUME Init PROVE \A m \in Mailboxes : ~row[m].stamped
    BY DEF Init, FriendsAreAlive, ResolvedOwed, SendingOwed, StampedIsTold
  <2> DEFINE fresh == [live |-> TRUE, active |-> TRUE, stamped |-> FALSE]
  <2>1. row \in [Mailboxes -> {fresh, NoRow}]
    BY DEF Init
  <2>2. ~fresh.stamped /\ ~NoRow.stamped
    BY DEF NoRow
  <2> HIDE DEF fresh
  <2>3. QED
    BY <2>1, <2>2
<1>2. ToldInv /\ TypeOK' /\ [Next]_vars => ToldInv'
  <2> SUFFICES ASSUME ToldInv, TypeOK', [Next]_vars PROVE ToldInv'
    OBVIOUS
  <2>1. CASE RequestStep
    <3>1. UNCHANGED <<row, alive, blocked, pc, seesAll, cache, current, targets,
                      stampOf, heard, spared, estranged>>
      BY <2>1 DEF RequestStep, tables, dispatcher, history, told
    <3>2. QED
      BY <3>1 DEF ToldInv, FriendsAreAlive, ResolvedOwed, SendingOwed, StampedIsTold, Owed
  <2>2. TypeOK
    BY DEF ToldInv
  <2>3. QED
    BY <2>1, <2>2, StepKinds, ToldWritten, ToldStamped, ToldSent, ToldLoop, ToldInterrupted,
       ToldTelegram DEF PassC, FailIteration, Restart
<1>3. ToldInv => StampMeansTold
  BY MailDownConstants DEF ToldInv, TypeOK, StampedIsTold, StampMeansTold, Owed
<1>4. QED
  BY <1>1, <1>2, <1>3, MailDownTypeCorrect, PTL DEF Spec, ToldInv
=============================================================================
