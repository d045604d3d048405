----------------------------- MODULE LoopsProofs -----------------------------
(***************************************************************************)
(* Theorems about the background loops, for every number of keys, users,   *)
(* pages and steps.  Each loop has its section: its invariant is proved of *)
(* the specification that composes the loops, whose steps are its own or   *)
(* leave its state alone.                                                  *)
(***************************************************************************)
EXTENDS MCLoops, SequenceTheorems, FiniteSetTheorems, FunctionTheorems, TLAPS

(***************************************************************************)
(* The snapshot of a backend's users.                                      *)
(***************************************************************************)

\* What the backend tells of users: those on the list have spent or been
\* counted, and nothing is known of one who never registered.
UnknownUser == <<0, 0>>
SourceInv ==
  /\ list \in Seq(SnapUsers)
  /\ usage \in [SnapUsers -> Nat \X Nat]
  /\ \A u \in SnapUsers : usage[u] = UnknownUser \/ usage[u][1] >= 1
  /\ \A u \in AtSource : usage[u] # UnknownUser

\* A row and a touch are of a user who registered, and say so.
RowsInv ==
  /\ rows \in [SnapUsers -> BackendUserSnapshot]
  /\ \A u \in SnapUsers :
       /\ Listed(u) => rows[u].fp # UnknownUser
       /\ usage[u] = UnknownUser => rows[u].fp = UnknownUser
  /\ \A t \in touches :
       t.user \in SnapUsers /\ t.fp \in Nat \X Nat /\ t.fp # UnknownUser
         /\ usage[t.user] # UnknownUser

\* What the worker holds in each of its places.
Fingerprint == Nat \X Nat
WalkState(at) ==
  [at : at, known : [SnapUsers -> Fingerprint], offset : Nat, tracked : SUBSET SnapUsers,
   dirty : SUBSET SnapUsers, shrunk : BOOLEAN, repeated : BOOLEAN]
WriteState ==
  [at : {"write"}, known : [SnapUsers -> Fingerprint], offset : Nat,
   tracked : SUBSET SnapUsers, dirty : SUBSET SnapUsers, shrunk : BOOLEAN, repeated : BOOLEAN,
   page : UNION {[S -> Fingerprint \ {UnknownUser}] : S \in SUBSET SnapUsers}, last : BOOLEAN]
CardState ==
  [at : {"revenue"}, dirty : SUBSET SnapUsers, asked : SUBSET SnapUsers,
   todo : SUBSET SnapUsers, complete : BOOLEAN, supported : {"unknown", "yes", "no"}]
WorkerStates ==
  {Resting} \cup WalkState({"walk", "delete"}) \cup WriteState
    \cup [at : {"stats"}, dirty : SUBSET SnapUsers] \cup CardState

\* The walk: whom it knew at its start it has met, or has still before it.
Walking == worker.at \in {"walk", "write", "delete"}
Sure == ~worker.shrunk /\ ~worker.repeated
AtEnd == worker.at = "delete" \/ (worker.at = "write" /\ worker.last)
Unmet(i) == worker.known[list[i]] # UnknownUser /\ list[i] \notin worker.tracked
WalkInv ==
  /\ worker \in WorkerStates
  /\ Walking =>
       /\ \A u \in SnapUsers : usage[u] = UnknownUser => worker.known[u] = UnknownUser
       /\ Sure => \A i \in 1 .. Len(list) : Unmet(i) => ~AtEnd /\ i > worker.offset
  /\ worker.at = "write" => \A u \in DOMAIN worker.page : usage[u] # UnknownUser

\* The inductive invariant of the snapshot's list.
ListingInv == SourceInv /\ RowsInv /\ WalkInv

\* The fields of the worker, by its place.
LEMMA WorkerFields ==
  ASSUME worker \in WorkerStates
  PROVE  /\ Walking => /\ worker.offset \in Nat /\ worker.known \in [SnapUsers -> Fingerprint]
                       /\ worker.tracked \subseteq SnapUsers /\ worker.dirty \subseteq SnapUsers
                       /\ worker.shrunk \in BOOLEAN /\ worker.repeated \in BOOLEAN
         /\ worker.at = "write" =>
              /\ worker \in WriteState /\ worker.last \in BOOLEAN
              /\ DOMAIN worker.page \subseteq SnapUsers
              /\ \A u \in DOMAIN worker.page : worker.page[u] \in Fingerprint \ {UnknownUser}
         /\ worker.at \in {"walk", "delete"} => worker \in WalkState({"walk", "delete"})
         /\ worker.at = "stats" => worker.dirty \subseteq SnapUsers
         /\ worker.at = "revenue" => worker \in CardState
         /\ worker.at \in {"rest", "walk", "write", "delete", "stats", "revenue"}
<1>1. CASE worker = Resting
  BY <1>1 DEF Resting, Walking
<1>2. CASE worker \in WalkState({"walk", "delete"})
  BY <1>2 DEF WalkState, Walking
<1>3. CASE worker \in WriteState
  <2>1. PICK S \in SUBSET SnapUsers : worker.page \in [S -> Fingerprint \ {UnknownUser}]
    BY <1>3 DEF WriteState
  <2>2. QED
    BY <1>3, <2>1 DEF WriteState, Walking
<1>4. CASE worker \in [at : {"stats"}, dirty : SUBSET SnapUsers]
  BY <1>4 DEF Walking
<1>5. CASE worker \in CardState
  BY <1>5 DEF CardState, Walking
<1>6. QED
  BY <1>1, <1>2, <1>3, <1>4, <1>5 DEF WorkerStates

\* It holds at first.
LEMMA ListingInit == SnapshotInit => ListingInv
<1> SUFFICES ASSUME SnapshotInit PROVE ListingInv
  OBVIOUS
<1>1. SourceInv
  BY DEF SnapshotInit, SourceInv, UnknownUser, AtSource, Range
<1>2. RowsInv
  BY SnapshotAssumption DEF SnapshotInit, RowsInv, UnknownUser, NoRow, Listed, BackendUserSnapshot, NotPriced
<1>3. WalkInv
  BY DEF SnapshotInit, WalkInv, Walking, Resting, WorkerStates
<1>4. QED
  BY <1>1, <1>2, <1>3 DEF ListingInv

\* A new user stands at the head, where no walk looks for those it knew.
LEMMA NewUserStep == ListingInv /\ NewUser => ListingInv'
<1> SUFFICES ASSUME ListingInv, NewUser PROVE ListingInv'
  OBVIOUS
<1> USE DEF ListingInv, UnknownUser
<1>1. PICK u \in SnapUsers : /\ usage[u] = <<0, 0>> /\ list' = <<u>> \o list
                             /\ usage' = [usage EXCEPT ![u] = <<1, 0>>]
  BY DEF NewUser
<1>2. UNCHANGED <<rows, worker, touches>>
  BY DEF NewUser
<1>3. /\ list' \in Seq(SnapUsers) /\ Len(list') = Len(list) + 1 /\ Len(list) \in Nat
      /\ list'[1] = u /\ \A i \in 1 .. Len(list) : list'[i + 1] = list[i]
  BY <1>1 DEF SourceInv
<1>4. \A v \in SnapUsers : usage'[v] = IF v = u THEN <<1, 0>> ELSE usage[v]
  BY <1>1 DEF SourceInv
<1>5. \A i \in 1 .. Len(list') : list'[i] = u \/ (i - 1 \in 1 .. Len(list) /\ list'[i] = list[i - 1])
  BY <1>3
<1>6. SourceInv'
  <2>1. \A v \in AtSource' : v = u \/ v \in AtSource
    <3>1. Range(list) = {list[i] : i \in 1 .. Len(list)}
      BY RangeEquality DEF SourceInv
    <3>2. Range(list)' = {list'[i] : i \in 1 .. Len(list')}
      BY <1>3 DEF Range
    <3>3. QED
      BY <1>5, <3>1, <3>2 DEF AtSource
  <2>2. usage' \in [SnapUsers -> Nat \X Nat]
    BY <1>1 DEF SourceInv
  <2>3. AtSource \subseteq SnapUsers
    BY DEF AtSource, Range, SourceInv
  <2>4. \A v \in SnapUsers : usage'[v] = <<0, 0>> \/ usage'[v][1] >= 1
    <3>1. <<1, 0>>[1] >= 1
      OBVIOUS
    <3>2. usage'[u][1] >= 1
      BY <1>4, <3>1
    <3>3. QED
      BY <1>4, <3>2 DEF SourceInv
  <2>5. \A v \in AtSource' : usage'[v] # <<0, 0>>
    <3>1. <<1, 0>> # <<0, 0>>
      OBVIOUS
    <3>2. QED
      BY <1>4, <2>1, <2>3, <3>1 DEF SourceInv
  <2>6. QED
    BY <1>3, <2>2, <2>4, <2>5 DEF SourceInv
<1>7. RowsInv'
  BY <1>2, <1>4 DEF RowsInv, Listed
<1>8. WalkInv'
  <2>1. \A i \in 1 .. Len(list') : Walking /\ Unmet(i)' =>
          i - 1 \in 1 .. Len(list) /\ Unmet(i - 1)
    BY <1>1, <1>2, <1>5 DEF WalkInv, Unmet
  <2>2. Walking' = Walking /\ Sure' = Sure /\ AtEnd' = AtEnd
    BY <1>2 DEF Walking, Sure, AtEnd
  <2>3. \A v \in SnapUsers : usage'[v] = <<0, 0>> => usage[v] = <<0, 0>>
    BY <1>1, <1>4
  <2>4. Walking => worker.offset \in Nat
    BY WorkerFields DEF WalkInv
  <2>5. \A i \in 1 .. Len(list') : Walking /\ i - 1 > worker.offset => i > worker.offset
    BY <1>3, <2>4
  <2>7. worker.at = "write" => DOMAIN worker.page \subseteq SnapUsers
    BY WorkerFields DEF WalkInv
  <2>8. QED
    BY <1>2, <2>1, <2>2, <2>3, <2>5, <2>7 DEF WalkInv
<1>9. QED
  BY <1>6, <1>7, <1>8

\* What does not move keeps its part of the invariant.
LEMMA SourceKept == SourceInv /\ UNCHANGED <<list, usage>> => SourceInv'
BY DEF SourceInv, AtSource

\* Rows and touches that stay the same keep their part.
LEMMA RowsKept == RowsInv /\ UNCHANGED <<rows, touches, usage>> => RowsInv'
BY DEF RowsInv, Listed

\* So does a walk over a list that stays the same.
LEMMA WalkKept == WalkInv /\ UNCHANGED <<list, usage, worker>> => WalkInv'
BY DEF WalkInv, Walking, Sure, AtEnd, Unmet

\* A worker that is not in the middle of a walk promises nothing.
LEMMA WalkOver ==
  ASSUME worker' \in WorkerStates, worker'.at \notin {"walk", "write", "delete"}
  PROVE  WalkInv'
BY DEF WalkInv, Walking

\* Usage that grows: who was unknown stays so, and only he.
LEMMA UsageStep ==
  ASSUME SourceInv, WalkInv, UNCHANGED <<list, worker>>,
         NEW u \in AtSource, NEW f \in Nat \X Nat, f[1] >= 1, usage' = [usage EXCEPT ![u] = f]
  PROVE  /\ SourceInv' /\ WalkInv' /\ usage'[u] = f /\ f # UnknownUser /\ u \in SnapUsers
         /\ \A v \in SnapUsers : usage'[v] = UnknownUser <=> usage[v] = UnknownUser
<1>1. AtSource \subseteq SnapUsers
  <2>1. Range(list) = {list[i] : i \in 1 .. Len(list)}
    BY RangeEquality DEF SourceInv
  <2>2. QED
    BY <2>1 DEF SourceInv, AtSource
<1>2. f # UnknownUser
  BY DEF UnknownUser
<1>3. /\ usage' \in [SnapUsers -> Nat \X Nat] /\ usage'[u] = f
      /\ \A v \in SnapUsers : v # u => usage'[v] = usage[v]
  BY <1>1 DEF SourceInv
<1>4. \A v \in SnapUsers : usage'[v] = UnknownUser <=> usage[v] = UnknownUser
  BY <1>2, <1>3 DEF SourceInv
<1>5. AtSource' = AtSource
  BY DEF AtSource
<1>6. SourceInv'
  <2>1. \A v \in SnapUsers : usage'[v] = UnknownUser \/ usage'[v][1] >= 1
    BY <1>3 DEF SourceInv
  <2>2. \A v \in AtSource' : usage'[v] # UnknownUser
    BY <1>1, <1>4, <1>5 DEF SourceInv
  <2>3. QED
    BY <1>3, <2>1, <2>2 DEF SourceInv
<1>7. WalkInv'
  <2>1. worker.at = "write" => DOMAIN worker.page \subseteq SnapUsers
    BY WorkerFields DEF WalkInv
  <2>2. QED
    BY <1>4, <2>1 DEF WalkInv, Walking, Sure, AtEnd, Unmet
<1>8. QED
  BY <1>1, <1>2, <1>3, <1>4, <1>6, <1>7

\* A user of the list is known to the backend.
LEMMA ListedUser ==
  ASSUME SourceInv, NEW u \in AtSource
  PROVE  u \in SnapUsers /\ usage[u] \in Nat \X Nat /\ usage[u][1] \in Nat
           /\ usage[u][2] \in Nat /\ usage[u][1] >= 1 /\ usage[u] # UnknownUser
<1>1. Range(list) = {list[i] : i \in 1 .. Len(list)}
  BY RangeEquality DEF SourceInv
<1>2. u \in SnapUsers
  BY <1>1 DEF SourceInv, AtSource
<1>3. QED
  BY <1>2 DEF SourceInv

\* Spending, and a grant.
LEMMA SpendStep ==
  ASSUME ListingInv, NEW u \in SnapUsers, Spend(u)
  PROVE  ListingInv'
<1> USE DEF ListingInv
<1>1. u \in AtSource /\ UNCHANGED <<list, rows, worker, touches>>
      /\ usage' = [usage EXCEPT ![u][1] = @ + 1]
  BY DEF Spend
<1>2. PICK f : f = <<usage[u][1] + 1, usage[u][2]>>
  OBVIOUS
<1>3. usage[u] \in Nat \X Nat /\ usage[u][1] \in Nat /\ usage[u][2] \in Nat
  BY <1>1, ListedUser
<1>4. usage' = [usage EXCEPT ![u] = f]
  <2>1. [usage[u] EXCEPT ![1] = @ + 1] = f
    BY <1>2, <1>3
  <2>2. QED
    BY <1>1, <2>1 DEF SourceInv
<1>5. f \in Nat \X Nat /\ f[1] >= 1
  BY <1>2, <1>3
<1>6. SourceInv' /\ WalkInv' /\ \A v \in SnapUsers : usage'[v] = UnknownUser <=> usage[v] = UnknownUser
  BY <1>1, <1>4, <1>5, UsageStep
<1>7. RowsInv'
  BY <1>1, <1>6 DEF RowsInv, Listed
<1>8. QED
  BY <1>6, <1>7

\* A grant raises the count of a user who is at the source and leaves a touch.
LEMMA GrantStep ==
  ASSUME ListingInv, NEW u \in SnapUsers, Grant(u)
  PROVE  ListingInv'
<1> USE DEF ListingInv
<1>1. u \in AtSource /\ UNCHANGED <<list, rows, worker>>
      /\ usage' = [usage EXCEPT ![u][2] = @ + 1]
      /\ touches' = touches \cup {[user |-> u, fp |-> usage'[u]]}
  BY DEF Grant
<1>2. PICK f : f = <<usage[u][1], usage[u][2] + 1>>
  OBVIOUS
<1>3. /\ usage[u] \in Nat \X Nat /\ usage[u][1] \in Nat /\ usage[u][2] \in Nat
      /\ usage[u][1] >= 1
  BY <1>1, ListedUser
<1>4. usage' = [usage EXCEPT ![u] = f]
  <2>1. [usage[u] EXCEPT ![2] = @ + 1] = f
    BY <1>2, <1>3
  <2>2. QED
    BY <1>1, <2>1 DEF SourceInv
<1>5. f \in Nat \X Nat /\ f[1] >= 1
  BY <1>2, <1>3
<1>6. /\ SourceInv' /\ WalkInv' /\ usage'[u] = f /\ f # UnknownUser
      /\ \A v \in SnapUsers : usage'[v] = UnknownUser <=> usage[v] = UnknownUser
  BY <1>1, <1>4, <1>5, UsageStep
<1>7. RowsInv'
  <2>1. \A t \in touches' : t \in touches \/ (t.user = u /\ t.fp = f)
    BY <1>1, <1>6
  <2>2. \A t \in touches' : t.user \in SnapUsers /\ t.fp \in Nat \X Nat /\ t.fp # UnknownUser
                              /\ usage'[t.user] # UnknownUser
    BY <1>5, <1>6, <2>1 DEF RowsInv
  <2>3. QED
    BY <1>1, <1>6, <2>2 DEF RowsInv, Listed
<1>8. QED
  BY <1>6, <1>7

\* A touch writes the fingerprint of a user who registered.
LEMMA TouchStep ==
  ASSUME ListingInv, NEW t \in touches, _touch_snapshot(t)
  PROVE  ListingInv' /\ \A u \in SnapUsers : Listed(u) => Listed(u)'
<1> USE DEF ListingInv
<1>1. UNCHANGED <<list, usage, worker>> /\ touches' \subseteq touches
  BY DEF _touch_snapshot
<1>2. t.user \in SnapUsers /\ t.fp \in Nat \X Nat /\ t.fp # UnknownUser
        /\ usage[t.user] # UnknownUser
  BY DEF RowsInv
<1>3. rows' = rows \/ rows' = [rows EXCEPT ![t.user].fp = t.fp]
  BY DEF _touch_snapshot
<1>4. CASE rows' = rows
  BY <1>1, <1>4, SourceKept, WalkKept DEF RowsInv, Listed
<1>5. CASE rows' = [rows EXCEPT ![t.user].fp = t.fp]
  <2>1. \A v \in SnapUsers : v # t.user => rows'[v] = rows[v]
    BY <1>5 DEF RowsInv
  <2>2. rows'[t.user] \in BackendUserSnapshot /\ rows'[t.user].fp = t.fp
    BY <1>2, <1>5 DEF RowsInv, BackendUserSnapshot
  <2>3. rows' \in [SnapUsers -> BackendUserSnapshot]
    BY <1>2, <1>5, <2>1, <2>2 DEF RowsInv
  <2>4. rows'[t.user] # NoRow
    BY <1>2, <2>2 DEF NoRow, UnknownUser
  <2>5. \A u \in SnapUsers : Listed(u) => Listed(u)'
    BY <2>1, <2>4 DEF Listed
  <2>6. RowsInv'
    BY <1>1, <1>2, <2>1, <2>2, <2>3 DEF RowsInv, Listed
  <2>7. QED
    BY <1>1, <2>5, <2>6, SourceKept, WalkKept
<1>6. QED
  BY <1>3, <1>4, <1>5

\* A user who vanishes leaves the others in their order; a walk then marks it.
LEMMA DropStep ==
  ASSUME ListingInv, NEW u \in SnapUsers, DropUser(u)
  PROVE  ListingInv'
<1> USE DEF ListingInv
<1>1. PICK i \in DOMAIN list : list' = SubSeq(list, 1, i - 1) \o SubSeq(list, i + 1, Len(list))
  BY DEF DropUser
<1>2. UNCHANGED <<usage, rows, touches>>
  BY DEF DropUser
<1>3. worker' = IF worker.at \in {"walk", "write"} THEN [worker EXCEPT !.shrunk = TRUE] ELSE worker
  BY DEF DropUser
<1>4. /\ i \in 1 .. Len(list) /\ Len(list) \in Nat
      /\ list' \in Seq(SnapUsers) /\ Len(list') = Len(list) - 1
      /\ \A j \in 1 .. Len(list') : list'[j] = IF j < i THEN list[j] ELSE list[j + 1]
  <2>1. i \in 1 .. Len(list) /\ Len(list) \in Nat /\ list \in Seq(SnapUsers)
    BY DEF SourceInv
  <2>2. PICK before : before = SubSeq(list, 1, i - 1)
    OBVIOUS
  <2>3. PICK after : after = SubSeq(list, i + 1, Len(list))
    OBVIOUS
  <2>4. /\ before \in Seq(SnapUsers) /\ Len(before) = i - 1
        /\ \A j \in 1 .. i - 1 : before[j] = list[j]
    BY <2>1, <2>2
  <2>5. /\ after \in Seq(SnapUsers) /\ Len(after) = Len(list) - i
        /\ \A j \in 1 .. Len(list) - i : after[j] = list[i + j]
    BY <2>1, <2>3
  <2>6. list' = before \o after
    BY <1>1, <2>2, <2>3
  <2>7. list' \in Seq(SnapUsers) /\ Len(list') = Len(list) - 1
    BY <2>1, <2>4, <2>5, <2>6
  <2>8. ASSUME NEW j \in 1 .. Len(list')
        PROVE  list'[j] = IF j < i THEN list[j] ELSE list[j + 1]
    <3>1. CASE j < i
      BY <2>1, <2>4, <2>5, <2>6, <2>7, <3>1
    <3>2. CASE ~(j < i)
      <4>1. list'[j] = after[j - (i - 1)]
        <5>1. \A k \in 1 .. Len(before) + Len(after) :
                (before \o after)[k] = IF k <= Len(before) THEN before[k] ELSE after[k - Len(before)]
          BY <2>4, <2>5, ConcatProperties
        <5>2. j \in 1 .. Len(before) + Len(after) /\ ~(j <= Len(before))
          BY <2>1, <2>4, <2>5, <2>7, <3>2
        <5>3. QED
          BY <2>4, <2>6, <5>1, <5>2
      <4>2. after[j - (i - 1)] = list[i + (j - (i - 1))] /\ i + (j - (i - 1)) = j + 1
        BY <2>1, <2>5, <2>7, <3>2
      <4>3. QED
        BY <3>2, <4>1, <4>2
    <3>3. QED
      BY <3>1, <3>2
  <2>9. QED
    BY <2>1, <2>7, <2>8
<1>5. \A j \in 1 .. Len(list') : \E k \in 1 .. Len(list) : list'[j] = list[k]
  <2> SUFFICES ASSUME NEW j \in 1 .. Len(list') PROVE \E k \in 1 .. Len(list) : list'[j] = list[k]
    OBVIOUS
  <2>1. j \in 1 .. Len(list) /\ j + 1 \in 1 .. Len(list)
    BY <1>4
  <2>2. QED
    BY <1>4, <2>1
<1>6. SourceInv'
  <2>1. Range(list) = {list[j] : j \in 1 .. Len(list)}
    BY RangeEquality DEF SourceInv
  <2>2. Range(list)' = {list'[j] : j \in 1 .. Len(list')}
    BY <1>4 DEF Range
  <2>3. AtSource' \subseteq AtSource
    BY <1>5, <2>1, <2>2 DEF AtSource
  <2>4. QED
    BY <1>2, <1>4, <2>3 DEF SourceInv
<1>7. RowsInv'
  BY <1>2, RowsKept
<1>8. WalkInv'
  <2>1. CASE worker.at \in {"walk", "write"}
    <3>1. worker \in WorkerStates /\ Walking
      BY <2>1 DEF WalkInv, Walking
    <3>2. /\ worker' \in WorkerStates /\ worker'.at = worker.at /\ worker'.shrunk
          /\ worker'.known = worker.known
          /\ worker.at = "write" => worker'.page = worker.page
      <4>1. CASE worker.at = "walk"
        <5>1. worker \in WalkState({"walk", "delete"})
          BY <3>1, <4>1, WorkerFields
        <5>2. QED
          BY <1>3, <4>1, <5>1 DEF WalkState, WorkerStates
      <4>2. CASE worker.at = "write"
        <5>1. worker \in WriteState
          BY <3>1, <4>2, WorkerFields
        <5>2. worker' \in WriteState /\ worker'.at = worker.at /\ worker'.shrunk
              /\ worker'.known = worker.known /\ worker'.page = worker.page
          BY <1>3, <4>2, <5>1 DEF WriteState
        <5>3. QED
          BY <5>2 DEF WorkerStates
      <4>3. QED
        BY <2>1, <4>1, <4>2
    <3>3. QED
      BY <1>2, <3>1, <3>2 DEF WalkInv, Walking, Sure
  <2>2. CASE worker.at \notin {"walk", "write"}
    <3>1. worker' = worker
      BY <1>3, <2>2
    <3>2. \A j \in 1 .. Len(list') : Unmet(j)' => \E k \in 1 .. Len(list) : Unmet(k)
      BY <1>5, <3>1 DEF Unmet
    <3>3. Walking => AtEnd
      BY <2>2 DEF Walking, AtEnd
    <3>4. QED
      BY <1>2, <2>2, <3>1, <3>2, <3>3 DEF WalkInv, Walking, Sure
  <2>3. QED
    BY <2>1, <2>2
<1>9. QED
  BY <1>6, <1>7, <1>8

\* A cycle begins: nobody has been met, and the offset is before everybody.
LEMMA BeginCycleStep == ListingInv /\ BeginCycle => ListingInv'
<1> SUFFICES ASSUME ListingInv, BeginCycle PROVE ListingInv'
  OBVIOUS
<1> USE DEF ListingInv
<1>1. UNCHANGED <<list, usage, rows, touches>>
  BY DEF BeginCycle
<1>2. PICK known : known = [u \in SnapUsers |-> rows[u].fp]
  OBVIOUS
<1>3. known \in [SnapUsers -> Fingerprint]
  BY <1>2 DEF RowsInv, BackendUserSnapshot, Fingerprint
<1>4. worker' = [at |-> "walk", known |-> known, offset |-> 0, tracked |-> {}, dirty |-> {},
                 shrunk |-> FALSE, repeated |-> FALSE]
  BY <1>2 DEF BeginCycle
<1>5. worker' \in WorkerStates
  BY <1>3, <1>4 DEF WorkerStates, WalkState
<1>6. \A u \in SnapUsers : usage[u] = UnknownUser => known[u] = UnknownUser
  BY <1>2 DEF RowsInv
<1>7. \A i \in 1 .. Len(list') : ~AtEnd' /\ i > worker'.offset
  BY <1>1, <1>4 DEF AtEnd, SourceInv
<1>8. WalkInv'
  BY <1>1, <1>4, <1>5, <1>6, <1>7 DEF WalkInv, Walking
<1>9. QED
  BY <1>1, <1>8, SourceKept, RowsKept

\* A page: an empty one is the end of the list, and one that moves the offset
\* shows whom the walk had before it.
LEMMA TakePageStep ==
  ASSUME ListingInv, worker.at = "walk", NEW offset \in {0, worker.offset}, TakePage(offset)
  PROVE  ListingInv'
<1> USE DEF ListingInv
<1>1. UNCHANGED <<list, usage, rows, touches>>
  BY DEF TakePage
<1>2. PICK page : page = list_users(offset)
  OBVIOUS
<1>3. PICK fresh : fresh = Range(page) \ worker.tracked
  OBVIOUS
<1>4. PICK changed : changed = Changed(fresh)
  OBVIOUS
<1>5. \/ page = <<>> /\ worker' = [worker EXCEPT !.at = "delete"]
      \/ worker' = Resting
      \/ /\ fresh # {}
         /\ worker' = [at |-> "write", known |-> worker.known,
                       offset |-> worker.offset + Len(page),
                       tracked |-> worker.tracked \cup fresh,
                       dirty |-> worker.dirty \cup changed,
                       shrunk |-> worker.shrunk,
                       repeated |-> worker.repeated \/ offset # worker.offset,
                       page |-> [u \in changed |-> usage[u]], last |-> Len(page) < PageLimit]
  BY <1>2, <1>3, <1>4 DEF TakePage, Stalled, _record_failure
<1>6. worker \in WalkState({"walk", "delete"}) /\ Walking /\ worker.offset \in Nat
      /\ worker.known \in [SnapUsers -> Fingerprint] /\ worker.tracked \subseteq SnapUsers
      /\ worker.dirty \subseteq SnapUsers
  BY WorkerFields DEF WalkInv, Walking
<1>7. offset \in Nat
  BY <1>6
<1>8. Len(list) \in Nat /\ PageLimit \in Nat /\ PageLimit >= 1
  BY SnapshotAssumption DEF SourceInv
<1>9. PICK end : end = IF offset + PageLimit < Len(list) THEN offset + PageLimit ELSE Len(list)
  OBVIOUS
<1>10. /\ page \in Seq(SnapUsers) /\ Len(page) = (IF offset < end THEN end - offset ELSE 0)
       /\ \A i \in 1 .. Len(page) : page[i] = list[offset + i]
  <2>1. page = SubSeq(list, offset + 1, end)
    BY <1>2, <1>9 DEF list_users
  <2>2. list \in Seq(SnapUsers) /\ end \in Nat /\ end <= Len(list)
    BY <1>7, <1>8, <1>9 DEF SourceInv
  <2>3. CASE offset < end
    <3>1. offset + 1 \in 1 .. end + 1 /\ end \in offset .. Len(list)
      BY <1>7, <1>8, <2>2, <2>3
    <3>2. end - (offset + 1) + 1 = end - offset
      BY <1>7, <2>2
    <3>3. QED
      BY SMTT(30), <1>7, <2>1, <2>2, <2>3, <3>1, <3>2, SubSeqProperties
  <2>4. CASE ~(offset < end)
    BY <1>7, <1>8, <2>1, <2>2, <2>4
  <2>5. QED
    BY <2>3, <2>4
<1>11. Range(page) = {page[i] : i \in 1 .. Len(page)}
  BY <1>10, RangeEquality
<1>12. CASE page = <<>> /\ worker' = [worker EXCEPT !.at = "delete"]
  <2>1. /\ worker' \in WorkerStates /\ worker'.at = "delete" /\ worker'.known = worker.known
        /\ worker'.tracked = worker.tracked
        /\ worker'.shrunk = worker.shrunk /\ worker'.repeated = worker.repeated
    BY <1>6, <1>12 DEF WalkState, WorkerStates
  <2>2. Len(list) <= offset
    BY <1>7, <1>8, <1>9, <1>10, <1>12
  <2>3. \A i \in 1 .. Len(list) : ~(i > worker.offset)
    BY <1>6, <1>8, <2>2
  <2>4. Sure' => \A i \in 1 .. Len(list') : ~Unmet(i)'
    BY <1>1, <1>6, <2>1, <2>3 DEF WalkInv, Sure, Unmet
  <2>5. WalkInv'
    BY <1>1, <1>6, <2>1, <2>4 DEF WalkInv, Walking
  <2>6. QED
    BY <1>1, <2>5, SourceKept, RowsKept
<1>13. CASE worker' = Resting
  <2>1. WalkInv'
    BY <1>13 DEF WalkInv, Walking, Resting, WorkerStates
  <2>2. QED
    BY <1>1, <2>1, SourceKept, RowsKept
<1>14. ASSUME fresh # {},
              worker' = [at |-> "write", known |-> worker.known,
                       offset |-> worker.offset + Len(page),
                       tracked |-> worker.tracked \cup fresh,
                       dirty |-> worker.dirty \cup changed,
                       shrunk |-> worker.shrunk,
                       repeated |-> worker.repeated \/ offset # worker.offset,
                       page |-> [u \in changed |-> usage[u]], last |-> Len(page) < PageLimit]
       PROVE  ListingInv'
  <2>1. fresh \subseteq SnapUsers /\ \A u \in fresh : u \in AtSource
    <3>1. Range(list) = {list[j] : j \in 1 .. Len(list)}
      BY RangeEquality DEF SourceInv
    <3>2. \A i \in 1 .. Len(page) : offset + i \in 1 .. Len(list)
      BY <1>7, <1>8, <1>9, <1>10
    <3>3. \A i \in 1 .. Len(page) : page[i] \in Range(list)
      BY <1>10, <3>1, <3>2
    <3>4. \A u \in fresh : u \in AtSource
      BY <1>3, <1>11, <3>3 DEF AtSource
    <3>5. QED
      BY <3>4, ListedUser
  <2>2. changed \subseteq fresh
    BY <1>4 DEF Changed
  <2>3. PICK shown : shown = [u \in changed |-> usage[u]]
    OBVIOUS
  <2>4. shown \in [changed -> Fingerprint \ {UnknownUser}]
    BY <2>1, <2>2, <2>3, ListedUser DEF Fingerprint
  <2>5. worker' \in WriteState
    <3>1. shown \in UNION {[S -> Fingerprint \ {UnknownUser}] : S \in SUBSET SnapUsers}
      BY <2>1, <2>2, <2>4
    <3>2. worker.shrunk \in BOOLEAN /\ worker.repeated \in BOOLEAN
      BY <1>6 DEF WalkState
    <3>3. worker.offset + Len(page) \in Nat
      BY <1>6, <1>10
    <3>4. QED
      BY <1>6, <1>14, <2>1, <2>2, <2>3, <3>1, <3>2, <3>3 DEF WriteState
  <2>6. Sure' => \A i \in 1 .. Len(list') : Unmet(i)' => ~AtEnd' /\ i > worker'.offset
    <3>1. SUFFICES ASSUME Sure', NEW i \in 1 .. Len(list), Unmet(i)'
                   PROVE  ~AtEnd' /\ i > worker'.offset
      BY <1>1
    <3>2. Sure /\ offset = worker.offset
      BY <1>14, <3>1 DEF Sure
    <3>3. Unmet(i) /\ list[i] \notin fresh
      BY <1>1, <1>14, <3>1 DEF Unmet
    <3>4. i > offset
      BY <1>6, <3>2, <3>3 DEF WalkInv
    <3>5. \A j \in 1 .. Len(page) : page[j] # list[i]
      <4>1. list[i] \notin worker.tracked
        BY <3>3 DEF Unmet
      <4>2. QED
        BY <1>3, <1>11, <3>3, <4>1
    <3>6. ~(i <= end)
      <4>1. i <= end => i - offset \in 1 .. Len(page) /\ page[i - offset] = list[i]
        BY <1>7, <1>8, <1>9, <1>10, <3>4
      <4>2. QED
        BY <3>5, <4>1
    <3>7. end = offset + PageLimit /\ Len(page) = PageLimit
      BY <1>7, <1>8, <1>9, <1>10, <3>6
    <3>8. ~AtEnd'
      <4>1. ~(Len(page) < PageLimit)
        BY <1>8, <3>7
      <4>2. worker'.at = "write" /\ (worker'.last <=> Len(page) < PageLimit)
        BY <1>14
      <4>3. QED
        BY <4>1, <4>2 DEF AtEnd
    <3>9. i > worker.offset + Len(page)
      BY <1>7, <1>8, <3>2, <3>6, <3>7
    <3>10. QED
      BY <1>14, <3>8, <3>9
  <2>7. WalkInv'
    <3>1. worker'.at = "write" /\ worker'.known = worker.known /\ worker'.page = shown
      BY <1>14, <2>3
    <3>2. \A u \in DOMAIN shown : usage[u] # UnknownUser
      BY <2>1, <2>2, <2>3, ListedUser
    <3>3. QED
      BY <1>1, <1>6, <2>5, <2>6, <3>1, <3>2 DEF WalkInv, Walking, WorkerStates
  <2>8. QED
    BY <1>1, <2>7, SourceKept, RowsKept
<1>15. QED
  BY <1>5, <1>12, <1>13, <1>14

\* The write: what the page showed is stored, and the walk goes on or is over.
LEMMA UpsertStep ==
  ASSUME ListingInv, upsert_rows
  PROVE  ListingInv' /\ \A u \in SnapUsers : Listed(u) => Listed(u)'
<1> USE DEF ListingInv
<1>1. worker.at = "write" /\ UNCHANGED <<list, usage, touches>>
      /\ rows' = [u \in SnapUsers |->
           IF u \in DOMAIN worker.page THEN [rows[u] EXCEPT !.fp = worker.page[u]] ELSE rows[u]]
  BY DEF upsert_rows
<1>2. worker \in WriteState /\ Walking /\ worker.last \in BOOLEAN
      /\ \A u \in DOMAIN worker.page : worker.page[u] \in Fingerprint \ {UnknownUser}
  BY <1>1, WorkerFields DEF WalkInv, Walking
<1>3. worker' = [at |-> IF worker.last THEN "delete" ELSE "walk", known |-> worker.known,
                offset |-> worker.offset, tracked |-> worker.tracked, dirty |-> worker.dirty,
                shrunk |-> worker.shrunk, repeated |-> worker.repeated]
  BY DEF upsert_rows
<1>4. WalkInv'
  <2>1. worker' \in WalkState({"walk", "delete"})
    BY <1>2, <1>3 DEF WriteState, WalkState
  <2>2. AtEnd' => AtEnd
    BY <1>1, <1>3 DEF AtEnd
  <2>3. Sure' = Sure /\ worker'.known = worker.known /\ worker'.offset = worker.offset
        /\ worker'.tracked = worker.tracked
    BY <1>3 DEF Sure
  <2>4. worker'.at # "write"
    BY <1>3
  <2>5. QED
    BY <1>1, <1>2, <2>1, <2>2, <2>3, <2>4 DEF WalkInv, Unmet, WorkerStates
<1>5. \A u \in SnapUsers :
        IF u \in DOMAIN worker.page
        THEN rows'[u] \in BackendUserSnapshot /\ rows'[u].fp = worker.page[u]
        ELSE rows'[u] = rows[u]
  <2> SUFFICES ASSUME NEW u \in SnapUsers, u \in DOMAIN worker.page
               PROVE  rows'[u] \in BackendUserSnapshot /\ rows'[u].fp = worker.page[u]
    BY <1>1
  <2>1. PICK row \in BackendUserSnapshot : row = rows[u]
    BY DEF RowsInv
  <2>2. PICK fp \in Fingerprint : fp = worker.page[u]
    BY <1>2
  <2>3. rows'[u] = [row EXCEPT !.fp = fp]
    BY <1>1, <2>1, <2>2
  <2>4. QED
    BY <2>2, <2>3 DEF BackendUserSnapshot, Fingerprint
<1>6. RowsInv'
  <2>1. rows' \in [SnapUsers -> BackendUserSnapshot]
    BY <1>1, <1>5 DEF RowsInv
  <2>2. \A u \in SnapUsers : Listed(u)' => rows'[u].fp # UnknownUser
    BY <1>2, <1>5 DEF RowsInv, Listed
  <2>3. \A u \in SnapUsers : usage'[u] = UnknownUser => rows'[u].fp = UnknownUser
    BY <1>1, <1>5 DEF RowsInv, WalkInv
  <2>4. QED
    BY <1>1, <2>1, <2>2, <2>3 DEF RowsInv
<1>7. \A u \in SnapUsers : Listed(u) => Listed(u)'
  <2>1. \A u \in SnapUsers : u \in DOMAIN worker.page => rows'[u] # NoRow
    BY <1>2, <1>5 DEF NoRow, UnknownUser
  <2>2. QED
    BY <1>5, <2>1 DEF Listed
<1>8. QED
  BY <1>1, <1>4, <1>6, <1>7, SourceKept

\* The difference: whoever is deleted while the backend has him was not met by a
\* walk that is not sure of itself.
LEMMA DeleteStep ==
  ASSUME ListingInv, delete_rows
  PROVE  /\ ListingInv'
         /\ \A u \in SnapUsers : Listed(u) /\ ~Listed(u)' /\ u \in AtSource
              => worker.at = "delete" /\ (worker.shrunk \/ worker.repeated)
<1> USE DEF ListingInv
<1>1. worker.at = "delete" /\ UNCHANGED <<list, usage, touches>>
      /\ rows' = [u \in SnapUsers |->
           IF worker.known[u] # <<0, 0>> /\ u \notin worker.tracked THEN NoRow ELSE rows[u]]
      /\ worker' = [at |-> "stats", dirty |-> worker.dirty]
  BY DEF delete_rows
<1>2. Walking /\ worker.dirty \subseteq SnapUsers
  BY <1>1, WorkerFields DEF WalkInv, Walking
<1>3. WalkInv'
  BY <1>1, <1>2, WalkOver DEF WorkerStates
<1>4. RowsInv'
  <2>1. NoRow \in BackendUserSnapshot /\ NoRow.fp = UnknownUser
    BY DEF NoRow, BackendUserSnapshot, NotPriced, UnknownUser
  <2>2. QED
    BY <1>1, <2>1 DEF RowsInv, Listed
<1>5. ASSUME NEW u \in SnapUsers, Listed(u), ~Listed(u)', u \in AtSource
      PROVE  worker.shrunk \/ worker.repeated
  <2>1. worker.known[u] # <<0, 0>> /\ u \notin worker.tracked
    BY <1>1, <1>5 DEF Listed
  <2>2. PICK i \in 1 .. Len(list) : list[i] = u
    <3>1. Range(list) = {list[j] : j \in 1 .. Len(list)}
      BY RangeEquality DEF SourceInv
    <3>2. QED
      BY <1>5, <3>1 DEF AtSource
  <2>3. Unmet(i) /\ AtEnd
    BY <1>1, <2>1, <2>2 DEF Unmet, AtEnd, UnknownUser
  <2>4. ~Sure
    BY <1>2, <2>3 DEF WalkInv
  <2>5. QED
    BY <2>4 DEF Sure
<1>6. QED
  BY <1>1, <1>3, <1>4, <1>5, SourceKept

\* The cards to ask for.
LEMMA StatsStep ==
  ASSUME ListingInv, get_stats
  PROVE  ListingInv'
<1> USE DEF ListingInv
<1>1. worker.at = "stats" /\ UNCHANGED <<list, usage, rows, touches>>
  BY DEF get_stats
<1>2. PICK asked : asked = Smallest(worker.dirty, RevenueBatch)
  OBVIOUS
<1>3. PICK todo : todo = asked \cup (Newest(Unpriced, RevenueBatch - Cardinality(asked)) \ worker.dirty)
  OBVIOUS
<1>4. worker' = [at |-> "revenue", dirty |-> worker.dirty, asked |-> asked, todo |-> todo,
                 complete |-> TRUE, supported |-> "unknown"]
  BY <1>2, <1>3 DEF get_stats
<1>5. worker.dirty \subseteq SnapUsers
  BY <1>1, WorkerFields DEF WalkInv
<1>6. asked \subseteq SnapUsers /\ todo \subseteq SnapUsers
  BY <1>2, <1>3, <1>5 DEF Smallest, Newest, Unpriced
<1>7. worker' \in CardState
  BY <1>4, <1>5, <1>6 DEF CardState
<1>8. WalkInv'
  BY <1>4, <1>7, WalkOver DEF WorkerStates
<1>9. QED
  BY <1>1, <1>8, SourceKept, RowsKept

\* A card: the row that gets a price stays a row.
LEMMA FetchCardStep ==
  ASSUME ListingInv, NEW u \in SnapUsers, FetchCard(u)
  PROVE  ListingInv' /\ \A v \in SnapUsers : Listed(v) => Listed(v)'
<1> USE DEF ListingInv
<1>1. worker.at = "revenue" /\ UNCHANGED <<list, usage, touches>>
  BY DEF FetchCard
<1>2. worker \in CardState
  BY <1>1, WorkerFields DEF WalkInv
<1>3. worker' \in CardState
  <2>1. SupportedBy \in {"unknown", "yes", "no"}
    BY <1>2 DEF SupportedBy, CardState
  <2>2. \/ worker' = [worker EXCEPT !.todo = @ \ {u}, !.supported = SupportedBy]
        \/ worker' = [worker EXCEPT !.todo = @ \ {u}]
        \/ worker' = [worker EXCEPT !.todo = {}, !.complete = FALSE]
    BY DEF FetchCard
  <2>3. QED
    BY <1>2, <2>1, <2>2 DEF CardState
<1>4. WalkInv'
  <2>1. worker'.at = "revenue"
    BY <1>3 DEF CardState
  <2>2. QED
    BY <1>3, <2>1, WalkOver DEF WorkerStates
<1>5. CASE rows' = rows
  BY <1>1, <1>4, <1>5, SourceKept, RowsKept DEF Listed
<1>6. CASE rows' # rows
  <2>1. u \in AtSource /\ Listed(u) /\ rows' = set_revenue(u)
    BY <1>6 DEF FetchCard
  <2>2. PICK cost \in Int : cost = IF revenue THEN usage[u][1] ELSE NoRevenue
    BY <2>1, ListedUser DEF NoRevenue
  <2>3. PICK row \in BackendUserSnapshot : row = rows[u]
    BY DEF RowsInv
  <2>4. rows' = [rows EXCEPT ![u] = [row EXCEPT !.cost = cost]]
    BY <2>1, <2>2, <2>3 DEF set_revenue
  <2>5. PICK new \in BackendUserSnapshot : new = [row EXCEPT !.cost = cost] /\ new.fp = row.fp
    <3>1. PICK new : new = [row EXCEPT !.cost = cost]
      OBVIOUS
    <3>2. new \in BackendUserSnapshot /\ new.fp = row.fp
      BY <3>1 DEF BackendUserSnapshot
    <3>3. QED
      BY <3>1, <3>2
  <2>6. rows' \in [SnapUsers -> BackendUserSnapshot]
        /\ \A v \in SnapUsers : rows'[v] = IF v = u THEN new ELSE rows[v]
    BY <2>4, <2>5 DEF RowsInv
  <2>7. new.fp # UnknownUser /\ new # NoRow
    BY <2>1, <2>3, <2>5 DEF RowsInv, NoRow, UnknownUser, Listed
  <2>8. usage[u] # UnknownUser
    BY <2>1, ListedUser
  <2>9. RowsInv'
    BY <1>1, <2>6, <2>7, <2>8 DEF RowsInv, Listed
  <2>10. \A v \in SnapUsers : Listed(v) => Listed(v)'
    BY <2>6, <2>7 DEF Listed
  <2>11. QED
    BY <1>1, <1>4, <2>9, <2>10, SourceKept
<1>7. QED
  BY <1>5, <1>6

\* What the property says of a step.
ListedStep ==
  \A u \in SnapUsers : Listed(u) /\ ~Listed(u)' /\ u \in AtSource
    => worker.at = "delete" /\ (worker.shrunk \/ worker.repeated)

\* Steps of the worker that write no row and end in rest.
LEMMA RestStep ==
  ASSUME ListingInv, worker' = Resting, UNCHANGED <<list, usage, rows, touches>>
  PROVE  ListingInv'
<1>1. WalkInv'
  BY WalkOver DEF WorkerStates, Resting
<1>2. QED
  BY <1>1, SourceKept, RowsKept DEF ListingInv

\* Every step of the snapshot keeps the invariant and hides no user.
LEMMA ListingNext ==
  ListingInv /\ [SnapshotNext]_snapshotVars => ListingInv' /\ ListedStep
<1> SUFFICES ASSUME ListingInv, [SnapshotNext]_snapshotVars PROVE ListingInv' /\ ListedStep
  OBVIOUS
<1> USE DEF ListedStep
<1>1. CASE UNCHANGED rows
  <2>1. \A u \in SnapUsers : Listed(u) => Listed(u)'
    BY <1>1 DEF Listed
  <2>2. CASE NewUser
    BY <2>1, <2>2, NewUserStep
  <2>3. CASE Upgrade \/ UNCHANGED snapshotVars
    BY <2>1, <2>3, SourceKept, RowsKept, WalkKept DEF Upgrade, snapshotVars, ListingInv
  <2>4. CASE \E u \in SnapUsers : DropUser(u) \/ Spend(u) \/ Grant(u)
    BY <2>1, <2>4, DropStep, SpendStep, GrantStep
  <2>5. CASE \E t \in touches : _touch_snapshot(t)
    BY <2>5, TouchStep
  <2>6. CASE BeginCycle
    BY <2>1, <2>6, BeginCycleStep
  <2>7. CASE _walk_users
    BY <2>1, <2>7, TakePageStep DEF _walk_users
  <2>8. CASE upsert_rows
    BY <2>8, UpsertStep
  <2>9. CASE delete_rows
    BY <2>9, DeleteStep
  <2>10. CASE get_stats
    BY <2>1, <2>10, StatsStep
  <2>11. CASE \E u \in SnapUsers : FetchCard(u)
    BY <2>11, FetchCardStep
  <2>12. CASE FinishCycle \/ CycleFails \/ CrashWorker
    BY <2>1, <2>12, RestStep DEF FinishCycle, CycleFails, CrashWorker, _record_failure
  <2>13. QED
    BY <2>2, <2>3, <2>4, <2>5, <2>6, <2>7, <2>8, <2>9, <2>10, <2>11, <2>12
       DEF SnapshotNext, WorkerStep
<1>2. CASE ~UNCHANGED rows
  <2>1. \/ \E t \in touches : _touch_snapshot(t)
        \/ upsert_rows \/ delete_rows
        \/ \E u \in SnapUsers : FetchCard(u)
    BY <1>2 DEF SnapshotNext, WorkerStep, NewUser, Upgrade, DropUser, Spend, Grant, BeginCycle,
                _walk_users, TakePage, get_stats, FinishCycle, CycleFails, CrashWorker, snapshotVars
  <2>2. QED
    BY <2>1, TouchStep, UpsertStep, DeleteStep, FetchCardStep
<1>3. QED
  BY <1>1, <1>2

\* Over every interleaving of the walk with the backend's users, the console's
\* grants, broken pages, failures and crashes, a user the backend has leaves the
\* snapshot only through a list that got shorter, or a repeated page taken for
\* the next one (_walk_users, delete_rows).
THEOREM LoopsLiveStaysListed == LoopsSpec => LiveStaysListed
<1>1. LoopsInit => ListingInv
  BY ListingInit DEF LoopsInit
<1>2. [LoopsNext]_loopsVars => [SnapshotNext]_snapshotVars
  BY DEF LoopsNext, loopsVars, snapshotVars
<1>3. ListingInv /\ [LoopsNext]_loopsVars => ListingInv' /\ ListedStep
  BY <1>2, ListingNext
<1>4. ListingInv /\ [LoopsNext]_loopsVars =>
        [\A u \in SnapUsers : Listed(u) /\ ~Listed(u)' /\ u \in AtSource
           => worker.at = "delete" /\ (worker.shrunk \/ worker.repeated)]_snapshotVars
  BY <1>3 DEF ListedStep
<1>5. QED
  BY <1>1, <1>3, <1>4, PTL DEF LoopsSpec, LiveStaysListed

(***************************************************************************)
(* AI keys.                                                                *)
(***************************************************************************)

\* What a task of a kind may hold, and what may be said of a key by it.
StatusOf(kind) ==
  CASE kind = "check" -> {"pending", "working", "error"}
    [] kind = "probe" -> {"none", "ok", "depleted"}
    [] kind = "sync"  -> Levels \cup {"none"}
AnswersOf(kind) ==
  CASE kind = "check" -> {"working", "error"}
    [] kind = "probe" -> {"ok", "depleted"}
    [] kind = "sync"  -> Levels \cup {"error", "unknown"}
WordsOf(kind) ==
  CASE kind = "check" -> {"error", "recovery"}
    [] kind = "probe" -> {"depleted", "recovered"}
    [] kind = "sync"  -> {"low", "depleted", "recovered"}
Heard(kind) == WordsOf(kind) \cup {"none", "mixed"}
AskTask(kind) ==
  [at : {"ask"}, old : BOOLEAN, secret : Nat, prev : StatusOf(kind),
   streak : 0 .. FailThreshold, billed : Nat]
StoreTask(kind) ==
  [at : {"store"}, old : BOOLEAN, secret : Nat, prev : StatusOf(kind),
   streak : 0 .. FailThreshold, billed : Nat, answer : AnswersOf(kind)]
TellTask(kind) ==
  [at : {"tell"}, alert : WordsOf(kind) \cup (IF kind = "sync" THEN {"sync_failed"} ELSE {})]
TasksOf(kind) ==
  {Idle, [at |-> "read"]} \cup AskTask(kind) \cup StoreTask(kind) \cup TellTask(kind)

\* The status in the row that a kind of tasks writes and compares with.
Status(kind, row) ==
  CASE kind = "check" -> row.check [] kind = "probe" -> row.credit [] kind = "sync" -> row.level

\* The status is the memory of what was told last; of a story begun anew it
\* may say anything.
Agrees(kind, status, word) ==
  CASE kind = "check" -> /\ word = "error" => status = "error"
                         /\ word = "recovery" => status # "error"
    [] kind = "probe" -> /\ word = "depleted" => status = "depleted"
                         /\ word = "recovered" => status # "depleted"
    [] kind = "sync"  -> /\ word \in {"low", "depleted"} => status = word
                         /\ word = "recovered" => status = "normal"

\* What a task on its own knows of the row, or is about to say of it.
Knows(kind, row, t) ==
  /\ row.life = "here" /\ ~t.old /\ t.prev = Status(kind, row)
  /\ kind = "sync" => row.on /\ t.billed = row.billed /\ t.secret = row.secret
Follows(kind, row, t, word) ==
  /\ t.at \in {"ask", "store"} => Knows(kind, row, t)
  /\ t.at = "tell" =>
       IF t.alert = "sync_failed" THEN Agrees(kind, Status(kind, row), word)
       ELSE t.alert # word /\ Agrees(kind, Status(kind, row), t.alert)

SlotsOf(kind) == {s \in Slots : s[1] = kind}
KindOK(kind, row, tasks, word) ==
  /\ \A r, s \in SlotsOf(kind) : r # s => tasks[r] = Idle \/ tasks[s] = Idle
  /\ \A s \in SlotsOf(kind) : Follows(kind, row, tasks[s], word)
  /\ (\A s \in SlotsOf(kind) : tasks[s].at # "tell") => Agrees(kind, Status(kind, row), word)

BalanceOK(row) ==
  /\ row.billed \in {NoKey, row.secret}
  /\ ~row.on => row.level = "none" /\ row.sync = "none" /\ row.streak = 0 /\ row.billed = NoKey

\* A key, its tasks and what was told of it; a balance is in order unless the
\* key is marked as astray.
KeyTyped(row, tasks, words) ==
  /\ row \in AiKeyRow
  /\ tasks = [s \in Slots |-> tasks[s]] /\ \A s \in Slots : tasks[s] \in TasksOf(s[1])
  /\ words = [kind \in Kinds |-> words[kind]] /\ \A kind \in Kinds : words[kind] \in Heard(kind)
NewOK(row, tasks, words) ==
  row.life = "new" => /\ \A s \in Slots : tasks[s] = Idle
                      /\ \A kind \in Kinds : words[kind] = "none"
KeyOK(k, row, tasks, words, marked) ==
  /\ KeyTyped(row, tasks, words) /\ NewOK(row, tasks, words)
  /\ \A kind \in Kinds : words[kind] # "mixed" => KindOK(kind, row, tasks, words[kind])
  /\ words["sync"] # "mixed" /\ k \notin marked => BalanceOK(row)

\* The edits in flight, and the keys they have left astray.
EditOK(x) == x = Idle \/ x \in [at : {"edit"}, key : AiKeyIds, row : AiKeyRow, fresh : Nat]
EditsOK ==
  /\ edit = [e \in Editors |-> edit[e]] /\ \A e \in Editors : EditOK(edit[e])
  /\ astray \subseteq AiKeyIds

\* The inductive invariant of the keys.
KeysInv ==
  /\ aiKey = [k \in AiKeyIds |-> aiKey[k]] /\ aiTask = [k \in AiKeyIds |-> aiTask[k]]
  /\ told = [k \in AiKeyIds |-> told[k]]
  /\ provider \in [AiKeyIds -> ProviderTruth]
  /\ keyEdits \in 0 .. MaxKeyEdits /\ keyTrouble \in 0 .. MaxKeyTrouble /\ loops \in LoopGroups
  /\ \A k \in AiKeyIds : KeyOK(k, aiKey[k], aiTask[k], told[k], astray)
  /\ EditsOK

\* Slots are pairs of a kind and the way a task came about.
LEMMA SlotShape ==
  /\ \A s \in Slots : s = <<s[1], s[2]>> /\ s[1] \in Kinds
  /\ \A kind \in Kinds : <<kind, "poll">> \in Slots
  /\ \A s \in Slots : s[2] \in {"poll", "spawn"}
BY DEF Slots, Kinds

\* The fields of a task, by its place.
LEMMA TaskFields ==
  ASSUME NEW kind \in Kinds, NEW t \in TasksOf(kind)
  PROVE  /\ t.at \in {"idle", "read", "ask", "store", "tell"}
         /\ t.at = "idle" => t = Idle
         /\ t.at = "ask" => t \in AskTask(kind)
         /\ t.at = "store" => t \in StoreTask(kind)
         /\ t.at = "tell" => t \in TellTask(kind)
BY DEF TasksOf, Idle, AskTask, StoreTask, TellTask

\* The invariant is more than the property.
LEMMA KeysInvHolds == KeysInv => AiKeysHold
<1> SUFFICES ASSUME KeysInv PROVE AiKeysHold
  OBVIOUS
<1>1. aiKey \in [AiKeyIds -> AiKeyRow]
  BY DEF KeysInv, KeyOK, KeyTyped
<1>2. \A k \in AiKeyIds, s \in Slots : aiTask[k][s].at \in {"idle", "read", "ask", "store", "tell"}
  BY SlotShape, TaskFields DEF KeysInv, KeyOK, KeyTyped
<1>3. \A k \in AiKeyIds : told[k] = [kind \in Kinds |-> told[k][kind]]
                           /\ \A kind \in Kinds : told[k][kind] \in Heard(kind)
  BY DEF KeysInv, KeyOK, KeyTyped
<1>4. \A kind \in Kinds : Heard(kind) \subseteq {"none", "error", "recovery", "depleted", "low",
                                                "recovered", "mixed"}
  BY DEF Heard, WordsOf, Kinds
<1>5. told \in [AiKeyIds -> [Kinds -> {"none", "error", "recovery", "depleted", "low",
                                       "recovered", "twice", "mixed"}]]
  <2>1. \A k \in AiKeyIds : told[k] \in [Kinds -> {"none", "error", "recovery", "depleted", "low",
                                                  "recovered", "twice", "mixed"}]
    BY <1>3, <1>4
  <2>2. QED
    BY <2>1 DEF KeysInv
<1>6. AlertsNotRepeated
  BY <1>3, <1>4 DEF AlertsNotRepeated
<1>7. BalanceBelongsToKey
  BY DEF KeysInv, KeyOK, BalanceOK, BalanceBelongsToKey
<1>8. /\ \A e \in Editors : edit[e] # Idle => edit[e].key \in AiKeyIds /\ edit[e].row \in AiKeyRow
      /\ astray \subseteq AiKeyIds
  BY DEF KeysInv, EditsOK, EditOK
<1>9. QED
  BY <1>1, <1>2, <1>5, <1>6, <1>7, <1>8 DEF KeysInv, AiKeysTypeOK, AiKeysHold

\* At first no key is there.
LEMMA KeysInit == AiKeysInit => KeysInv
<1> SUFFICES ASSUME AiKeysInit PROVE KeysInv
  OBVIOUS
<1>1. \A k \in AiKeyIds : KeyOK(k, aiKey[k], aiTask[k], told[k], astray)
  <2> SUFFICES ASSUME NEW k \in AiKeyIds PROVE KeyOK(k, aiKey[k], aiTask[k], told[k], astray)
    OBVIOUS
  <2>1. PICK row : row = [life |-> "new", secret |-> 1, check |-> "pending", credit |-> "none",
                   on |-> FALSE, level |-> "none", sync |-> "none", streak |-> 0, billed |-> NoKey]
    OBVIOUS
  <2>2. row \in AiKeyRow /\ BalanceOK(row)
    BY <2>1, AiKeysAssumption DEF AiKeyRow, BalanceOK, NoKey
  <2>3. aiKey[k] = row /\ aiTask[k] = [s \in Slots |-> Idle] /\ told[k] = [kind \in Kinds |-> "none"]
    BY <2>1 DEF AiKeysInit
  <2>4. KeyTyped(aiKey[k], aiTask[k], told[k]) /\ NewOK(aiKey[k], aiTask[k], told[k])
    BY <2>2, <2>3 DEF KeyTyped, TasksOf, Heard, NewOK
  <2>5. \A kind \in Kinds : KindOK(kind, row, [s \in Slots |-> Idle], "none")
    BY <2>1 DEF KindOK, SlotsOf, Follows, Agrees, Status, Kinds, Idle
  <2>6. QED
    BY <2>2, <2>3, <2>4, <2>5 DEF KeyOK
<1>2. provider \in [AiKeyIds -> ProviderTruth]
  BY DEF AiKeysInit, ProviderTruth, Levels
<1>3. aiKey = [k \in AiKeyIds |-> aiKey[k]]
  BY DEF AiKeysInit
<1>4. aiTask = [k \in AiKeyIds |-> aiTask[k]]
  BY DEF AiKeysInit
<1>5. told = [k \in AiKeyIds |-> told[k]]
  BY DEF AiKeysInit
<1>6. loops \in LoopGroups /\ keyEdits \in 0 .. MaxKeyEdits /\ keyTrouble \in 0 .. MaxKeyTrouble
  BY AiKeysAssumption DEF AiKeysInit
<1>7. EditsOK
  BY DEF AiKeysInit, EditsOK, EditOK
<1>8. QED
  BY <1>1, <1>2, <1>3, <1>4, <1>5, <1>6, <1>7 DEF KeysInv

\* Tasks of different kinds share no slot and no status.
SameFor(kind, row, new) ==
  /\ new.life = row.life /\ Status(kind, new) = Status(kind, row)
  /\ kind = "sync" => new.on = row.on /\ new.billed = row.billed /\ new.secret = row.secret

\* A task of another kind that stores its verdict leaves a kind as it was.
LEMMA KindUntouched ==
  ASSUME NEW kind \in Kinds, NEW row, NEW new, NEW tasks, NEW moved, NEW word,
         KindOK(kind, row, tasks, word), SameFor(kind, row, new),
         \A s \in SlotsOf(kind) : moved[s] = tasks[s]
  PROVE  KindOK(kind, new, moved, word)
BY DEF KindOK, Follows, Knows, SameFor

\* One task of a kind moves, and the others of its kind are idle.
LEMMA KindMoves ==
  ASSUME NEW s \in Slots, NEW row, NEW tasks, NEW word, NEW t,
         \A r \in SlotsOf(s[1]) : r # s => tasks[r] = Idle, tasks[s] = t,
         Follows(s[1], row, t, word), t.at # "tell" => Agrees(s[1], Status(s[1], row), word)
  PROVE  KindOK(s[1], row, tasks, word)
<1>1. s \in SlotsOf(s[1])
  BY DEF SlotsOf
<1>2. \A r \in SlotsOf(s[1]) : r # s => tasks[r].at = "idle"
  BY DEF Idle
<1>3. QED
  BY <1>1, <1>2 DEF KindOK, Follows

\* A task that is not idle is the only one of its kind, while nothing is mixed.
LEMMA BusyAlone ==
  ASSUME NEW row, NEW tasks, NEW word, NEW s \in Slots, KindOK(s[1], row, tasks, word),
         tasks[s] # Idle
  PROVE  /\ \A r \in SlotsOf(s[1]) : r # s => tasks[r] = Idle
         /\ Follows(s[1], row, tasks[s], word)
         /\ tasks[s].at # "tell" => Agrees(s[1], Status(s[1], row), word)
<1>1. s \in SlotsOf(s[1])
  BY DEF SlotsOf
<1>2. \A r \in SlotsOf(s[1]) : r # s => tasks[r] = Idle
  BY <1>1 DEF KindOK
<1>3. tasks[s].at # "tell" => \A r \in SlotsOf(s[1]) : tasks[r].at # "tell"
  BY <1>2 DEF Idle
<1>4. QED
  BY <1>1, <1>2, <1>3 DEF KindOK

\* One slot of a key moves and its row with it.
LEMMA SlotMoves ==
  ASSUME NEW k, NEW row, NEW tasks, NEW words, KeyOK(k, row, tasks, words, astray), NEW s \in Slots,
         NEW new \in AiKeyRow, new.life # "new", NEW t \in TasksOf(s[1]),
         \A kind \in Kinds : kind # s[1] => SameFor(kind, row, new),
         words["sync"] # "mixed" /\ k \notin astray => BalanceOK(new),
         words[s[1]] # "mixed" =>
           /\ \A r \in SlotsOf(s[1]) : r # s => tasks[r] = Idle
           /\ Follows(s[1], new, t, words[s[1]])
           /\ t.at # "tell" => Agrees(s[1], Status(s[1], new), words[s[1]])
  PROVE  KeyOK(k, new, [tasks EXCEPT ![s] = t], words, astray)
<1>1. PICK moved : moved = [tasks EXCEPT ![s] = t]
  OBVIOUS
<1>2. moved = [r \in Slots |-> IF r = s THEN t ELSE tasks[r]]
  BY <1>1 DEF KeyOK, KeyTyped
<1>3. moved[s] = t /\ \A r \in Slots : r # s => moved[r] = tasks[r]
  BY <1>2
<1>4. KeyTyped(new, moved, words)
  <2>1. moved = [r \in Slots |-> moved[r]]
    BY <1>2
  <2>2. \A r \in Slots : moved[r] \in TasksOf(r[1])
    BY <1>3 DEF KeyOK, KeyTyped
  <2>3. QED
    BY <2>1, <2>2 DEF KeyOK, KeyTyped
<1>5. ASSUME NEW kind \in Kinds, words[kind] # "mixed"
      PROVE  KindOK(kind, new, moved, words[kind])
  <2>1. CASE kind = s[1]
    <3>1. \A r \in SlotsOf(s[1]) : r # s => moved[r] = Idle
      BY <1>3, <1>5, <2>1 DEF SlotsOf
    <3>2. QED
      BY <1>3, <1>5, <2>1, <3>1, KindMoves
  <2>2. CASE kind # s[1]
    <3>1. \A r \in SlotsOf(kind) : moved[r] = tasks[r]
      BY <1>3, <2>2 DEF SlotsOf
    <3>2. KindOK(kind, row, tasks, words[kind]) /\ SameFor(kind, row, new)
      BY <1>5, <2>2 DEF KeyOK
    <3>3. QED
      BY <3>1, <3>2, KindUntouched
  <2>3. QED
    BY <2>1, <2>2
<1>6. QED
  BY <1>1, <1>4, <1>5 DEF KeyOK, NewOK

\* The snapshot of a row is what a task may hold, and knows the row.
LEMMA SnapshotKnows ==
  ASSUME NEW kind \in Kinds, NEW k \in AiKeyIds, aiKey[k] \in AiKeyRow
  PROVE  /\ Snapshot(k, kind) \in TasksOf(kind) /\ Snapshot(k, kind).at = "ask"
         /\ Eligible(k, kind) => Knows(kind, aiKey[k], Snapshot(k, kind))
<1>1. PICK row \in AiKeyRow : row = aiKey[k]
  OBVIOUS
<1>2. PICK prev : prev = Status(kind, row)
  OBVIOUS
<1>3. prev \in StatusOf(kind)
  BY <1>1, <1>2 DEF AiKeyRow, Status, StatusOf, Kinds
<1>4. PICK streak \in 0 .. FailThreshold : streak = IF kind = "sync" THEN row.streak ELSE 0
  BY <1>1, AiKeysAssumption DEF AiKeyRow
<1>5. PICK billed \in Nat : billed = IF kind = "sync" THEN row.billed ELSE NoKey
  BY <1>1 DEF AiKeyRow, NoKey
<1>6. Snapshot(k, kind) = [at |-> "ask", old |-> FALSE, secret |-> row.secret, prev |-> prev,
                           streak |-> streak, billed |-> billed]
  BY <1>1, <1>2, <1>4, <1>5 DEF Snapshot, Status, Kinds
<1>7. row.secret \in Nat
  BY <1>1 DEF AiKeyRow
<1>8. Snapshot(k, kind) \in AskTask(kind)
  BY <1>3, <1>6, <1>7 DEF AskTask
<1>9. Eligible(k, kind) => Knows(kind, row, Snapshot(k, kind))
  BY <1>1, <1>2, <1>5, <1>6 DEF Eligible, Here, Knows
<1>10. QED
  BY <1>1, <1>6, <1>8, <1>9 DEF TasksOf

\* One key moves, and the others stay as they are.
OneKey(f, g, k, x) == g = [f EXCEPT ![k] = x] \/ (g = f /\ x = f[k])
\* If one key with its tasks and words moves to a state that is in order, all are.
LEMMA OneKeyMoves ==
  ASSUME KeysInv, NEW k \in AiKeyIds, NEW row, NEW tasks, NEW words,
         KeyOK(k, row, tasks, words, astray'),
         OneKey(aiKey, aiKey', k, row), OneKey(aiTask, aiTask', k, tasks),
         OneKey(told, told', k, words), provider' \in [AiKeyIds -> ProviderTruth],
         \A j \in AiKeyIds : j # k => (j \in astray' <=> j \in astray), EditsOK',
         keyEdits' \in 0 .. MaxKeyEdits, keyTrouble' \in 0 .. MaxKeyTrouble, UNCHANGED loops
  PROVE  KeysInv'
<1>1. \A j \in AiKeyIds : /\ aiKey'[j] = IF j = k THEN row ELSE aiKey[j]
                          /\ aiTask'[j] = IF j = k THEN tasks ELSE aiTask[j]
                          /\ told'[j] = IF j = k THEN words ELSE told[j]
  BY DEF KeysInv, OneKey
<1>2. aiKey' = [j \in AiKeyIds |-> aiKey'[j]]
  BY DEF KeysInv, OneKey
<1>3. aiTask' = [j \in AiKeyIds |-> aiTask'[j]]
  BY DEF KeysInv, OneKey
<1>4. told' = [j \in AiKeyIds |-> told'[j]]
  BY DEF KeysInv, OneKey
<1>5. ASSUME NEW j \in AiKeyIds PROVE KeyOK(j, aiKey'[j], aiTask'[j], told'[j], astray')
  <2>1. CASE j = k
    BY <1>1, <2>1
  <2>2. CASE j # k
    <3>1. KeyOK(j, aiKey[j], aiTask[j], told[j], astray)
      BY DEF KeysInv
    <3>2. aiKey'[j] = aiKey[j] /\ aiTask'[j] = aiTask[j] /\ told'[j] = told[j]
          /\ (j \in astray' <=> j \in astray)
      BY <1>1, <2>2
    <3>3. QED
      BY <3>1, <3>2 DEF KeyOK
  <2>3. QED
    BY <2>1, <2>2
<1>6. QED
  BY <1>2, <1>3, <1>4, <1>5 DEF KeysInv

\* A task moves: no edit does.
LEMMA OneTaskMoves ==
  ASSUME KeysInv, NEW k \in AiKeyIds, NEW row, NEW tasks, NEW words,
         KeyOK(k, row, tasks, words, astray),
         OneKey(aiKey, aiKey', k, row), OneKey(aiTask, aiTask', k, tasks),
         OneKey(told, told', k, words), UNCHANGED <<provider, editVars, keyTrouble, loops>>
  PROVE  KeysInv'
<1>1. /\ provider' = provider /\ edit' = edit /\ astray' = astray /\ keyEdits' = keyEdits
      /\ keyTrouble' = keyTrouble /\ loops' = loops
  BY DEF editVars
<1>2. KeyOK(k, row, tasks, words, astray')
  BY <1>1
<1>3. EditsOK'
  BY <1>1 DEF KeysInv, EditsOK
<1>4. /\ provider' \in [AiKeyIds -> ProviderTruth] /\ keyEdits' \in 0 .. MaxKeyEdits
      /\ keyTrouble' \in 0 .. MaxKeyTrouble
  BY <1>1 DEF KeysInv
<1>5. QED
  BY <1>1, <1>2, <1>3, <1>4, OneKeyMoves

\* What the invariant says of one slot of one key.
LEMMA KeySlot ==
  ASSUME KeysInv, NEW k \in AiKeyIds, NEW s \in Slots
  PROVE  /\ KeyOK(k, aiKey[k], aiTask[k], told[k], astray) /\ aiKey[k] \in AiKeyRow
         /\ aiTask[k] = [r \in Slots |-> aiTask[k][r]] /\ s[1] \in Kinds
         /\ aiTask[k][s] \in TasksOf(s[1]) /\ told[k][s[1]] \in Heard(s[1])
         /\ told[k][s[1]] # "mixed" => KindOK(s[1], aiKey[k], aiTask[k], told[k][s[1]])
BY SlotShape DEF KeysInv, KeyOK, KeyTyped

\* A step of a task that leaves the row alone and tells nothing.
LEMMA QuietTask ==
  ASSUME KeysInv, NEW k \in AiKeyIds, NEW s \in Slots, NEW t \in TasksOf(s[1]),
         aiTask[k][s] # Idle, aiTask[k][s].at # "tell", t.at \notin {"store", "tell"} \/
           (aiTask[k][s].at = "ask" /\ t.at = "store" /\ t.old = aiTask[k][s].old
              /\ t.prev = aiTask[k][s].prev /\ t.billed = aiTask[k][s].billed
              /\ t.secret = aiTask[k][s].secret),
         t.at = "ask" => Knows(s[1], aiKey[k], t),
         aiTask' = [aiTask EXCEPT ![k][s] = t],
         UNCHANGED <<aiKey, provider, editVars, keyTrouble, told, loops>>
  PROVE  KeysInv'
<1>1. PICK row : row = aiKey[k]
  OBVIOUS
<1>2. PICK tasks : tasks = aiTask[k]
  OBVIOUS
<1>3. PICK words : words = told[k]
  OBVIOUS
<1>4. KeyOK(k, row, tasks, words, astray) /\ s[1] \in Kinds /\ row \in AiKeyRow
      /\ tasks[s] # Idle /\ tasks[s].at # "tell" /\ row.life # "new"
  BY <1>1, <1>2, <1>3, KeySlot DEF KeyOK, NewOK
<1>5. words[s[1]] # "mixed" =>
           /\ \A r \in SlotsOf(s[1]) : r # s => tasks[r] = Idle
           /\ Follows(s[1], row, t, words[s[1]])
           /\ t.at # "tell" => Agrees(s[1], Status(s[1], row), words[s[1]])
  <2> SUFFICES ASSUME words[s[1]] # "mixed"
               PROVE  /\ \A r \in SlotsOf(s[1]) : r # s => tasks[r] = Idle
                      /\ Follows(s[1], row, t, words[s[1]])
                      /\ t.at # "tell" => Agrees(s[1], Status(s[1], row), words[s[1]])
    OBVIOUS
  <2>1. KindOK(s[1], row, tasks, words[s[1]])
    BY <1>4 DEF KeyOK
  <2>2. /\ \A r \in SlotsOf(s[1]) : r # s => tasks[r] = Idle
        /\ Follows(s[1], row, tasks[s], words[s[1]])
        /\ Agrees(s[1], Status(s[1], row), words[s[1]])
    BY <1>4, <2>1, BusyAlone
  <2>3. Follows(s[1], row, t, words[s[1]])
    BY <1>1, <1>2, <2>2 DEF Follows, Knows
  <2>4. QED
    BY <2>2, <2>3
<1>6. \A kind \in Kinds : SameFor(kind, row, row)
  BY DEF SameFor
<1>7. words["sync"] # "mixed" /\ k \notin astray => BalanceOK(row)
  BY <1>4 DEF KeyOK
<1>8. KeyOK(k, row, [tasks EXCEPT ![s] = t], words, astray)
  BY <1>4, <1>5, <1>6, <1>7, SlotMoves
<1>9. /\ OneKey(aiKey, aiKey', k, row) /\ OneKey(told, told', k, words)
      /\ OneKey(aiTask, aiTask', k, [tasks EXCEPT ![s] = t])
  BY <1>1, <1>2, <1>3 DEF OneKey, KeysInv
<1>10. QED
  BY <1>8, <1>9, OneTaskMoves

\* A spawned task reads the row as it is.
LEMMA BeginSpawnedStep ==
  ASSUME KeysInv, NEW k \in AiKeyIds, NEW s \in Slots, BeginSpawned(k, s)
  PROVE  KeysInv'
<1>1. PICK t : t = IF Eligible(k, s[1]) THEN Snapshot(k, s[1]) ELSE Idle
  OBVIOUS
<1>2. aiKey[k] \in AiKeyRow /\ s[1] \in Kinds
  BY KeySlot
<1>3. t \in TasksOf(s[1]) /\ t.at \notin {"store", "tell"} /\ (t.at = "ask" => Knows(s[1], aiKey[k], t))
  <2>1. CASE Eligible(k, s[1])
    BY <1>1, <1>2, <2>1, SnapshotKnows
  <2>2. CASE ~Eligible(k, s[1])
    BY <1>1, <2>2 DEF TasksOf, Idle
  <2>3. QED
    BY <2>1, <2>2
<1>4. aiTask[k][s] # Idle /\ aiTask[k][s].at # "tell"
  BY DEF BeginSpawned, Idle
<1>5. QED
  BY <1>1, <1>3, <1>4, QuietTask DEF BeginSpawned

\* An answer is one its kind may have, and the task knows what it knew.
LEMMA HearProviderStep ==
  ASSUME KeysInv, NEW k \in AiKeyIds, NEW s \in Slots, HearProvider(k, s)
  PROVE  KeysInv'
<1>1. PICK t : t = aiTask[k][s]
  OBVIOUS
<1>2. t.at = "ask" /\ s[1] \in Kinds /\ t \in TasksOf(s[1])
  BY <1>1, KeySlot DEF HearProvider
<1>3. t \in AskTask(s[1])
  BY <1>2, TaskFields
<1>4. PICK answer \in Ask(k, s[1], t) :
         aiTask' = [aiTask EXCEPT ![k][s] =
           IF answer = "unknown" /\ s[1] # "sync" THEN Idle
           ELSE [at |-> "store", old |-> t.old, secret |-> t.secret, prev |-> t.prev,
                 streak |-> t.streak, billed |-> t.billed, answer |-> answer]]
  BY <1>1 DEF HearProvider
<1>5. PICK new : new = IF answer = "unknown" /\ s[1] # "sync" THEN Idle
           ELSE [at |-> "store", old |-> t.old, secret |-> t.secret, prev |-> t.prev,
                 streak |-> t.streak, billed |-> t.billed, answer |-> answer]
  OBVIOUS
<1>6. answer \in AnswersOf(s[1]) \/ (answer = "unknown" /\ s[1] # "sync")
  <2>1. provider[k] \in ProviderTruth
    BY DEF KeysInv
  <2>2. CASE s[1] = "check"
    BY <1>4, <2>1, <2>2 DEF Ask, check_key, AnswersOf, ProviderTruth
  <2>3. CASE s[1] = "probe"
    BY <1>4, <2>1, <2>3 DEF Ask, probe_credits, AnswersOf, ProviderTruth
  <2>4. CASE s[1] = "sync"
    <3>1. Amounts \subseteq Levels
      BY AiKeysAssumption DEF Amounts, Levels
    <3>2. QED
      BY <1>4, <2>1, <2>4, <3>1 DEF Ask, sync_balance, Remaining, AnswersOf, ProviderTruth
  <2>5. QED
    BY <1>2, <2>2, <2>3, <2>4 DEF Kinds
<1>7. CASE answer = "unknown" /\ s[1] # "sync"
  <2>1. new = Idle /\ new \in TasksOf(s[1]) /\ new.at = "idle"
    BY <1>5, <1>7 DEF TasksOf, Idle
  <2>2. t # Idle
    BY <1>2 DEF Idle
  <2>3. QED
    BY <1>1, <1>2, <1>4, <1>5, <2>1, <2>2, QuietTask DEF HearProvider
<1>8. CASE ~(answer = "unknown" /\ s[1] # "sync")
  <2>1. new = [at |-> "store", old |-> t.old, secret |-> t.secret, prev |-> t.prev,
                 streak |-> t.streak, billed |-> t.billed, answer |-> answer]
    BY <1>5, <1>8
  <2>2. new \in StoreTask(s[1])
    BY <1>3, <1>6, <1>8, <2>1 DEF AskTask, StoreTask
  <2>3. t # Idle
    BY <1>2 DEF Idle
  <2>4. new \in TasksOf(s[1]) /\ new.at = "store" /\ new.old = t.old /\ new.prev = t.prev
        /\ new.billed = t.billed /\ new.secret = t.secret
    BY <2>1, <2>2 DEF TasksOf
  <2>5. QED
    BY <1>1, <1>2, <1>4, <1>5, <2>3, <2>4, QuietTask DEF HearProvider
<1>9. QED
  BY <1>7, <1>8

\* The row a verdict leaves, and the alert it calls for.
Updated(kind, row, t) ==
  CASE kind = "check" -> update_check(row, t)
    [] kind = "probe" -> update_credit_probe(row, t)
    [] kind = "sync"  -> update_balance_sync(row, t)
AlertOf(kind, t) ==
  CASE kind = "check" -> evaluate_transition(t.prev, t.answer)
    [] kind = "probe" -> evaluate_credit_transition(t.prev, t.answer)
    [] kind = "sync"  -> SyncAlert(t)

\* A verdict writes the fields of its kind, in their ranges.
LEMMA UpdatedRow ==
  ASSUME NEW kind \in Kinds, NEW row \in AiKeyRow, NEW t \in StoreTask(kind)
  PROVE  /\ Updated(kind, row, t) \in AiKeyRow
         /\ \A other \in Kinds : other # kind => SameFor(other, row, Updated(kind, row, t))
         /\ Updated(kind, row, t).life = row.life
         /\ Status(kind, Updated(kind, row, t)) =
              IF kind = "sync" /\ t.answer \notin Levels THEN t.prev ELSE t.answer
<1>1. CASE kind = "check"
  BY <1>1 DEF Updated, update_check, StoreTask, AnswersOf, AiKeyRow, SameFor, Status, Kinds
<1>2. CASE kind = "probe"
  BY <1>2 DEF Updated, update_credit_probe, StoreTask, AnswersOf, AiKeyRow, SameFor, Status, Kinds
<1>3. CASE kind = "sync"
  <2>1. t.prev \in Levels \cup {"none"} /\ t.answer \in Levels \cup {"error", "unknown"}
        /\ t.billed \in Nat /\ t.secret \in Nat /\ t.streak \in 0 .. FailThreshold
    BY <1>3 DEF StoreTask, StatusOf, AnswersOf
  <2>2. Streak(t) \in 0 .. FailThreshold /\ billing_id(t) \in Nat
    BY <2>1, AiKeysAssumption DEF Streak, billing_id
  <2>3. 0 \in 0 .. FailThreshold
    BY AiKeysAssumption
  <2>4. CASE t.answer \in Levels
    <3>1. Updated(kind, row, t) = [row EXCEPT !.level = t.answer, !.sync = "ok", !.streak = 0,
                                              !.billed = billing_id(t)]
      BY <1>3, <2>4 DEF Updated, update_balance_sync
    <3>2. QED
      BY <1>3, <2>2, <2>3, <2>4, <3>1 DEF AiKeyRow, SameFor, Status, Kinds
  <2>5. CASE t.answer \notin Levels
    <3>1. PICK billed \in Nat :
            billed = IF t.answer = "unknown" /\ t.billed # NoKey THEN t.billed ELSE row.billed
      BY <2>1 DEF AiKeyRow
    <3>2. Updated(kind, row, t) = [row EXCEPT !.level = t.prev, !.sync = t.answer,
                                              !.streak = Streak(t), !.billed = billed]
      BY <1>3, <2>5, <3>1 DEF Updated, update_balance_sync
    <3>3. QED
      BY <1>3, <2>1, <2>2, <2>5, <3>2 DEF AiKeyRow, SameFor, Status, Kinds
  <2>6. QED
    BY <2>4, <2>5
<1>4. QED
  BY <1>1, <1>2, <1>3 DEF Kinds

\* What a task calls for is said nowhere yet, and agrees with what it writes.
LEMMA AlertIsNews ==
  ASSUME NEW kind \in Kinds, NEW t \in StoreTask(kind), NEW word \in Heard(kind), word # "mixed",
         Agrees(kind, t.prev, word),
         NEW status, status = IF kind = "sync" /\ t.answer \notin Levels THEN t.prev ELSE t.answer
  PROVE  /\ AlertOf(kind, t) = "none" => Agrees(kind, status, word)
         /\ AlertOf(kind, t) = "sync_failed" => Agrees(kind, status, word)
         /\ AlertOf(kind, t) \notin {"none", "sync_failed"} =>
              AlertOf(kind, t) # word /\ Agrees(kind, status, AlertOf(kind, t))
<1>1. CASE kind = "check"
  BY <1>1 DEF AlertOf, evaluate_transition, StoreTask, StatusOf, AnswersOf, Heard, WordsOf, Agrees
<1>2. CASE kind = "probe"
  BY <1>2 DEF AlertOf, evaluate_credit_transition, StoreTask, StatusOf, AnswersOf, Heard, WordsOf,
              Agrees
<1>3. CASE kind = "sync"
  BY <1>3 DEF AlertOf, SyncAlert, evaluate_balance_alert_transition, StoreTask, StatusOf, AnswersOf,
              Heard, WordsOf, Agrees, Levels
<1>4. QED
  BY <1>1, <1>2, <1>3 DEF Kinds

\* A verdict gives a message of its own kind or none.
LEMMA AlertShape ==
  ASSUME NEW kind \in Kinds, NEW t \in StoreTask(kind)
  PROVE  AlertOf(kind, t) \in {"none"} \cup WordsOf(kind)
                                \cup (IF kind = "sync" THEN {"sync_failed"} ELSE {})
<1>1. CASE kind = "check"
  BY <1>1 DEF AlertOf, evaluate_transition, WordsOf
<1>2. CASE kind = "probe"
  BY <1>2 DEF AlertOf, evaluate_credit_transition, WordsOf
<1>3. CASE kind = "sync"
  BY <1>3 DEF AlertOf, SyncAlert, evaluate_balance_alert_transition, StoreTask, AnswersOf, WordsOf,
              Levels
<1>4. QED
  BY <1>1, <1>2, <1>3 DEF Kinds

\* A balance that is synced is that of the key in the row.
LEMMA SyncedBalance ==
  ASSUME NEW row \in AiKeyRow, NEW t \in StoreTask("sync"), BalanceOK(row), Knows("sync", row, t)
  PROVE  BalanceOK(Updated("sync", row, t))
<1>1. row.on /\ t.billed = row.billed /\ t.secret = row.secret /\ row.billed \in {NoKey, row.secret}
  BY DEF Knows, BalanceOK
<1>2. billing_id(t) = row.secret
  BY <1>1 DEF billing_id
<1>3. Updated("sync", row, t) = update_balance_sync(row, t)
  BY DEF Updated
<1>4. /\ update_balance_sync(row, t).on = row.on /\ update_balance_sync(row, t).secret = row.secret
      /\ update_balance_sync(row, t).billed \in {NoKey, row.secret}
  <2>1. CASE t.answer \in Levels
    BY <1>1, <1>2, <2>1 DEF update_balance_sync, AiKeyRow
  <2>2. CASE t.answer \notin Levels
    BY <1>1, <2>2 DEF update_balance_sync, AiKeyRow
  <2>3. QED
    BY <2>1, <2>2
<1>5. QED
  BY <1>1, <1>3, <1>4 DEF BalanceOK

\* A verdict is stored: the row says it, and the alert is on its way.
LEMMA StoreVerdictStep ==
  ASSUME KeysInv, NEW k \in AiKeyIds, NEW s \in Slots, StoreVerdict(k, s)
  PROVE  KeysInv'
<1>1. PICK row : row = aiKey[k]
  OBVIOUS
<1>2. PICK tasks : tasks = aiTask[k]
  OBVIOUS
<1>3. PICK words : words = told[k]
  OBVIOUS
<1>4. PICK kind : kind = s[1]
  OBVIOUS
<1>5. PICK t : t = tasks[s]
  OBVIOUS
<1>6. /\ KeyOK(k, row, tasks, words, astray) /\ kind \in Kinds /\ row \in AiKeyRow /\ t.at = "store"
      /\ t \in StoreTask(kind) /\ words[kind] \in Heard(kind) /\ t # Idle
  <2>1. t.at = "store" /\ t \in TasksOf(kind) /\ KeyOK(k, row, tasks, words, astray) /\ kind \in Kinds
        /\ row \in AiKeyRow /\ words[kind] \in Heard(kind)
    BY <1>1, <1>2, <1>3, <1>4, <1>5, KeySlot DEF StoreVerdict
  <2>2. QED
    BY <2>1, TaskFields DEF Idle
<1>7. PICK alert : alert = AlertOf(kind, t)
  OBVIOUS
<1>8. PICK new : new = IF row.life = "here" THEN Updated(kind, row, t) ELSE row
  OBVIOUS
<1>9. PICK after : after = IF alert = "none" THEN Idle ELSE [at |-> "tell", alert |-> alert]
  OBVIOUS
<1>10. OneKey(aiKey, aiKey', k, new)
  <2>1. aiKey' = IF ~Here(k) THEN aiKey ELSE [aiKey EXCEPT ![k] = Updated(kind, row, t)]
    BY <1>1, <1>2, <1>4, <1>5 DEF StoreVerdict, Updated
  <2>2. QED
    BY <1>1, <1>8, <2>1 DEF OneKey, Here
<1>11. aiTask' = [aiTask EXCEPT ![k][s] = after]
  BY <1>2, <1>4, <1>5, <1>7, <1>9 DEF StoreVerdict, AlertOf
<1>12. /\ new \in AiKeyRow /\ new.life = row.life /\ row.life # "new"
       /\ \A other \in Kinds : other # kind => SameFor(other, row, new)
  BY <1>5, <1>6, <1>8, UpdatedRow DEF SameFor, KeyOK, NewOK
<1>13. after \in TasksOf(kind)
  <2>1. alert \in {"none"} \cup WordsOf(kind) \cup (IF kind = "sync" THEN {"sync_failed"} ELSE {})
    BY <1>6, <1>7, AlertShape
  <2>2. QED
    BY <1>9, <2>1 DEF TasksOf, TellTask
<1>14. ASSUME words[kind] # "mixed"
       PROVE  /\ \A r \in SlotsOf(kind) : r # s => tasks[r] = Idle
              /\ Follows(kind, new, after, words[kind])
              /\ after.at # "tell" => Agrees(kind, Status(kind, new), words[kind])
              /\ Knows(kind, row, t)
  <2>1. KindOK(kind, row, tasks, words[kind])
    BY <1>6, <1>14 DEF KeyOK
  <2>2. /\ \A r \in SlotsOf(kind) : r # s => tasks[r] = Idle
        /\ Follows(kind, row, t, words[kind]) /\ Agrees(kind, Status(kind, row), words[kind])
    BY <1>4, <1>5, <1>6, <2>1, BusyAlone
  <2>3. Knows(kind, row, t)
    BY <1>6, <2>2 DEF Follows
  <2>4. PICK status : status = Status(kind, new)
    OBVIOUS
  <2>5. status = IF kind = "sync" /\ t.answer \notin Levels THEN t.prev ELSE t.answer
    BY <1>6, <1>8, <2>3, <2>4, UpdatedRow DEF Knows
  <2>6. Agrees(kind, t.prev, words[kind])
    BY <2>2, <2>3 DEF Knows
  <2>7. /\ alert \in {"none", "sync_failed"} => Agrees(kind, status, words[kind])
        /\ alert \notin {"none", "sync_failed"} => alert # words[kind] /\ Agrees(kind, status, alert)
    BY <1>6, <1>7, <1>14, <2>5, <2>6, AlertIsNews
  <2>8. CASE alert = "none"
    BY <1>9, <2>2, <2>3, <2>4, <2>7, <2>8 DEF Follows, Idle
  <2>9. CASE alert # "none"
    <3>1. after.at = "tell" /\ after.alert = alert
      BY <1>9, <2>9
    <3>2. Follows(kind, new, after, words[kind])
      BY <2>4, <2>7, <2>9, <3>1 DEF Follows
    <3>3. QED
      BY <2>2, <2>3, <3>1, <3>2
  <2>10. QED
    BY <2>8, <2>9
<1>15. words["sync"] # "mixed" /\ k \notin astray => BalanceOK(new)
  <2>1. words["sync"] # "mixed" /\ k \notin astray => BalanceOK(row)
    BY <1>6 DEF KeyOK
  <2>2. CASE kind = "sync"
    BY <1>6, <1>8, <1>14, <2>1, <2>2, SyncedBalance
  <2>3. CASE kind # "sync"
    <3>1. new.billed = row.billed /\ new.secret = row.secret /\ new.on = row.on
          /\ new.level = row.level
      BY <1>12, <2>3 DEF SameFor, Status, Kinds
    <3>2. new.sync = row.sync /\ new.streak = row.streak
      BY <1>6, <1>8, <2>3 DEF Updated, update_check, update_credit_probe, Kinds, AiKeyRow
    <3>3. QED
      BY <2>1, <3>1, <3>2 DEF BalanceOK
  <2>4. QED
    BY <2>2, <2>3
<1>16. KeyOK(k, new, [tasks EXCEPT ![s] = after], words, astray)
  BY <1>4, <1>6, <1>12, <1>13, <1>14, <1>15, SlotMoves
<1>17. /\ OneKey(told, told', k, words) /\ OneKey(aiTask, aiTask', k, [tasks EXCEPT ![s] = after])
       /\ UNCHANGED <<provider, editVars, keyTrouble, loops>>
  BY <1>2, <1>3, <1>11 DEF OneKey, KeysInv, StoreVerdict
<1>18. QED
  BY <1>10, <1>16, <1>17, OneTaskMoves

\* A kind whose tasks have crossed promises nothing any more.
LEMMA Mixes ==
  ASSUME NEW k, NEW row, NEW tasks, NEW words, KeyOK(k, row, tasks, words, astray), NEW kind \in Kinds,
         row.life # "new"
  PROVE  KeyOK(k, row, tasks, [words EXCEPT ![kind] = "mixed"], astray)
<1>1. PICK said : said = [words EXCEPT ![kind] = "mixed"]
  OBVIOUS
<1>2. said = [other \in Kinds |-> IF other = kind THEN "mixed" ELSE words[other]]
  BY <1>1 DEF KeyOK, KeyTyped
<1>3. KeyTyped(row, tasks, said)
  BY <1>2 DEF KeyOK, KeyTyped, Heard
<1>4. \A other \in Kinds : said[other] # "mixed" => said[other] = words[other]
  BY <1>2
<1>5. "sync" \in Kinds
  BY DEF Kinds
<1>6. QED
  BY <1>1, <1>3, <1>4, <1>5 DEF KeyOK, NewOK

\* A task says its word and is done.
LEMMA SlotSpeaks ==
  ASSUME NEW k, NEW row, NEW tasks, NEW words, KeyOK(k, row, tasks, words, astray), NEW s \in Slots,
         tasks[s] # Idle, NEW w \in Heard(s[1]),
         w # "mixed" => /\ words[s[1]] # "mixed" /\ Agrees(s[1], Status(s[1], row), w)
                        /\ \A r \in SlotsOf(s[1]) : r # s => tasks[r] = Idle
  PROVE  KeyOK(k, row, [tasks EXCEPT ![s] = Idle], [words EXCEPT ![s[1]] = w], astray)
<1>1. PICK moved : moved = [tasks EXCEPT ![s] = Idle]
  OBVIOUS
<1>2. PICK said : said = [words EXCEPT ![s[1]] = w]
  OBVIOUS
<1>3. moved = [r \in Slots |-> IF r = s THEN Idle ELSE tasks[r]]
  BY <1>1 DEF KeyOK, KeyTyped
<1>4. said = [kind \in Kinds |-> IF kind = s[1] THEN w ELSE words[kind]]
  BY <1>2 DEF KeyOK, KeyTyped
<1>5. s[1] \in Kinds /\ "sync" \in Kinds
  BY SlotShape DEF Kinds
<1>6. KeyTyped(row, moved, said)
  <2>1. \A r \in Slots : moved[r] \in TasksOf(r[1])
    BY <1>3 DEF KeyOK, KeyTyped, TasksOf
  <2>2. \A kind \in Kinds : said[kind] \in Heard(kind)
    BY <1>4 DEF KeyOK, KeyTyped
  <2>3. moved = [r \in Slots |-> moved[r]] /\ said = [kind \in Kinds |-> said[kind]]
    BY <1>3, <1>4
  <2>4. QED
    BY <2>1, <2>2, <2>3 DEF KeyOK, KeyTyped
<1>7. ASSUME NEW kind \in Kinds, said[kind] # "mixed"
      PROVE  KindOK(kind, row, moved, said[kind])
  <2>1. CASE kind = s[1]
    <3>1. said[kind] = w /\ moved[s] = Idle /\ \A r \in SlotsOf(kind) : r # s => moved[r] = Idle
      BY <1>3, <1>4, <1>7, <2>1 DEF SlotsOf
    <3>2. Follows(kind, row, Idle, w) /\ Agrees(kind, Status(kind, row), w)
      BY <1>4, <1>7, <2>1 DEF Follows, Idle
    <3>3. QED
      BY <2>1, <3>1, <3>2, KindMoves
  <2>2. CASE kind # s[1]
    <3>1. \A r \in SlotsOf(kind) : moved[r] = tasks[r]
      BY <1>3, <2>2 DEF SlotsOf
    <3>2. said[kind] = words[kind] /\ KindOK(kind, row, tasks, words[kind])
      BY <1>4, <1>7, <2>2 DEF KeyOK
    <3>3. SameFor(kind, row, row)
      BY DEF SameFor
    <3>4. QED
      BY <3>1, <3>2, <3>3, KindUntouched
  <2>3. QED
    BY <2>1, <2>2
<1>8. said["sync"] # "mixed" /\ k \notin astray => BalanceOK(row)
  BY <1>4, <1>5 DEF KeyOK
<1>9. NewOK(row, moved, said)
  BY DEF KeyOK, NewOK
<1>10. QED
  BY <1>1, <1>2, <1>6, <1>7, <1>8, <1>9 DEF KeyOK

\* The alert is sent: it is not what was said before.
LEMMA SendAlertStep ==
  ASSUME KeysInv, NEW k \in AiKeyIds, NEW s \in Slots, SendAlert(k, s)
  PROVE  KeysInv'
<1>1. PICK row : row = aiKey[k]
  OBVIOUS
<1>2. PICK tasks : tasks = aiTask[k]
  OBVIOUS
<1>3. PICK words : words = told[k]
  OBVIOUS
<1>4. PICK kind : kind = s[1]
  OBVIOUS
<1>5. PICK t : t = tasks[s]
  OBVIOUS
<1>6. /\ KeyOK(k, row, tasks, words, astray) /\ kind \in Kinds /\ t.at = "tell"
      /\ t \in TellTask(kind) /\ words[kind] \in Heard(kind) /\ t # Idle
  <2>1. t.at = "tell" /\ t \in TasksOf(kind) /\ KeyOK(k, row, tasks, words, astray) /\ kind \in Kinds
        /\ words[kind] \in Heard(kind)
    BY <1>1, <1>2, <1>3, <1>4, <1>5, KeySlot DEF SendAlert
  <2>2. QED
    BY <2>1, TaskFields DEF Idle
<1>7. PICK w : w = IF t.alert = "sync_failed" \/ words[kind] = "mixed" THEN words[kind]
                   ELSE IF words[kind] = t.alert THEN "twice" ELSE t.alert
  OBVIOUS
<1>8. told' = [told EXCEPT ![k] = [words EXCEPT ![kind] = w]]
  BY <1>2, <1>3, <1>4, <1>5, <1>7 DEF SendAlert, KeysInv
<1>9. ASSUME words[kind] # "mixed"
      PROVE  /\ w \in Heard(kind) /\ w # "mixed" /\ Agrees(kind, Status(kind, row), w)
             /\ \A r \in SlotsOf(kind) : r # s => tasks[r] = Idle
  <2>1. KindOK(kind, row, tasks, words[kind])
    BY <1>6, <1>9 DEF KeyOK
  <2>2. /\ \A r \in SlotsOf(kind) : r # s => tasks[r] = Idle
        /\ Follows(kind, row, t, words[kind])
    BY <1>4, <1>5, <1>6, <2>1, BusyAlone
  <2>3. IF t.alert = "sync_failed" THEN Agrees(kind, Status(kind, row), words[kind])
        ELSE t.alert # words[kind] /\ Agrees(kind, Status(kind, row), t.alert)
    BY <1>6, <2>2 DEF Follows
  <2>4. t.alert # "sync_failed" => t.alert \in WordsOf(kind)
    BY <1>6 DEF TellTask
  <2>5. \A x \in WordsOf(kind) : x # "mixed" /\ x \in Heard(kind)
    BY <1>6 DEF WordsOf, Kinds, Heard
  <2>6. QED
    BY <1>6, <1>7, <1>9, <2>2, <2>3, <2>4, <2>5
<1>10. w \in Heard(kind) /\ (words[kind] = "mixed" => w = "mixed")
  BY <1>6, <1>7, <1>9
<1>11. KeyOK(k, row, [tasks EXCEPT ![s] = Idle], [words EXCEPT ![kind] = w], astray)
  BY <1>4, <1>5, <1>6, <1>9, <1>10, SlotSpeaks
<1>12. /\ OneKey(aiKey, aiKey', k, row) /\ OneKey(told, told', k, [words EXCEPT ![kind] = w])
       /\ OneKey(aiTask, aiTask', k, [tasks EXCEPT ![s] = Idle])
  BY <1>1, <1>2, <1>8 DEF OneKey, KeysInv, SendAlert
<1>13. UNCHANGED <<provider, editVars, keyTrouble, loops>>
  BY DEF SendAlert
<1>14. QED
  BY <1>11, <1>12, <1>13, OneTaskMoves

\* An iteration begins: every eligible key is asked about, and a kind whose
\* spawned task is still on its way promises nothing any more.
LEMMA IterationStep ==
  ASSUME KeysInv, NEW kind \in Kinds, poll_once(kind)
  PROVE  KeysInv'
<1>1. PICK s : s = <<kind, "poll">>
  OBVIOUS
<1>2. s \in Slots /\ s[1] = kind
  BY <1>1, SlotShape
<1>3. ASSUME NEW k \in AiKeyIds
      PROVE  KeyOK(k, aiKey'[k], aiTask'[k], told'[k], astray')
  <2>1. PICK row : row = aiKey[k]
    OBVIOUS
  <2>2. PICK tasks : tasks = aiTask[k]
    OBVIOUS
  <2>3. PICK words : words = told[k]
    OBVIOUS
  <2>4. PICK t : t = Snapshot(k, kind)
    OBVIOUS
  <2>5. PICK said : said = IF Busy(k, kind) # {} THEN [words EXCEPT ![kind] = "mixed"] ELSE words
    OBVIOUS
  <2>6. KeyOK(k, row, tasks, words, astray) /\ row \in AiKeyRow /\ tasks[s] = Idle
        /\ aiKey'[k] = row /\ astray' = astray
    BY <1>1, <1>2, <1>3, <2>1, <2>2, <2>3, KeySlot DEF poll_once, editVars
  <2>7. CASE ~Eligible(k, kind)
    BY <2>1, <2>2, <2>3, <2>6, <2>7 DEF poll_once
  <2>8. CASE Eligible(k, kind)
    <3>1. aiTask'[k] = [tasks EXCEPT ![s] = t]
      BY <1>1, <2>2, <2>4, <2>8 DEF poll_once
    <3>2. told'[k] = said
      BY <2>3, <2>5, <2>8 DEF poll_once
    <3>3. row.life # "new"
      BY <2>1, <2>8 DEF Eligible, Here
    <3>4. KeyOK(k, row, tasks, said, astray)
      BY <2>5, <2>6, <3>3, Mixes
    <3>5. t \in TasksOf(kind) /\ t.at = "ask" /\ Knows(kind, row, t)
      BY <2>1, <2>4, <2>6, <2>8, SnapshotKnows
    <3>6. Follows(kind, row, t, said[kind])
      BY <3>5 DEF Follows
    <3>7. ASSUME said[kind] # "mixed"
          PROVE  /\ \A r \in SlotsOf(kind) : tasks[r] = Idle
                 /\ Agrees(kind, Status(kind, row), said[kind])
      <4>1. Busy(k, kind) = {}
        BY <2>5, <2>6, <3>7 DEF KeyOK, KeyTyped
      <4>2. \A r \in SlotsOf(kind) : tasks[r] = Idle
        BY <2>2, <4>1 DEF Busy, SlotsOf
      <4>3. \A r \in SlotsOf(kind) : tasks[r].at # "tell"
        BY <4>2 DEF Idle
      <4>4. KindOK(kind, row, tasks, said[kind])
        BY <3>4, <3>7 DEF KeyOK
      <4>5. QED
        BY <4>2, <4>3, <4>4 DEF KindOK
    <3>8. \A other \in Kinds : SameFor(other, row, row)
      BY DEF SameFor
    <3>9. said["sync"] # "mixed" /\ k \notin astray => BalanceOK(row)
      BY <3>4 DEF KeyOK
    <3>10. KeyOK(k, row, [tasks EXCEPT ![s] = t], said, astray)
      BY <1>2, <2>6, <3>3, <3>4, <3>5, <3>6, <3>7, <3>8, <3>9, SlotMoves
    <3>11. QED
      BY <2>6, <3>1, <3>2, <3>10
  <2>9. QED
    BY <2>7, <2>8
<1>4. aiKey' = [k \in AiKeyIds |-> aiKey'[k]]
  BY DEF KeysInv, poll_once
<1>5. aiTask' = [k \in AiKeyIds |-> aiTask'[k]]
  BY DEF poll_once
<1>6. told' = [k \in AiKeyIds |-> told'[k]]
  BY DEF poll_once
<1>7. UNCHANGED <<provider, edit, astray, keyEdits, keyTrouble, loops>>
  BY DEF poll_once, editVars
<1>8. EditsOK'
  BY <1>7 DEF KeysInv, EditsOK
<1>9. QED
  BY <1>3, <1>4, <1>5, <1>6, <1>7, <1>8 DEF KeysInv

\* What an edit does to the tasks of a key and to what was told of it.
TasksAfter(tasks, kinds) ==
  [s \in Slots |-> CASE s[2] = "spawn" /\ s[1] \in kinds \cap loops -> [at |-> "read"]
                     [] tasks[s].at \in {"ask", "store"} -> [tasks[s] EXCEPT !.old = TRUE]
                     [] OTHER -> tasks[s]]
WordsAfter(tasks, words, anew) ==
  [kind \in Kinds |-> IF \E s \in SlotsOf(kind) : tasks[s] # Idle THEN "mixed"
                      ELSE IF kind \in anew /\ words[kind] # "mixed" THEN "none" ELSE words[kind]]

\* A task of an edited row knows that the row is another.
LEMMA OldTask ==
  ASSUME NEW kind \in Kinds, NEW t \in TasksOf(kind), t.at \in {"ask", "store"}
  PROVE  [t EXCEPT !.old = TRUE] \in TasksOf(kind)
<1>1. CASE t.at = "ask"
  <2>1. t \in AskTask(kind)
    BY <1>1, TaskFields
  <2>2. [t EXCEPT !.old = TRUE] \in AskTask(kind)
    BY <2>1 DEF AskTask
  <2>3. QED
    BY <2>2 DEF TasksOf
<1>2. CASE t.at = "store"
  <2>1. t \in StoreTask(kind)
    BY <1>2, TaskFields
  <2>2. [t EXCEPT !.old = TRUE] \in StoreTask(kind)
    BY <2>1 DEF StoreTask
  <2>3. QED
    BY <2>2 DEF TasksOf
<1>3. QED
  BY <1>1, <1>2

\* An edit of a row: a kind none of whose tasks was on its way starts from a
\* row that agrees with what was told.
LEMMA EditedKey ==
  ASSUME NEW k, NEW row, NEW tasks, NEW words, KeyOK(k, row, tasks, words, astray), NEW new \in AiKeyRow,
         new.life # "new", NEW kinds, NEW anew, NEW marked,
         k \notin marked => k \notin astray /\ (BalanceOK(row) => BalanceOK(new)),
         \A kind \in Kinds : \A word \in Heard(kind) : Agrees(kind, Status(kind, row), word) =>
           Agrees(kind, Status(kind, new), IF kind \in anew THEN "none" ELSE word)
  PROVE  KeyOK(k, new, TasksAfter(tasks, kinds), WordsAfter(tasks, words, anew), marked)
<1>1. PICK moved : moved = TasksAfter(tasks, kinds)
  OBVIOUS
<1>2. PICK said : said = WordsAfter(tasks, words, anew)
  OBVIOUS
<1>3. KeyTyped(new, moved, said)
  <2>1. moved = [s \in Slots |-> moved[s]] /\ said = [kind \in Kinds |-> said[kind]]
    BY <1>1, <1>2 DEF TasksAfter, WordsAfter
  <2>2. ASSUME NEW s \in Slots PROVE moved[s] \in TasksOf(s[1])
    <3>1. PICK t \in TasksOf(s[1]) : t = tasks[s]
      BY DEF KeyOK, KeyTyped
    <3>2. moved[s] = [at |-> "read"]
            \/ moved[s] = t
            \/ (t.at \in {"ask", "store"} /\ moved[s] = [t EXCEPT !.old = TRUE])
      BY <1>1, <3>1 DEF TasksAfter
    <3>3. [at |-> "read"] \in TasksOf(s[1])
      BY DEF TasksOf
    <3>4. QED
      BY <3>2, <3>3, OldTask, SlotShape
  <2>3. \A kind \in Kinds : said[kind] \in Heard(kind)
    BY <1>2 DEF WordsAfter, KeyOK, KeyTyped, Heard
  <2>4. QED
    BY <2>1, <2>2, <2>3 DEF KeyTyped
<1>4. ASSUME NEW kind \in Kinds, said[kind] # "mixed"
      PROVE  KindOK(kind, new, moved, said[kind]) /\ words[kind] # "mixed"
  <2>1. /\ \A s \in SlotsOf(kind) : tasks[s] = Idle
        /\ words[kind] # "mixed" /\ said[kind] = IF kind \in anew THEN "none" ELSE words[kind]
    <3>1. ASSUME \E s \in SlotsOf(kind) : tasks[s] # Idle PROVE said[kind] = "mixed"
      BY <1>2, <3>1 DEF WordsAfter
    <3>2. ASSUME ~\E s \in SlotsOf(kind) : tasks[s] # Idle
          PROVE  said[kind] = IF kind \in anew /\ words[kind] # "mixed" THEN "none"
                              ELSE words[kind]
      BY <1>2, <3>2 DEF WordsAfter
    <3>3. QED
      BY <1>4, <3>1, <3>2
  <2>2. ASSUME NEW s \in SlotsOf(kind)
        PROVE  moved[s] = Idle \/ (s[2] = "spawn" /\ moved[s] = [at |-> "read"])
    <3>1. tasks[s] = Idle /\ tasks[s].at = "idle" /\ s \in Slots
      BY <2>1 DEF SlotsOf, Idle
    <3>2. QED
      BY <1>1, <3>1 DEF TasksAfter
  <2>3. \A s \in SlotsOf(kind) : moved[s].at \in {"idle", "read"}
    BY <2>2 DEF Idle
  <2>4. \A r, s \in SlotsOf(kind) : r # s => moved[r] = Idle \/ moved[s] = Idle
    BY <2>2, SlotShape DEF SlotsOf
  <2>5. Agrees(kind, Status(kind, row), words[kind]) /\ words[kind] \in Heard(kind)
    <3>1. \A s \in SlotsOf(kind) : tasks[s].at # "tell"
      BY <2>1 DEF Idle
    <3>2. QED
      BY <2>1, <3>1 DEF KeyOK, KindOK, KeyTyped
  <2>6. Agrees(kind, Status(kind, new), said[kind])
    BY <2>1, <2>5
  <2>7. QED
    BY <2>1, <2>3, <2>4, <2>6 DEF KindOK, Follows
<1>5. said["sync"] # "mixed" /\ k \notin marked => BalanceOK(new)
  BY <1>4 DEF KeyOK, Kinds
<1>6. QED
  BY <1>1, <1>2, <1>3, <1>4, <1>5 DEF KeyOK, NewOK

\* A commit of an edit, seen from the invariant.
LEMMA EditedStep ==
  ASSUME KeysInv, NEW k \in AiKeyIds, NEW new \in AiKeyRow, NEW kinds, NEW anew,
         Edited(k, kinds, anew), aiKey' = [aiKey EXCEPT ![k] = new], new.life # "new",
         provider' \in [AiKeyIds -> ProviderTruth], keyEdits' \in 0 .. MaxKeyEdits, EditsOK',
         \A j \in AiKeyIds : j # k => (j \in astray' <=> j \in astray),
         k \notin astray' => k \notin astray /\ (BalanceOK(aiKey[k]) => BalanceOK(new)),
         \A kind \in Kinds : \A word \in Heard(kind) : Agrees(kind, Status(kind, aiKey[k]), word) =>
           Agrees(kind, Status(kind, new), IF kind \in anew THEN "none" ELSE word)
  PROVE  KeysInv'
<1>1. PICK tasks : tasks = aiTask[k]
  OBVIOUS
<1>2. PICK words : words = told[k]
  OBVIOUS
<1>3. KeyOK(k, aiKey[k], tasks, words, astray)
  BY <1>1, <1>2 DEF KeysInv
<1>4. KeyOK(k, new, TasksAfter(tasks, kinds), WordsAfter(tasks, words, anew), astray')
  BY <1>3, EditedKey
<1>5. aiTask' = [aiTask EXCEPT ![k] = TasksAfter(tasks, kinds)]
  BY <1>1 DEF Edited, TasksAfter
<1>6. told' = [told EXCEPT ![k] = WordsAfter(tasks, words, anew)]
  <2>1. \A kind \in Kinds : Busy(k, kind) # {} <=> \E s \in SlotsOf(kind) : tasks[s] # Idle
    BY <1>1 DEF Busy, SlotsOf
  <2>2. PICK said : said = [kind \in Kinds |->
                  CASE Busy(k, kind) # {} -> "mixed"
                    [] Busy(k, kind) = {} /\ kind \in anew /\ words[kind] # "mixed" -> "none"
                    [] OTHER -> words[kind]]
    OBVIOUS
  <2>3. told' = [told EXCEPT ![k] = said]
    BY <1>2, <2>2 DEF Edited, KeysInv
  <2>4. \A kind \in Kinds : said[kind] = IF Busy(k, kind) # {} THEN "mixed"
                      ELSE IF kind \in anew /\ words[kind] # "mixed" THEN "none" ELSE words[kind]
    BY <2>2
  <2>5. said = [kind \in Kinds |-> said[kind]]
    BY <2>2
  <2>6. WordsAfter(tasks, words, anew) = [kind \in Kinds |-> said[kind]]
    BY <2>1, <2>4 DEF WordsAfter
  <2>7. QED
    BY <2>3, <2>5, <2>6
<1>7. keyTrouble' \in 0 .. MaxKeyTrouble /\ UNCHANGED loops
  BY DEF Edited, KeysInv
<1>8. QED
  BY <1>4, <1>5, <1>6, <1>7, OneKeyMoves DEF OneKey

\* An anchored balance is that of the key in the row.
LEMMA AnchoredRow ==
  ASSUME NEW row \in AiKeyRow, NEW level \in Levels
  PROVE  /\ Anchored(row, level) \in AiKeyRow /\ BalanceOK(Anchored(row, level))
         /\ Anchored(row, level) = [row EXCEPT !.on = TRUE, !.level = level, !.sync = "ok",
                                               !.streak = 0, !.billed = NoKey]
         /\ Anchored(row, level).life = row.life /\ Anchored(row, level).check = row.check
         /\ Anchored(row, level).credit = row.credit
<1>1. 0 \in 0 .. FailThreshold /\ NoKey \in Nat
  BY AiKeysAssumption DEF NoKey
<1>2. QED
  BY <1>1 DEF Anchored, AiKeyRow, BalanceOK

\* A row still agrees with what was told when the statuses that change are
\* those of the kinds that start over.
LEMMA StillAgrees ==
  ASSUME NEW row, NEW new, NEW anew, NEW kind \in Kinds, NEW word,
         new.credit = row.credit, new.level = row.level \/ "sync" \in anew,
         new.check = row.check \/ "check" \in anew, "probe" \notin anew,
         Agrees(kind, Status(kind, row), word)
  PROVE  Agrees(kind, Status(kind, new), IF kind \in anew THEN "none" ELSE word)
<1>1. CASE kind = "check"
  BY <1>1 DEF Agrees, Status
<1>2. CASE kind = "probe"
  BY <1>2 DEF Agrees, Status
<1>3. CASE kind = "sync"
  BY <1>3 DEF Agrees, Status
<1>4. QED
  BY <1>1, <1>2, <1>3 DEF Kinds

\* A level of a balance is one of three.
LEMMA AmountsAreLevels == Amounts \subseteq Levels
BY AiKeysAssumption DEF Amounts, Levels

\* What is true at the provider stays in its range.
LEMMA LeveledProvider ==
  ASSUME NEW f \in [AiKeyIds -> ProviderTruth], NEW k \in AiKeyIds
  PROVE  /\ \A level \in Levels : [f EXCEPT ![k].level = level] \in [AiKeyIds -> ProviderTruth]
         /\ \A check \in {"working", "error"} :
              [f EXCEPT ![k].check = check] \in [AiKeyIds -> ProviderTruth]
         /\ [f EXCEPT ![k].up = ~@] \in [AiKeyIds -> ProviderTruth]
<1>1. PICK truth \in ProviderTruth : truth = f[k]
  OBVIOUS
<1>2. \A level \in Levels : [truth EXCEPT !.level = level] \in ProviderTruth
  BY DEF ProviderTruth
<1>3. \A check \in {"working", "error"} : [truth EXCEPT !.check = check] \in ProviderTruth
  BY DEF ProviderTruth
<1>4. [truth EXCEPT !.up = ~@] \in ProviderTruth
  BY DEF ProviderTruth
<1>5. ASSUME NEW x \in ProviderTruth PROVE [f EXCEPT ![k] = x] \in [AiKeyIds -> ProviderTruth]
  OBVIOUS
<1>6. QED
  BY <1>1, <1>2, <1>3, <1>4, <1>5

\* A key is created: nothing was told of it yet.
LEMMA CreateKeyStep ==
  ASSUME KeysInv, NEW k \in AiKeyIds, NEW on \in BOOLEAN, NEW level \in Amounts,
         create_key(k, on, level)
  PROVE  KeysInv'
<1>1. PICK row : row = aiKey[k]
  OBVIOUS
<1>2. PICK here : here = [row EXCEPT !.life = "here"]
  OBVIOUS
<1>3. PICK new : new = IF on THEN Anchored(here, level) ELSE here
  OBVIOUS
<1>4. /\ row \in AiKeyRow /\ here \in AiKeyRow /\ level \in Levels /\ here.life = "here"
      /\ here.check = row.check /\ here.credit = row.credit /\ (BalanceOK(row) => BalanceOK(here))
  <2>1. row \in AiKeyRow /\ level \in Levels
    BY <1>1, AmountsAreLevels DEF KeysInv, KeyOK, KeyTyped
  <2>2. QED
    BY <1>2, <2>1 DEF AiKeyRow, BalanceOK
<1>5. new \in AiKeyRow /\ new.life = "here" /\ (BalanceOK(row) => BalanceOK(new))
      /\ new.check = row.check /\ new.credit = row.credit
  <2>1. CASE on
    BY <1>3, <1>4, <2>1, AnchoredRow
  <2>2. CASE ~on
    BY <1>3, <1>4, <2>2
  <2>3. QED
    BY <2>1, <2>2
<1>6. \A kind \in Kinds : told[k][kind] = "none"
  BY <1>1 DEF create_key, KeysInv, KeyOK, NewOK
<1>7. PICK kinds : kinds = IF on THEN {"check", "sync"} ELSE {"check"}
  OBVIOUS
<1>8. Edited(k, kinds, {}) /\ aiKey' = [aiKey EXCEPT ![k] = new]
  BY <1>1, <1>2, <1>3, <1>7 DEF create_key
<1>9. Edited(k, kinds, {"sync"})
  <2>1. /\ \A kind \in kinds : aiTask[k][<<kind, "spawn">>] = Idle
        /\ aiTask' = [aiTask EXCEPT ![k] = [s \in Slots |->
             CASE s[2] = "spawn" /\ s[1] \in kinds \cap loops -> [at |-> "read"]
               [] aiTask[k][s].at \in {"ask", "store"} -> [aiTask[k][s] EXCEPT !.old = TRUE]
               [] OTHER -> aiTask[k][s]]]
        /\ UNCHANGED <<keyTrouble, loops>>
    BY <1>8 DEF Edited
  <2>2. PICK said : said = [kind \in Kinds |->
             CASE Busy(k, kind) # {} -> "mixed"
               [] Busy(k, kind) = {} /\ kind \in {} /\ told[k][kind] # "mixed" -> "none"
               [] OTHER -> told[k][kind]]
    OBVIOUS
  <2>3. told' = [told EXCEPT ![k] = said]
    BY <1>8, <2>2 DEF Edited, KeysInv
  <2>4. PICK also : also = [kind \in Kinds |->
             CASE Busy(k, kind) # {} -> "mixed"
               [] Busy(k, kind) = {} /\ kind \in {"sync"} /\ told[k][kind] # "mixed" -> "none"
               [] OTHER -> told[k][kind]]
    OBVIOUS
  <2>5. \A kind \in Kinds : said[kind] = also[kind]
    BY <1>6, <2>2, <2>4
  <2>6. said = also
    <3>1. said = [kind \in Kinds |-> said[kind]]
      BY <2>2
    <3>2. also = [kind \in Kinds |-> also[kind]]
      BY <2>4
    <3>3. [kind \in Kinds |-> said[kind]] = [kind \in Kinds |-> also[kind]]
      BY <2>5
    <3>4. QED
      BY <3>1, <3>2, <3>3
  <2>7. told' = [told EXCEPT ![k] = [kind \in Kinds |->
             CASE Busy(k, kind) # {} -> "mixed"
               [] Busy(k, kind) = {} /\ kind \in {"sync"} /\ @[kind] # "mixed" -> "none"
               [] OTHER -> @[kind]]]
    BY <2>3, <2>4, <2>6 DEF KeysInv
  <2>8. QED
    BY <2>1, <2>7 DEF Edited
<1>10. \A kind \in Kinds : \A word \in Heard(kind) : Agrees(kind, Status(kind, row), word) =>
         Agrees(kind, Status(kind, new), IF kind \in {"sync"} THEN "none" ELSE word)
  <2>1. PICK anew : anew = {"sync"}
    OBVIOUS
  <2>2. "sync" \in anew /\ "probe" \notin anew /\ "check" \notin anew
    BY <2>1
  <2>3. \A kind \in Kinds : \A word \in Heard(kind) : Agrees(kind, Status(kind, row), word) =>
         Agrees(kind, Status(kind, new), IF kind \in anew THEN "none" ELSE word)
    BY <1>5, <2>2, StillAgrees
  <2>4. QED
    BY <2>1, <2>3
<1>11. provider' \in [AiKeyIds -> ProviderTruth]
  <2>1. provider' = [provider EXCEPT ![k].level = level]
    BY DEF create_key
  <2>2. QED
    BY <1>4, <2>1, LeveledProvider DEF KeysInv
<1>12. EditsOK' /\ keyEdits' \in 0 .. MaxKeyEdits /\ astray' = astray
  BY AiKeysAssumption DEF create_key, OneMoreEdit, KeysInv, EditsOK
<1>13. QED
  BY <1>1, <1>5, <1>8, <1>9, <1>10, <1>11, <1>12, EditedStep

\* A patch of the balance fields leaves a balance of the key in the row.
LEMMA PatchedRow ==
  ASSUME NEW row \in AiKeyRow, NEW level \in Levels, NEW patch
  PROVE  /\ _apply_balance_patch(row, patch, level) \in AiKeyRow
         /\ BalanceOK(row) => BalanceOK(_apply_balance_patch(row, patch, level))
         /\ _apply_balance_patch(row, patch, level).life = row.life
         /\ _apply_balance_patch(row, patch, level).check = row.check
         /\ _apply_balance_patch(row, patch, level).credit = row.credit
         /\ patch \notin {"anchor", "disable"} =>
              _apply_balance_patch(row, patch, level).level = row.level
<1>1. CASE patch = "anchor"
  <2>1. _apply_balance_patch(row, patch, level) = Anchored(row, level)
    BY <1>1 DEF _apply_balance_patch
  <2>2. QED
    <3>1. PICK new : new = Anchored(row, level)
      OBVIOUS
    <3>2. new \in AiKeyRow /\ BalanceOK(new) /\ new.life = row.life /\ new.check = row.check
          /\ new.credit = row.credit
      BY <3>1, AnchoredRow
    <3>3. QED
      BY <1>1, <2>1, <3>1, <3>2
<1>2. CASE patch = "disable"
  <2>1. 0 \in 0 .. FailThreshold /\ NoKey \in Nat
    BY AiKeysAssumption DEF NoKey
  <2>2. _apply_balance_patch(row, patch, level) =
          [row EXCEPT !.on = FALSE, !.level = "none", !.sync = "none", !.streak = 0, !.billed = NoKey]
    BY <1>2 DEF _apply_balance_patch
  <2>3. QED
    BY <1>2, <2>1, <2>2 DEF AiKeyRow, BalanceOK
<1>3. CASE patch = "admin"
  <2>1. _apply_balance_patch(row, patch, level) = [row EXCEPT !.billed = NoKey]
    BY <1>3 DEF _apply_balance_patch
  <2>2. QED
    BY <1>3, <2>1 DEF AiKeyRow, BalanceOK, NoKey
<1>4. CASE patch \notin {"anchor", "disable", "admin"}
  <2>1. _apply_balance_patch(row, patch, level) = row
    BY <1>4 DEF _apply_balance_patch
  <2>2. QED
    BY <2>1
<1>5. QED
  BY <1>1, <1>2, <1>3, <1>4

\* A new secret: the check starts over, and no cached identifier is kept.
LEMMA RekeyedRow ==
  ASSUME NEW row \in AiKeyRow, NEW secret \in Nat
  PROVE  /\ SetKey(row, secret) \in AiKeyRow
         /\ BalanceOK(row) => BalanceOK(SetKey(row, secret))
         /\ SetKey(row, secret).life = row.life /\ SetKey(row, secret).level = row.level
<1>1. SetKey(row, secret) = [row EXCEPT !.secret = secret, !.check = "pending", !.billed = NoKey]
  BY DEF SetKey
<1>2. NoKey \in Nat
  BY DEF NoKey
<1>3. QED
  BY <1>1, <1>2 DEF AiKeyRow, BalanceOK

\* A new provider: what is cached stays, and belongs to the key only if it is nothing.
LEMMA MovedRow ==
  ASSUME NEW row \in AiKeyRow, NEW secret \in Nat
  PROVE  /\ SetProvider(row, secret) \in AiKeyRow
         /\ BalanceOK(row) /\ row.billed = NoKey => BalanceOK(SetProvider(row, secret))
         /\ SetProvider(row, secret).life = row.life /\ SetProvider(row, secret).level = row.level
         /\ SetProvider(row, secret).on = row.on /\ SetProvider(row, secret).sync = row.sync
         /\ SetProvider(row, secret).streak = row.streak
         /\ SetProvider(row, secret).billed = row.billed
<1>1. SetProvider(row, secret) = [row EXCEPT !.secret = secret, !.check = "pending"]
  BY DEF SetProvider
<1>2. QED
  BY <1>1 DEF AiKeyRow, BalanceOK

\* What a PATCH makes of a row, whose balance it keeps in order unless it
\* leaves an identifier cached beside a new provider.
LEMMA WholePatch ==
  ASSUME NEW row \in AiKeyRow, NEW what \in {"none", "key", "provider"}, NEW secret \in Nat,
         NEW level \in Levels, NEW patch,
         NEW new, new = Patched(row, what, secret, patch, level)
  PROVE  /\ new \in AiKeyRow
         /\ BalanceOK(row) /\ (what = "provider" => new.billed = NoKey) => BalanceOK(new)
         /\ what = "none" => new.check = row.check
         /\ patch \notin {"anchor", "disable"} => new.level = row.level
<1>1. PICK keyed : keyed = CASE what = "key" -> SetKey(row, secret)
                             [] what = "provider" -> SetProvider(row, secret)
                             [] OTHER -> row
  OBVIOUS
<1>2. new = _apply_balance_patch(keyed, patch, level)
  BY <1>1 DEF Patched
<1>3. keyed \in AiKeyRow /\ keyed.level = row.level /\ (what = "none" => keyed.check = row.check)
  <2>1. CASE what = "key"
    BY <1>1, <2>1, RekeyedRow
  <2>2. CASE what = "provider"
    BY <1>1, <2>2, MovedRow
  <2>3. CASE what = "none"
    BY <1>1, <2>3
  <2>4. QED
    BY <2>1, <2>2, <2>3
<1>4. /\ new \in AiKeyRow /\ new.check = keyed.check /\ (BalanceOK(keyed) => BalanceOK(new))
      /\ patch \notin {"anchor", "disable"} => new.level = keyed.level
  BY <1>2, <1>3, PatchedRow
<1>5. ASSUME BalanceOK(row), what = "provider" => new.billed = NoKey
      PROVE  BalanceOK(new)
  <2>1. CASE what = "key"
    BY <1>1, <1>4, <1>5, <2>1, RekeyedRow
  <2>2. CASE what = "none"
    BY <1>1, <1>4, <1>5, <2>2
  <2>3. CASE what = "provider"
    <3>1. keyed = SetProvider(row, secret) /\ new.billed = NoKey
      BY <1>1, <1>5, <2>3
    <3>2. CASE patch \in {"anchor", "disable", "admin"}
      <4>1. PICK cleared : cleared = [keyed EXCEPT !.billed = NoKey]
        OBVIOUS
      <4>2. cleared \in AiKeyRow /\ BalanceOK(cleared)
        <5>1. keyed.on = row.on /\ keyed.level = row.level /\ keyed.sync = row.sync
              /\ keyed.streak = row.streak
          BY <3>1, MovedRow
        <5>2. QED
          BY <1>3, <1>5, <4>1, <5>1 DEF AiKeyRow, BalanceOK, NoKey
      <4>3. new = _apply_balance_patch(cleared, patch, level)
        BY <1>2, <1>3, <3>2, <4>1 DEF _apply_balance_patch, Anchored, AiKeyRow
      <4>4. QED
        BY <4>2, <4>3, PatchedRow
    <3>3. CASE patch \notin {"anchor", "disable", "admin"}
      <4>1. new = keyed
        BY <1>2, <3>3 DEF _apply_balance_patch
      <4>2. row.billed = NoKey
        BY <3>1, <4>1, MovedRow
      <4>3. QED
        BY <1>5, <3>1, <4>1, <4>2, MovedRow
    <3>4. QED
      BY <3>2, <3>3
  <2>4. QED
    BY <2>1, <2>2, <2>3
<1>6. QED
  BY <1>3, <1>4, <1>5

\* The flush keeps every column in its range, and one the edit has not changed
\* as it is in the row.
LEMMA FlushedRow ==
  ASSUME NEW row \in AiKeyRow, NEW loaded \in AiKeyRow, NEW wanted \in AiKeyRow,
         NEW new, new = Flushed(row, loaded, wanted)
  PROVE  /\ new \in AiKeyRow /\ new.life = row.life /\ new.credit = row.credit
         /\ wanted.check = loaded.check => new.check = row.check
         /\ wanted.level = loaded.level => new.level = row.level
<1>1. PICK secret \in Nat : secret = IF wanted.secret # loaded.secret THEN wanted.secret ELSE row.secret
  BY DEF AiKeyRow
<1>2. PICK check \in {"pending", "working", "error"} :
        check = IF wanted.check # loaded.check THEN wanted.check ELSE row.check
  BY DEF AiKeyRow
<1>3. PICK on \in BOOLEAN : on = IF wanted.on # loaded.on THEN wanted.on ELSE row.on
  BY DEF AiKeyRow
<1>4. PICK level \in Levels \cup {"none"} :
        level = IF wanted.level # loaded.level THEN wanted.level ELSE row.level
  BY DEF AiKeyRow
<1>5. PICK sync \in {"none", "ok", "error", "unknown"} :
        sync = IF wanted.sync # loaded.sync THEN wanted.sync ELSE row.sync
  BY DEF AiKeyRow
<1>6. PICK streak \in 0 .. FailThreshold :
        streak = IF wanted.streak # loaded.streak THEN wanted.streak ELSE row.streak
  BY DEF AiKeyRow
<1>7. PICK billed \in Nat : billed = IF wanted.billed # loaded.billed THEN wanted.billed ELSE row.billed
  BY DEF AiKeyRow
<1>8. new = [row EXCEPT !.secret = secret, !.check = check, !.on = on, !.level = level,
                        !.sync = sync, !.streak = streak, !.billed = billed]
  BY <1>1, <1>2, <1>3, <1>4, <1>5, <1>6, <1>7 DEF Flushed
<1>9. new \in AiKeyRow
  <2>1. new = [life |-> row.life, secret |-> secret, check |-> check, credit |-> row.credit, on |-> on,
               level |-> level, sync |-> sync, streak |-> streak, billed |-> billed]
    <3>1. PICK some : some = [row EXCEPT !.secret = secret, !.check = check, !.on = on]
      OBVIOUS
    <3>2. some = [life |-> row.life, secret |-> secret, check |-> check, credit |-> row.credit,
                  on |-> on, level |-> row.level, sync |-> row.sync, streak |-> row.streak,
                  billed |-> row.billed]
      BY <3>1 DEF AiKeyRow
    <3>3. PICK more : more = [some EXCEPT !.level = level, !.sync = sync]
      OBVIOUS
    <3>4. more = [life |-> row.life, secret |-> secret, check |-> check, credit |-> row.credit,
                  on |-> on, level |-> level, sync |-> sync, streak |-> row.streak,
                  billed |-> row.billed]
      BY <3>2, <3>3
    <3>5. new = [more EXCEPT !.streak = streak, !.billed = billed]
      BY <1>8, <3>1, <3>3
    <3>6. QED
      BY <3>4, <3>5
  <2>2. row.life \in {"new", "here", "gone"} /\ row.credit \in {"none", "ok", "depleted"}
    BY DEF AiKeyRow
  <2>3. QED
    BY <2>1, <2>2 DEF AiKeyRow
<1>10. new.life = row.life /\ new.credit = row.credit /\ new.check = check /\ new.level = level
  BY <1>8 DEF AiKeyRow
<1>11. QED
  BY <1>2, <1>4, <1>9, <1>10

\* The balance is in order or not by its own columns.
LEMMA BalanceIsOfColumns ==
  ASSUME NEW new, NEW meant, BalanceOf(new) = BalanceOf(meant)
  PROVE  (BalanceOK(meant) <=> BalanceOK(new)) /\ new.billed = meant.billed
BY DEF BalanceOf, BalanceOK

\* The commit of an edit: a key whose balance is not what the edit meant is astray.
LEMMA CommitEditStep ==
  ASSUME KeysInv, NEW e \in Editors, edit[e] # Idle, NEW wanted \in AiKeyRow, NEW meant, NEW what,
         CommitEdit(e, wanted, meant, what), NEW kinds, NEW anew, Edited(edit[e].key, kinds, anew),
         BalanceOK(aiKey[edit[e].key]) /\ (what = "provider" => meant.billed = NoKey)
           => BalanceOK(meant),
         wanted.check = edit[e].row.check \/ "check" \in anew,
         wanted.level = edit[e].row.level \/ "sync" \in anew, "probe" \notin anew,
         provider' \in [AiKeyIds -> ProviderTruth]
  PROVE  KeysInv'
<1>1. PICK k : k = edit[e].key
  OBVIOUS
<1>2. PICK loaded : loaded = edit[e].row
  OBVIOUS
<1>3. PICK row : row = aiKey[k]
  OBVIOUS
<1>4. PICK new : new = Flushed(row, loaded, wanted)
  OBVIOUS
<1>5. k \in AiKeyIds /\ loaded \in AiKeyRow
  BY <1>1, <1>2 DEF KeysInv, EditsOK, EditOK
<1>6. row \in AiKeyRow
  BY <1>3, <1>5 DEF KeysInv, KeyOK, KeyTyped
<1>7. /\ row.life = "here" /\ aiKey' = [aiKey EXCEPT ![k] = new]
      /\ edit' = [edit EXCEPT ![e] = Idle] /\ keyEdits' = keyEdits
      /\ astray' = IF BalanceOf(new) = BalanceOf(meant) /\ (what = "provider" => new.billed = NoKey)
                   THEN astray ELSE astray \cup {k}
  BY <1>1, <1>2, <1>3, <1>4 DEF CommitEdit, Here
<1>8. /\ new \in AiKeyRow /\ new.life = "here" /\ new.credit = row.credit
      /\ new.check = row.check \/ "check" \in anew
      /\ new.level = row.level \/ "sync" \in anew
  BY <1>2, <1>4, <1>5, <1>6, <1>7, FlushedRow
<1>9. k \notin astray' => k \notin astray /\ (BalanceOK(row) => BalanceOK(new))
  <2> SUFFICES ASSUME k \notin astray' PROVE k \notin astray /\ (BalanceOK(row) => BalanceOK(new))
    OBVIOUS
  <2>1. /\ k \notin astray /\ BalanceOf(new) = BalanceOf(meant)
        /\ what = "provider" => new.billed = NoKey
    BY <1>7
  <2>2. QED
    BY <1>1, <1>3, <2>1, BalanceIsOfColumns
<1>10. \A kind \in Kinds : \A word \in Heard(kind) : Agrees(kind, Status(kind, row), word) =>
         Agrees(kind, Status(kind, new), IF kind \in anew THEN "none" ELSE word)
  BY <1>8, StillAgrees
<1>11. \A j \in AiKeyIds : j # k => (j \in astray' <=> j \in astray)
  BY <1>7
<1>12. EditsOK'
  <2>1. astray' \subseteq AiKeyIds
    BY <1>5, <1>7 DEF KeysInv, EditsOK
  <2>2. edit' = [x \in Editors |-> edit'[x]] /\ \A x \in Editors : EditOK(edit'[x])
    BY <1>7 DEF KeysInv, EditsOK, EditOK
  <2>3. QED
    BY <2>1, <2>2 DEF EditsOK
<1>13. keyEdits' \in 0 .. MaxKeyEdits
  BY <1>7 DEF KeysInv
<1>14. QED
  BY <1>1, <1>3, <1>5, <1>7, <1>8, <1>9, <1>10, <1>11, <1>12, <1>13, EditedStep

\* An edit loads the row, and moves nothing yet.
LEMMA LoadKeyStep ==
  ASSUME KeysInv, NEW e \in Editors, NEW k \in AiKeyIds, LoadKey(e, k)
  PROVE  KeysInv'
<1>1. /\ edit' = [edit EXCEPT ![e] = [at |-> "edit", key |-> k, row |-> aiKey[k], fresh |-> keyEdits + 2]]
      /\ keyEdits < MaxKeyEdits /\ keyEdits' = keyEdits + 1
      /\ UNCHANGED <<aiKey, provider, aiTask, astray, keyTrouble, told, loops>>
  BY DEF LoadKey, OneMoreEdit
<1>2. keyEdits' \in 0 .. MaxKeyEdits /\ keyEdits + 2 \in Nat
  BY <1>1, AiKeysAssumption DEF KeysInv
<1>3. PICK fresh \in Nat : fresh = keyEdits + 2
  BY <1>2
<1>4. PICK row \in AiKeyRow : row = aiKey[k]
  BY DEF KeysInv, KeyOK, KeyTyped
<1>5. PICK x : x = [at |-> "edit", key |-> k, row |-> row, fresh |-> fresh]
  OBVIOUS
<1>6. EditOK(x) /\ edit' = [edit EXCEPT ![e] = x]
  BY <1>1, <1>3, <1>4, <1>5 DEF EditOK
<1>7. EditsOK'
  BY <1>1, <1>6 DEF KeysInv, EditsOK
<1>8. QED
  BY <1>1, <1>2, <1>7 DEF KeysInv

\* An edit comes to nothing.
LEMMA RefuseEditStep ==
  ASSUME KeysInv, NEW e \in Editors, RefuseEdit(e)
  PROVE  KeysInv'
<1>1. /\ edit' = [edit EXCEPT ![e] = Idle]
      /\ UNCHANGED <<aiKey, provider, aiTask, astray, keyEdits, keyTrouble, told, loops>>
  BY DEF RefuseEdit
<1>2. EditsOK'
  BY <1>1 DEF KeysInv, EditsOK, EditOK
<1>3. QED
  BY <1>1, <1>2 DEF KeysInv

\* A key is edited: what starts over was told nothing of.
LEMMA UpdateKeyStep ==
  ASSUME KeysInv, NEW e \in Editors, NEW what \in {"none", "key", "provider"},
         NEW level \in Amounts, NEW patch, update_key(e, what, patch, level)
  PROVE  KeysInv'
<1>1. PICK k : k = edit[e].key
  OBVIOUS
<1>2. PICK loaded : loaded = edit[e].row
  OBVIOUS
<1>3. PICK secret : secret = edit[e].fresh
  OBVIOUS
<1>4. PICK row : row = aiKey[k]
  OBVIOUS
<1>5. PICK wanted : wanted = Patched(loaded, what, secret, patch, level)
  OBVIOUS
<1>6. PICK meant : meant = Patched(row, what, secret, patch, level)
  OBVIOUS
<1>7. PICK anew : anew = (IF what # "none" THEN {"check"} ELSE {})
                           \cup (IF patch \in {"anchor", "disable"} THEN {"sync"} ELSE {})
  OBVIOUS
<1>8. PICK woken : woken = (IF what # "none" THEN {"check"} ELSE {})
                             \cup (IF patch # "none" /\ aiKey'[k].on THEN {"sync"} ELSE {})
  OBVIOUS
<1>9. edit[e] # Idle /\ CommitEdit(e, wanted, meant, what)
  BY <1>1, <1>2, <1>3, <1>4, <1>5, <1>6 DEF update_key
<1>10. Edited(k, woken, anew)
  BY <1>1, <1>7, <1>8 DEF update_key
<1>11. k \in AiKeyIds /\ loaded \in AiKeyRow /\ secret \in Nat /\ level \in Levels
  BY <1>1, <1>2, <1>3, <1>9, AmountsAreLevels DEF KeysInv, EditsOK, EditOK
<1>12. row \in AiKeyRow
  BY <1>4, <1>11 DEF KeysInv, KeyOK, KeyTyped
<1>13. /\ wanted \in AiKeyRow /\ (what = "none" => wanted.check = loaded.check)
       /\ patch \notin {"anchor", "disable"} => wanted.level = loaded.level
  BY <1>5, <1>11, WholePatch
<1>14. BalanceOK(row) /\ (what = "provider" => meant.billed = NoKey) => BalanceOK(meant)
  BY <1>6, <1>11, <1>12, WholePatch
<1>15. /\ wanted.check = loaded.check \/ "check" \in anew
       /\ wanted.level = loaded.level \/ "sync" \in anew
       /\ "probe" \notin anew
  BY <1>7, <1>13
<1>16. provider' \in [AiKeyIds -> ProviderTruth]
  <2>1. PICK check : /\ check \in IF what # "none" THEN {"working", "error"} ELSE {provider[k].check}
                     /\ provider' = [provider EXCEPT ![k].check = check,
                            ![k].level = IF patch \in {"anchor", "threshold"} THEN level ELSE @]
    BY <1>1 DEF update_key
  <2>2. check \in {"working", "error"}
    BY <1>11, <2>1 DEF KeysInv, ProviderTruth
  <2>3. PICK f : f = [provider EXCEPT ![k].check = check]
    OBVIOUS
  <2>4. provider \in [AiKeyIds -> ProviderTruth]
    BY DEF KeysInv
  <2>5. f \in [AiKeyIds -> ProviderTruth]
    BY <1>11, <2>2, <2>3, <2>4, LeveledProvider
  <2>6. CASE patch \in {"anchor", "threshold"}
    <3>1. provider' = [f EXCEPT ![k].level = level]
      BY <1>11, <2>1, <2>3, <2>4, <2>6
    <3>2. QED
      BY <1>11, <2>5, <3>1, LeveledProvider
  <2>7. CASE patch \notin {"anchor", "threshold"}
    <3>1. provider' = [provider EXCEPT ![k].check = check, ![k].level = @]
      BY <2>1, <2>7
    <3>2. QED
      BY <1>11, <2>2, <2>4, <3>1 DEF ProviderTruth
  <2>8. QED
    BY <2>6, <2>7
<1>17. QED
  BY <1>1, <1>2, <1>4, <1>9, <1>10, <1>13, <1>14, <1>15, <1>16, CommitEditStep

\* The anchor anew.
LEMMA ResetBalanceStep ==
  ASSUME KeysInv, NEW e \in Editors, NEW level \in Amounts, reset_balance(e, level)
  PROVE  KeysInv'
<1>1. PICK k : k = edit[e].key
  OBVIOUS
<1>2. PICK loaded : loaded = edit[e].row
  OBVIOUS
<1>3. PICK row : row = aiKey[k]
  OBVIOUS
<1>4. PICK wanted : wanted = Anchored(loaded, level)
  OBVIOUS
<1>5. PICK meant : meant = Anchored(row, level)
  OBVIOUS
<1>6. PICK anew : anew = {"sync"}
  OBVIOUS
<1>7. edit[e] # Idle /\ CommitEdit(e, wanted, meant, "none") /\ Edited(k, {"sync"}, anew)
  BY <1>1, <1>2, <1>3, <1>4, <1>5, <1>6 DEF reset_balance
<1>8. k \in AiKeyIds /\ loaded \in AiKeyRow /\ level \in Levels
  BY <1>1, <1>2, <1>7, AmountsAreLevels DEF KeysInv, EditsOK, EditOK
<1>9. row \in AiKeyRow
  BY <1>3, <1>8 DEF KeysInv, KeyOK, KeyTyped
<1>10. wanted \in AiKeyRow /\ wanted.check = loaded.check /\ BalanceOK(meant)
  BY <1>4, <1>5, <1>8, <1>9, AnchoredRow
<1>11. "sync" \in anew /\ "probe" \notin anew
  BY <1>6
<1>12. provider' \in [AiKeyIds -> ProviderTruth]
  <2>1. provider' = [provider EXCEPT ![k].level = level]
    BY <1>1 DEF reset_balance
  <2>2. QED
    BY <1>8, <2>1, LeveledProvider DEF KeysInv
<1>13. QED
  BY <1>1, <1>2, <1>7, <1>10, <1>11, <1>12, CommitEditStep

\* A key is deleted: its row says what it said.
LEMMA DeleteKeyStep ==
  ASSUME KeysInv, NEW k \in AiKeyIds, delete_key(k)
  PROVE  KeysInv'
<1>1. PICK row : row = aiKey[k]
  OBVIOUS
<1>2. PICK new : new = [row EXCEPT !.life = "gone"]
  OBVIOUS
<1>3. row \in AiKeyRow
  BY <1>1 DEF KeysInv, KeyOK, KeyTyped
<1>4. new \in AiKeyRow /\ new.life = "gone" /\ (BalanceOK(row) => BalanceOK(new))
      /\ \A kind \in Kinds : Status(kind, new) = Status(kind, row)
  BY <1>2, <1>3 DEF AiKeyRow, BalanceOK, Status, Kinds
<1>5. PICK none : none = {}
  OBVIOUS
<1>6. Edited(k, none, none) /\ aiKey' = [aiKey EXCEPT ![k] = new]
  BY <1>1, <1>2, <1>5 DEF delete_key
<1>7. \A kind \in Kinds : \A word \in Heard(kind) : Agrees(kind, Status(kind, row), word) =>
         Agrees(kind, Status(kind, new), IF kind \in none THEN "none" ELSE word)
  BY <1>4, <1>5
<1>8. provider' \in [AiKeyIds -> ProviderTruth]
  BY DEF delete_key, KeysInv
<1>9. EditsOK' /\ keyEdits' \in 0 .. MaxKeyEdits /\ astray' = astray
  BY AiKeysAssumption DEF delete_key, OneMoreEdit, KeysInv, EditsOK
<1>10. QED
  BY <1>1, <1>4, <1>6, <1>7, <1>8, <1>9, EditedStep

\* What changes at the provider changes no row.
LEMMA ProviderChangesStep ==
  ASSUME KeysInv, NEW k \in AiKeyIds, ProviderChanges(k)
  PROVE  KeysInv'
<1>1. provider' \in [AiKeyIds -> ProviderTruth]
  <2>1. Amounts \subseteq Levels
    BY AmountsAreLevels
  <2>2. CASE provider' = [provider EXCEPT ![k].up = ~@]
    BY <2>2, LeveledProvider DEF KeysInv
  <2>3. CASE \E check \in {"working", "error"} : provider' = [provider EXCEPT ![k].check = check]
    BY <2>3 DEF KeysInv, ProviderTruth
  <2>4. CASE \E credit \in {"ok", "depleted"} : provider' = [provider EXCEPT ![k].credit = credit]
    BY <2>4 DEF KeysInv, ProviderTruth
  <2>5. CASE \E bill \in {"ok", "error"} : provider' = [provider EXCEPT ![k].bill = bill]
    BY <2>5 DEF KeysInv, ProviderTruth
  <2>6. CASE \E level \in Amounts : provider' = [provider EXCEPT ![k].level = level]
    BY <2>1, <2>6 DEF KeysInv, ProviderTruth
  <2>7. QED
    BY <2>2, <2>3, <2>4, <2>5, <2>6 DEF ProviderChanges
<1>2. /\ keyTrouble' \in 0 .. MaxKeyTrouble
      /\ UNCHANGED <<aiKey, aiTask, edit, astray, keyEdits, told, loops>>
  BY AiKeysAssumption DEF ProviderChanges, KeysInv, editVars
<1>3. EditsOK'
  BY <1>2 DEF KeysInv, EditsOK
<1>4. QED
  BY <1>1, <1>2, <1>3 DEF KeysInv

\* The process stops: no task is left, and a word that was on its way is
\* counted as lost.
LEMMA CrashKeysStep ==
  ASSUME KeysInv, CrashKeys
  PROVE  KeysInv'
<1>1. ASSUME NEW k \in AiKeyIds
      PROVE  KeyOK(k, aiKey'[k], aiTask'[k], told'[k], astray')
  <2>1. PICK row : row = aiKey[k]
    OBVIOUS
  <2>2. PICK tasks : tasks = aiTask[k]
    OBVIOUS
  <2>3. PICK words : words = told[k]
    OBVIOUS
  <2>4. PICK moved : moved = [s \in Slots |-> Idle]
    OBVIOUS
  <2>5. PICK said : said = told'[k]
    OBVIOUS
  <2>6. /\ KeyOK(k, row, tasks, words, astray) /\ aiKey'[k] = row /\ aiTask'[k] = moved
        /\ astray' = astray
    BY <2>1, <2>2, <2>3, <2>4 DEF KeysInv, CrashKeys
  <2>7. said = [kind \in Kinds |->
          IF \E s \in Busy(k, kind) : aiTask[k][s].at = "tell" THEN "mixed" ELSE told[k][kind]]
    BY <2>5 DEF CrashKeys
  <2>8. ASSUME NEW kind \in Kinds, said[kind] # "mixed"
        PROVE  said[kind] = words[kind] /\ \A s \in SlotsOf(kind) : tasks[s].at # "tell"
    <3>1. ~\E s \in Busy(k, kind) : tasks[s].at = "tell"
      BY <2>2, <2>7, <2>8
    <3>2. said[kind] = words[kind]
      BY <2>2, <2>3, <2>7, <3>1
    <3>3. \A s \in SlotsOf(kind) : tasks[s].at = "tell" => s \in Busy(k, kind)
      BY <2>2 DEF Busy, SlotsOf, Idle
    <3>4. QED
      BY <3>1, <3>2, <3>3
  <2>9. KeyTyped(row, moved, said)
    <3>1. \A s \in Slots : moved[s] = Idle
      BY <2>4
    <3>2. \A s \in Slots : moved[s] \in TasksOf(s[1])
      BY <3>1 DEF TasksOf
    <3>3. \A kind \in Kinds : said[kind] \in Heard(kind)
      BY <2>6, <2>8 DEF KeyOK, KeyTyped, Heard
    <3>4. moved = [s \in Slots |-> moved[s]]
      BY <2>4
    <3>5. said = [kind \in Kinds |-> said[kind]]
      BY <2>7
    <3>6. QED
      BY <2>6, <3>2, <3>3, <3>4, <3>5 DEF KeyOK, KeyTyped
  <2>10. NewOK(row, moved, said)
    <3>1. ASSUME row.life = "new" PROVE \A kind \in Kinds : said[kind] = "none"
      <4>1. \A s \in Slots : tasks[s].at # "tell"
        BY <2>6, <3>1 DEF KeyOK, NewOK, Idle
      <4>2. \A kind \in Kinds : said[kind] = told[k][kind]
        BY <2>2, <2>7, <4>1 DEF Busy
      <4>3. QED
        BY <2>3, <2>6, <3>1, <4>2 DEF KeyOK, NewOK
    <3>2. QED
      BY <2>4, <3>1 DEF NewOK
  <2>11. \A kind \in Kinds : said[kind] # "mixed" => KindOK(kind, row, moved, said[kind])
    <3>1. \A kind \in Kinds : said[kind] # "mixed" => Agrees(kind, Status(kind, row), said[kind])
      BY <2>6, <2>8 DEF KeyOK, KindOK
    <3>2. \A kind \in Kinds : \A s \in SlotsOf(kind) : moved[s] = Idle /\ moved[s].at = "idle"
      BY <2>4 DEF SlotsOf, Idle
    <3>3. QED
      BY <3>1, <3>2 DEF KindOK, Follows
  <2>12. said["sync"] # "mixed" /\ k \notin astray => BalanceOK(row)
    BY <2>6, <2>8 DEF KeyOK, Kinds
  <2>13. QED
    BY <2>5, <2>6, <2>9, <2>10, <2>11, <2>12 DEF KeyOK
<1>2. aiTask' = [k \in AiKeyIds |-> aiTask'[k]]
  BY DEF CrashKeys
<1>3. told' = [k \in AiKeyIds |-> told'[k]]
  BY DEF CrashKeys
<1>4. keyTrouble' \in 0 .. MaxKeyTrouble /\ UNCHANGED <<aiKey, provider, astray, keyEdits, loops>>
  BY AiKeysAssumption DEF CrashKeys, KeysInv
<1>5. EditsOK'
  BY <1>4 DEF CrashKeys, KeysInv, EditsOK, EditOK
<1>6. QED
  BY <1>1, <1>2, <1>3, <1>4, <1>5 DEF KeysInv

\* Every step of the keys keeps the invariant.
LEMMA KeysStep == KeysInv /\ [AiKeysNext]_aiKeysVars => KeysInv'
<1> SUFFICES ASSUME KeysInv, [AiKeysNext]_aiKeysVars PROVE KeysInv'
  OBVIOUS
<1>1. CASE \E kind \in Kinds : poll_once(kind)
  BY <1>1, IterationStep
<1>2. CASE \E k \in AiKeyIds, s \in Slots : TaskStep(k, s)
  BY <1>2, BeginSpawnedStep, HearProviderStep, StoreVerdictStep, SendAlertStep DEF TaskStep
<1>3. ASSUME NEW k \in AiKeyIds, EditKey(k) PROVE KeysInv'
  BY <1>3, CreateKeyStep, LoadKeyStep, DeleteKeyStep DEF EditKey
<1>4. CASE \E k \in AiKeyIds : ProviderChanges(k)
  BY <1>4, ProviderChangesStep
<1>5. CASE CrashKeys
  BY <1>5, CrashKeysStep
<1>6. CASE UNCHANGED aiKeysVars
  BY <1>6 DEF aiKeysVars, KeysInv, EditsOK
<1>7. ASSUME NEW e \in Editors, EditStep(e) PROVE KeysInv'
  BY <1>7, UpdateKeyStep, ResetBalanceStep, RefuseEditStep DEF EditStep
<1>8. QED
  BY <1>1, <1>2, <1>3, <1>4, <1>5, <1>6, <1>7 DEF AiKeysNext

\* AI keys (check, credit probe, balance sync): an alert is not repeated while
\* the verdict stays, over checks, edits, outages and restarts, as long as no
\* two tasks of its kind overlap, no crash eats an alert and no edit starts its
\* story anew; and a stored balance was reckoned from the costs of the key in
\* the row, as long as no sync crosses another or the commit of an edit, no
\* column of the balance changes between an edit's read and its commit so that
\* the edit leaves something else than it would have made of the row, and no
\* provider is changed beside a cached identifier.
THEOREM LoopsKeys == LoopsSpec => []KeysHold
<1>1. LoopsInit => KeysInv
  BY KeysInit DEF LoopsInit
<1>2. KeysInv /\ [LoopsNext]_loopsVars => KeysInv'
  <2>1. [LoopsNext]_loopsVars => [AiKeysNext]_aiKeysVars
    BY DEF LoopsNext, loopsVars
  <2>2. QED
    BY <2>1, KeysStep
<1>3. KeysInv => KeysHold
  BY KeysInvHolds DEF KeysHold
<1>4. QED
  BY <1>1, <1>2, <1>3, PTL DEF LoopsSpec

(***************************************************************************)
(* The notifier of server load.                                            *)
(***************************************************************************)

\* What the chat may know of a server.
ChatState == [online : BOOLEAN, zones : [Metrics -> Zones \cup {"null"}]]

\* Alerts that name metrics, and the metrics a list of alerts names.
Rises(outbox) == \A i \in 1 .. Len(outbox) : outbox[i].kind \in {"warning", "critical"}
Named(outbox, m) == \E i \in 1 .. Len(outbox) : m \in outbox[i].items

\* Once the alerts still to be sent are said, the chat knows the state that was
\* seen, but for metrics that came down, of which nothing is said.
Reaches(known, outbox, cur) ==
  \/ /\ Rises(outbox) /\ known.online = cur.online
     /\ \A m \in Metrics : _rank(cur.zones[m]) <= _rank(known.zones[m]) \/ Named(outbox, m)
  \/ outbox = <<Alert("offline", {})>> /\ ~cur.online
  \/ /\ outbox # <<>> /\ Head(outbox) = Alert("recovered", {}) /\ cur.online /\ Rises(Tail(outbox))
     /\ \A m \in Metrics : _rank(cur.zones[m]) = 0 \/ Named(Tail(outbox), m)

Alerts == [kind : {"offline", "recovered", "warning", "critical"}, items : SUBSET Metrics]

\* Where an iteration may be, and what it holds there.
PollOK ==
  \/ poll = Asleep
  \/ \E seen \in SUBSET Servers :
       poll = [at |-> "ask", prev |-> [s \in seen |-> stored[s]]]
  \/ \E seen \in SUBSET Servers : \E results \in [seen -> ServerAlertState] :
       \E outbox \in [seen -> Seq(Alerts)] : \E spoken \in SUBSET seen :
         /\ poll = [at |-> "send", results |-> results, outbox |-> outbox, spoken |-> spoken]
         /\ \A s \in seen \ torn : Reaches(chat[s], outbox[s], results[s])

\* The chat knows what is stored of a server nothing was said about.
Silent == Servers \ (torn \cup (IF poll.at = "send" THEN poll.spoken ELSE {}))

\* The inductive invariant of the notifier.
NotifierInv ==
  /\ load \in [Servers -> ServerAlertState] /\ stored \in [Servers -> ServerAlertState]
  /\ registered \subseteq Servers /\ torn \subseteq Servers
  /\ chat \in [Servers -> ChatState]
  /\ loadSteps \in 0..MaxLoadSteps /\ pollTrouble \in 0..MaxPollTrouble
  /\ PollOK
  /\ \A s \in Silent : Same(chat[s], stored[s])

\* A state is that of a server that is offline, or has its zones.
LEMMA StateShape ==
  ASSUME NEW state \in ServerAlertState
  PROVE  /\ state \in ChatState
         /\ ~state.online => state = Offline
         /\ \A m \in Metrics : Offline.zones[m] = "null"
<1>1. AllNull \in [Metrics -> Zones \cup {"null"}] /\ \A m \in Metrics : AllNull[m] = "null"
  BY DEF AllNull, Zones
<1>2. state = Offline \/ state = Dark \/ state \in [online : {TRUE}, zones : [Metrics -> Zones]]
  BY DEF ServerAlertState
<1>3. Offline \in ChatState /\ Dark \in ChatState /\ Dark.online /\ Offline.zones = AllNull
  BY <1>1 DEF Offline, Dark, ChatState
<1>4. ASSUME state \in [online : {TRUE}, zones : [Metrics -> Zones]]
      PROVE  state \in ChatState /\ state.online
  BY <1>4 DEF ChatState
<1>5. QED
  BY <1>1, <1>2, <1>3, <1>4

\* The invariant is more than the property.
LEMMA NotifierInvHolds == NotifierInv => NotifierHolds
<1> SUFFICES ASSUME NotifierInv PROVE NotifierHolds
  OBVIOUS
<1>1. poll.at \in {"sleep", "ask", "send"}
  BY DEF NotifierInv, PollOK, Asleep
<1>2. NotifierTypeOK
  BY <1>1 DEF NotifierInv, NotifierTypeOK, NotifierServerState, ChatState
<1>3. ASSUME poll = Asleep, NEW s \in registered \ torn PROVE Same(chat[s], stored[s])
  BY <1>3 DEF NotifierInv, Silent, Asleep
<1>4. QED
  BY <1>2, <1>3 DEF NotifierHolds, ChatKnowsStored

\* Servers are healthy at first, and the chat was told so.
LEMMA NotifierInitOK == NotifierInit => NotifierInv
<1> SUFFICES ASSUME NotifierInit PROVE NotifierInv
  OBVIOUS
<1>1. _HEALTHY_BASELINE \in ServerAlertState
  BY DEF _HEALTHY_BASELINE, ServerAlertState, Zones
<1>2. load \in [Servers -> ServerAlertState]
  BY <1>1 DEF NotifierInit
<1>3. chat \in [Servers -> ChatState]
  BY <1>2, StateShape DEF NotifierInit
<1>4. \A s \in Silent : Same(chat[s], stored[s])
  BY DEF NotifierInit, Same
<1>5. QED
  BY <1>2, <1>3, <1>4, NotifierAssumption DEF NotifierInit, NotifierInv, PollOK

\* An alert that is sent when it has something to name.
LEMMA WhenShape ==
  ASSUME NEW a \in Alerts, NEW named
  PROVE  \E l \in Seq(Alerts) : /\ l = When(named # {}, a)
                               /\ IF named = {} THEN Len(l) = 0 ELSE Len(l) = 1 /\ l[1] = a
<1>1. CASE named = {}
  <2>1. When(named # {}, a) = <<>>
    BY <1>1 DEF When
  <2>2. <<>> \in Seq(Alerts) /\ Len(<<>>) = 0
    OBVIOUS
  <2>3. QED
    BY <1>1, <2>1, <2>2
<1>2. CASE named # {}
  <2>1. When(named # {}, a) = <<a>>
    BY <1>2 DEF When
  <2>2. <<a>> \in Seq(Alerts) /\ Len(<<a>>) = 1 /\ <<a>>[1] = a
    OBVIOUS
  <2>3. QED
    BY <1>2, <2>1, <2>2
<1>3. QED
  BY <1>1, <1>2

\* A warning and a critical alert, each sent when it has something to name.
LEMMA RisesPair ==
  ASSUME NEW a \in Alerts, NEW b \in Alerts, a.kind = "warning", b.kind = "critical",
         NEW l \in Seq(Alerts), NEW r \in Seq(Alerts),
         IF a.items = {} THEN Len(l) = 0 ELSE Len(l) = 1 /\ l[1] = a,
         IF b.items = {} THEN Len(r) = 0 ELSE Len(r) = 1 /\ r[1] = b
  PROVE  Rises(l \o r) /\ \A m : m \in a.items \/ m \in b.items => Named(l \o r, m)
<1>1. PICK rest : rest = l \o r
  OBVIOUS
<1>2. /\ Len(rest) = Len(l) + Len(r)
      /\ \A i \in 1 .. Len(l) + Len(r) : rest[i] = IF i <= Len(l) THEN l[i] ELSE r[i - Len(l)]
  BY <1>1, ConcatProperties
<1>3. CASE a.items # {} /\ b.items # {}
  <2>1. Len(rest) = 2 /\ rest[1] = a /\ rest[2] = b
    BY <1>2, <1>3
  <2>2. QED
    BY <1>1, <2>1 DEF Rises, Named
<1>4. CASE a.items # {} /\ b.items = {}
  <2>1. Len(rest) = 1 /\ rest[1] = a
    BY <1>2, <1>4
  <2>2. QED
    BY <1>1, <1>4, <2>1 DEF Rises, Named
<1>5. CASE a.items = {} /\ b.items # {}
  <2>1. Len(rest) = 1 /\ rest[1] = b
    BY <1>2, <1>5
  <2>2. QED
    BY <1>1, <1>5, <2>1 DEF Rises, Named
<1>6. CASE a.items = {} /\ b.items = {}
  <2>1. Len(rest) = 0
    BY <1>2, <1>6
  <2>2. QED
    BY <1>1, <1>6, <2>1 DEF Rises, Named
<1>7. QED
  BY <1>3, <1>4, <1>5, <1>6

\* The alerts of a transition, said to a chat that knew the state before.
LEMMA EvaluateReaches ==
  ASSUME NEW prev \in ServerAlertState, NEW cur \in ServerAlertState
  PROVE  /\ evaluate(prev, cur) \in Seq(Alerts)
         /\ \A known \in ChatState : Same(known, prev) => Reaches(known, evaluate(prev, cur), cur)
<1>1. PICK outbox : outbox = evaluate(prev, cur)
  OBVIOUS
<1>2. CASE ~cur.online
  <2>1. cur = Offline
    BY <1>2, StateShape
  <2>2. CASE prev.online
    <3>1. outbox = <<Alert("offline", {})>>
      BY <1>1, <1>2, <2>2 DEF evaluate, When
    <3>2. Alert("offline", {}) \in Alerts
      BY DEF Alert, Alerts
    <3>3. QED
      BY <1>1, <1>2, <3>1, <3>2 DEF Reaches
  <2>3. CASE ~prev.online
    <3>1. outbox = <<>> /\ prev = Offline
      BY <1>1, <1>2, <2>3, StateShape DEF evaluate, When
    <3>2. Rises(outbox) /\ outbox \in Seq(Alerts)
      BY <3>1 DEF Rises
    <3>3. \A known \in ChatState : Same(known, prev) =>
            known.online = cur.online /\ \A m \in Metrics : _rank(cur.zones[m]) <= _rank(known.zones[m])
      BY <2>1, <3>1 DEF Same, _rank
    <3>4. QED
      BY <1>1, <3>2, <3>3 DEF Reaches
  <2>4. QED
    BY <2>2, <2>3
<1>3. CASE cur.online
  <2>1. PICK base : base = Base(prev)
    OBVIOUS
  <2>2. PICK yellow : yellow = Raised(base, cur.zones, "yellow")
    OBVIOUS
  <2>3. PICK red : red = Raised(base, cur.zones, "red")
    OBVIOUS
  <2>4. PICK a : a = Alert("warning", yellow)
    OBVIOUS
  <2>5. PICK b : b = Alert("critical", red)
    OBVIOUS
  <2>6. a \in Alerts /\ b \in Alerts /\ a.kind = "warning" /\ b.kind = "critical"
        /\ a.items = yellow /\ b.items = red /\ Alert("recovered", {}) \in Alerts
    <3>1. yellow \in SUBSET Metrics /\ red \in SUBSET Metrics
      BY <2>2, <2>3 DEF Raised
    <3>2. QED
      BY <2>4, <2>5, <3>1 DEF Alert, Alerts
  <2>7. PICK l \in Seq(Alerts) : /\ l = When(yellow # {}, a)
                                 /\ IF yellow = {} THEN Len(l) = 0 ELSE Len(l) = 1 /\ l[1] = a
    BY <2>6, WhenShape
  <2>8. PICK r \in Seq(Alerts) : /\ r = When(red # {}, b)
                                 /\ IF red = {} THEN Len(r) = 0 ELSE Len(r) = 1 /\ r[1] = b
    BY <2>6, WhenShape
  <2>9. PICK rest \in Seq(Alerts) : rest = l \o r
    BY ConcatProperties
  <2>10. Rises(rest) /\ \A m : m \in yellow \/ m \in red => Named(rest, m)
    BY <2>6, <2>7, <2>8, <2>9, RisesPair
  <2>11. \A m \in Metrics : _rank(cur.zones[m]) <= _rank(base[m]) \/ Named(rest, m)
    <3>1. \A m \in Metrics : _rank(cur.zones[m]) > _rank(base[m]) =>
            cur.zones[m] \in {"yellow", "red"}
      BY DEF _rank
    <3>2. \A m \in Metrics : _rank(cur.zones[m]) > _rank(base[m]) => m \in yellow \/ m \in red
      BY <2>2, <2>3, <3>1 DEF Raised
    <3>3. \A m \in Metrics : _rank(cur.zones[m]) \in Nat /\ _rank(base[m]) \in Nat
      BY DEF _rank
    <3>4. QED
      BY <2>10, <3>2, <3>3
  <2>12. outbox = (When(~prev.online, Alert("recovered", {})) \o l) \o r
    BY <1>1, <1>3, <2>1, <2>2, <2>3, <2>4, <2>5, <2>7, <2>8 DEF evaluate
  <2>13. CASE prev.online
    <3>1. outbox = rest /\ base = prev.zones
      <4>1. outbox = (<<>> \o l) \o r /\ base = prev.zones
        BY <2>1, <2>12, <2>13 DEF When, Base
      <4>2. QED
        BY <2>9, <4>1
    <3>2. QED
      BY <1>1, <1>3, <2>10, <2>11, <2>13, <2>9, <3>1 DEF Reaches, Same
  <2>14. CASE ~prev.online
    <3>1. outbox = <<Alert("recovered", {})>> \o rest /\ base = AllNull
      <4>1. outbox = (<<Alert("recovered", {})>> \o l) \o r /\ base = AllNull
        BY <2>1, <2>12, <2>14 DEF When, Base
      <4>2. <<Alert("recovered", {})>> \in Seq(Alerts)
        BY <2>6
      <4>3. QED
        BY <2>9, <4>1, <4>2
    <3>2. outbox \in Seq(Alerts) /\ Head(outbox) = Alert("recovered", {}) /\ Tail(outbox) = rest
          /\ outbox # <<>>
      BY <2>6, <2>9, <3>1
    <3>3. \A m \in Metrics : _rank(cur.zones[m]) = 0 \/ Named(rest, m)
      BY <2>11, <3>1 DEF AllNull, _rank
    <3>4. QED
      BY <1>1, <1>3, <2>10, <3>2, <3>3 DEF Reaches
  <2>15. QED
    BY <2>13, <2>14
<1>4. QED
  BY <1>2, <1>3, StateShape DEF ChatState

\* What an alert tells is something the chat may know.
LEMMA ToldShape ==
  ASSUME NEW known \in ChatState, NEW alert \in Alerts, NEW cur \in ServerAlertState
  PROVE  /\ Told(known, alert, cur) \in ChatState
         /\ alert.kind = "offline" => Told(known, alert, cur) = Offline
         /\ alert.kind = "recovered" => Told(known, alert, cur) = Dark
         /\ alert.kind \in {"warning", "critical"} =>
              /\ Told(known, alert, cur).online = known.online
              /\ \A m \in Metrics : Told(known, alert, cur).zones[m] =
                   IF m \in alert.items THEN cur.zones[m] ELSE known.zones[m]
<1>1. CASE alert.kind = "offline"
  <2>1. Offline \in ServerAlertState
    BY DEF ServerAlertState
  <2>2. QED
    BY <1>1, <2>1, StateShape DEF Told
<1>2. CASE alert.kind = "recovered"
  <2>1. Dark \in ServerAlertState
    BY DEF ServerAlertState
  <2>2. QED
    BY <1>2, <2>1, StateShape DEF Told
<1>3. CASE alert.kind \in {"warning", "critical"}
  <2>1. PICK zones : zones = [m \in Metrics |-> IF m \in alert.items THEN cur.zones[m]
                                                ELSE known.zones[m]]
    OBVIOUS
  <2>2. zones \in [Metrics -> Zones \cup {"null"}]
    BY <2>1, StateShape DEF ChatState
  <2>3. Told(known, alert, cur) = [known EXCEPT !.zones = zones]
    BY <1>3, <2>1 DEF Told, ChatState
  <2>4. QED
    BY <1>3, <2>1, <2>2, <2>3 DEF ChatState
<1>4. QED
  BY <1>1, <1>2, <1>3 DEF Alerts

\* One alert nearer to what was seen.
LEMMA ToldReaches ==
  ASSUME NEW known \in ChatState, NEW outbox \in Seq(Alerts), outbox # <<>>,
         NEW cur \in ServerAlertState, Reaches(known, outbox, cur)
  PROVE  Reaches(Told(known, Head(outbox), cur), Tail(outbox), cur)
<1>1. PICK alert \in Alerts : alert = Head(outbox) /\ alert = outbox[1]
  OBVIOUS
<1>2. PICK told2 \in ChatState : told2 = Told(known, alert, cur)
  BY ToldShape
<1>3. PICK rest \in Seq(Alerts) : rest = Tail(outbox)
  BY HeadTailProperties
<1>4. Len(outbox) = Len(rest) + 1 /\ \A i \in 1 .. Len(rest) : rest[i] = outbox[i + 1]
  BY <1>3, HeadTailProperties
<1>5. \A m : _rank(m) \in Nat
  BY DEF _rank
<1>6. CASE /\ Rises(outbox) /\ known.online = cur.online
           /\ \A m \in Metrics : _rank(cur.zones[m]) <= _rank(known.zones[m]) \/ Named(outbox, m)
  <2>1. alert.kind \in {"warning", "critical"}
    BY <1>1, <1>4, <1>6 DEF Rises
  <2>2. Rises(rest)
    BY <1>4, <1>6 DEF Rises
  <2>3. told2.online = cur.online
    BY <1>2, <1>6, <2>1, ToldShape
  <2>4. ASSUME NEW m \in Metrics
        PROVE  _rank(cur.zones[m]) <= _rank(told2.zones[m]) \/ Named(rest, m)
    <3>1. told2.zones[m] = IF m \in alert.items THEN cur.zones[m] ELSE known.zones[m]
      BY <1>2, <2>1, ToldShape
    <3>2. CASE m \in alert.items
      BY <1>5, <3>1, <3>2
    <3>3. CASE m \notin alert.items
      <4>1. ASSUME Named(outbox, m) PROVE Named(rest, m)
        <5>1. PICK i \in 1 .. Len(outbox) : m \in outbox[i].items
          BY <4>1 DEF Named
        <5>2. i # 1
          BY <1>1, <3>3, <5>1
        <5>3. i - 1 \in 1 .. Len(rest) /\ rest[i - 1] = outbox[i]
          BY <1>4, <5>1, <5>2
        <5>4. QED
          BY <5>1, <5>3 DEF Named
      <4>2. QED
        BY <1>6, <3>1, <3>3, <4>1
    <3>4. QED
      BY <3>2, <3>3
  <2>5. QED
    BY <1>1, <1>2, <1>3, <2>2, <2>3, <2>4 DEF Reaches
<1>7. CASE outbox = <<Alert("offline", {})>> /\ ~cur.online
  <2>1. alert.kind = "offline" /\ rest = <<>>
    BY <1>1, <1>3, <1>7 DEF Alert
  <2>2. told2 = Offline /\ cur = Offline
    BY <1>2, <1>7, <2>1, ToldShape, StateShape
  <2>3. Rises(rest)
    BY <2>1 DEF Rises
  <2>4. told2.online = cur.online /\ \A m \in Metrics : _rank(cur.zones[m]) <= _rank(told2.zones[m])
    BY <1>5, <2>2
  <2>5. QED
    BY <1>1, <1>2, <1>3, <2>3, <2>4 DEF Reaches
<1>8. CASE /\ Head(outbox) = Alert("recovered", {}) /\ cur.online /\ Rises(Tail(outbox))
           /\ \A m \in Metrics : _rank(cur.zones[m]) = 0 \/ Named(Tail(outbox), m)
  <2>1. alert.kind = "recovered"
    BY <1>1, <1>8 DEF Alert
  <2>2. told2 = Dark
    BY <1>2, <2>1, ToldShape
  <2>3. told2.online = cur.online /\ \A m \in Metrics : _rank(told2.zones[m]) = 0
    <3>1. cur.online = TRUE
      BY <1>8 DEF ServerAlertState, Offline, Dark
    <3>2. QED
      BY <2>2, <3>1 DEF Dark, AllNull, _rank
  <2>4. Rises(rest) /\ \A m \in Metrics : _rank(cur.zones[m]) = 0 \/ Named(rest, m)
    BY <1>3, <1>8
  <2>5. \A m \in Metrics : _rank(cur.zones[m]) <= _rank(told2.zones[m]) \/ Named(rest, m)
    BY <1>5, <2>3, <2>4
  <2>6. QED
    BY <1>1, <1>2, <1>3, <2>3, <2>4, <2>5 DEF Reaches
<1>9. QED
  BY <1>6, <1>7, <1>8 DEF Reaches

\* Everything is said, and what came down is forgotten.
LEMMA LoweredSame ==
  ASSUME NEW known \in ChatState, NEW cur \in ServerAlertState
  PROVE  /\ Lowered(known, cur) \in ChatState
         /\ Reaches(known, <<>>, cur) => Same(Lowered(known, cur), cur)
<1>1. PICK zones : zones = [m \in Metrics |-> IF _rank(cur.zones[m]) < _rank(known.zones[m])
                                              THEN cur.zones[m] ELSE known.zones[m]]
  OBVIOUS
<1>2. zones \in [Metrics -> Zones \cup {"null"}]
  BY <1>1, StateShape DEF ChatState
<1>3. PICK after : after = [known EXCEPT !.zones = zones]
  OBVIOUS
<1>4. Lowered(known, cur) = after
  BY <1>1, <1>3 DEF Lowered, ChatState
<1>5. after \in ChatState /\ after.online = known.online /\ after.zones = zones
  BY <1>2, <1>3 DEF ChatState
<1>6. ASSUME Reaches(known, <<>>, cur) PROVE Same(after, cur)
  <2>1. \A m : ~Named(<<>>, m)
    BY DEF Named
  <2>2. /\ known.online = cur.online
        /\ \A m \in Metrics : _rank(cur.zones[m]) <= _rank(known.zones[m])
    BY <1>6, <2>1 DEF Reaches
  <2>3. \A z : _rank(z) \in Nat
    BY DEF _rank
  <2>4. \A m \in Metrics : _rank(zones[m]) = _rank(cur.zones[m])
    BY <1>1, <2>2, <2>3
  <2>5. QED
    BY <1>5, <2>2, <2>4 DEF Same
<1>7. QED
  BY <1>4, <1>5, <1>6

\* The states are read: nothing is said yet.
LEMMA ReadStatesStep == ASSUME NotifierInv, ReadStates PROVE NotifierInv'
<1>1. PollOK'
  <2>1. poll' = [at |-> "ask", prev |-> [s \in registered |-> stored'[s]]]
        /\ registered \in SUBSET Servers
    BY DEF ReadStates, NotifierInv
  <2>2. QED
    BY <2>1 DEF PollOK
<1>2. Silent' = Silent
  BY DEF ReadStates, Silent, Asleep
<1>3. QED
  BY <1>1, <1>2 DEF ReadStates, NotifierInv

\* The metrics are there: the alerts they call for lead from what is stored to
\* what was seen.
LEMMA HearMetricsStep == ASSUME NotifierInv, HearMetrics PROVE NotifierInv'
<1>1. PICK seen \in SUBSET Servers : poll = [at |-> "ask", prev |-> [s \in seen |-> stored[s]]]
  BY DEF NotifierInv, PollOK, HearMetrics, Asleep
<1>2. DOMAIN poll.prev = seen /\ \A s \in seen : poll.prev[s] = stored[s]
  BY <1>1
<1>3. PICK results : results = [s \in seen |-> load[s]]
  OBVIOUS
<1>4. PICK outbox : outbox = [s \in seen |-> evaluate(stored[s], load[s])]
  OBVIOUS
<1>5. poll' = [at |-> "send", results |-> results, outbox |-> outbox, spoken |-> {}]
  BY <1>2, <1>3, <1>4 DEF HearMetrics
<1>6. results \in [seen -> ServerAlertState]
  BY <1>3 DEF NotifierInv
<1>7. \A s \in seen : outbox[s] = evaluate(stored[s], load[s]) /\ results[s] = load[s]
        /\ stored[s] \in ServerAlertState /\ load[s] \in ServerAlertState /\ chat[s] \in ChatState
  BY <1>3, <1>4 DEF NotifierInv
<1>8. outbox \in [seen -> Seq(Alerts)]
  <2>1. \A s \in seen : outbox[s] \in Seq(Alerts)
    BY <1>7, EvaluateReaches
  <2>2. QED
    BY <1>4, <2>1
<1>9. \A s \in seen \ torn : Reaches(chat[s], outbox[s], results[s])
  <2>1. \A s \in seen \ torn : Same(chat[s], stored[s])
    BY <1>1 DEF NotifierInv, Silent
  <2>2. QED
    BY <1>7, <2>1, EvaluateReaches
<1>10. UNCHANGED <<load, registered, stored, chat, torn, loadSteps, pollTrouble>>
  BY DEF HearMetrics
<1>11. PollOK'
  <2>1. {} \in SUBSET seen
    OBVIOUS
  <2>2. \A s \in seen \ torn' : Reaches(chat'[s], outbox[s], results[s])
    BY <1>9, <1>10
  <2>3. QED
    BY <1>5, <1>6, <1>8, <2>1, <2>2 DEF PollOK
<1>12. Silent' \subseteq Silent
  BY <1>1, <1>5, <1>10 DEF Silent
<1>13. QED
  BY <1>10, <1>11, <1>12 DEF NotifierInv

\* An alert is sent.
LEMMA SendNextStep ==
  ASSUME NotifierInv, NEW s \in Servers, SendNext(s) PROVE NotifierInv'
<1>1. PICK seen, results, outbox, spoken :
         /\ seen \in SUBSET Servers /\ results \in [seen -> ServerAlertState]
         /\ outbox \in [seen -> Seq(Alerts)] /\ spoken \in SUBSET seen
         /\ poll = [at |-> "send", results |-> results, outbox |-> outbox, spoken |-> spoken]
         /\ \A r \in seen \ torn : Reaches(chat[r], outbox[r], results[r])
  BY DEF NotifierInv, PollOK, SendNext, Asleep
<1>2. s \in seen /\ outbox[s] # <<>> /\ outbox[s] \in Seq(Alerts)
  BY <1>1 DEF SendNext
<1>3. PICK told2 : told2 = Told(chat[s], Head(outbox[s]), results[s])
  OBVIOUS
<1>4. PICK left : left = [outbox EXCEPT ![s] = Tail(@)]
  OBVIOUS
<1>5. PICK said : said = spoken \cup {s}
  OBVIOUS
<1>6. chat' = [chat EXCEPT ![s] = told2]
  BY <1>1, <1>3 DEF SendNext
<1>7. poll' = [at |-> "send", results |-> results, outbox |-> left, spoken |-> said]
  <2>1. poll' = [poll EXCEPT !.outbox = left, !.spoken = said]
    BY <1>1, <1>4, <1>5 DEF SendNext
  <2>2. QED
    BY <1>1, <2>1
<1>8. chat \in [Servers -> ChatState] /\ Head(outbox[s]) \in Alerts /\ Tail(outbox[s]) \in Seq(Alerts)
  BY <1>2, HeadTailProperties DEF NotifierInv
<1>9. told2 \in ChatState
  BY <1>1, <1>2, <1>3, <1>8, ToldShape
<1>10. left \in [seen -> Seq(Alerts)] /\ left[s] = Tail(outbox[s])
       /\ \A r \in seen : r # s => left[r] = outbox[r]
  BY <1>1, <1>2, <1>4, <1>8
<1>11. UNCHANGED <<load, registered, stored, torn, loadSteps, pollTrouble>>
  BY DEF SendNext
<1>12. chat' \in [Servers -> ChatState] /\ chat'[s] = told2
       /\ \A r \in Servers : r # s => chat'[r] = chat[r]
  BY <1>6, <1>8, <1>9
<1>13. ASSUME NEW r \in seen \ torn PROVE Reaches(chat'[r], left[r], results[r])
  <2>1. CASE r = s
    <3>1. Reaches(chat[s], outbox[s], results[s]) /\ results[s] \in ServerAlertState
          /\ chat[s] \in ChatState
      BY <1>1, <1>2, <1>8, <1>13, <2>1
    <3>2. Reaches(told2, left[s], results[s])
      BY <1>2, <1>3, <1>10, <3>1, ToldReaches
    <3>3. QED
      BY <1>12, <2>1, <3>2
  <2>2. CASE r # s
    BY <1>1, <1>10, <1>12, <1>13, <2>2
  <2>3. QED
    BY <2>1, <2>2
<1>14. PollOK'
  <2>1. said \in SUBSET seen
    BY <1>1, <1>2, <1>5
  <2>2. \A r \in seen \ torn' : Reaches(chat'[r], left[r], results[r])
    BY <1>11, <1>13
  <2>3. QED
    BY <1>1, <1>7, <1>10, <2>1, <2>2 DEF PollOK
<1>15. Silent' = Silent \ {s}
  BY <1>1, <1>5, <1>7, <1>11 DEF Silent
<1>16. \A r \in Silent' : Same(chat'[r], stored'[r])
  BY <1>11, <1>12, <1>15 DEF NotifierInv, Silent
<1>17. QED
  BY <1>11, <1>12, <1>14, <1>16 DEF NotifierInv

\* Everything is sent and stored in one commit: the chat knows it.
LEMMA StoreStatesStep == ASSUME NotifierInv, StoreStates PROVE NotifierInv'
<1>1. PICK seen, results, outbox, spoken :
         /\ seen \in SUBSET Servers /\ results \in [seen -> ServerAlertState]
         /\ outbox \in [seen -> Seq(Alerts)] /\ spoken \in SUBSET seen
         /\ poll = [at |-> "send", results |-> results, outbox |-> outbox, spoken |-> spoken]
         /\ \A r \in seen \ torn : Reaches(chat[r], outbox[r], results[r])
  BY DEF NotifierInv, PollOK, StoreStates, AllSent, Asleep
<1>2. \A s \in seen : outbox[s] = <<>>
  BY <1>1 DEF StoreStates, AllSent
<1>3. Upserted = seen
  BY <1>1 DEF Upserted
<1>4. /\ stored' = [s \in Servers |-> IF s \in seen THEN results[s] ELSE stored[s]]
      /\ chat' = [s \in Servers |-> IF s \in seen THEN Lowered(chat[s], results[s]) ELSE chat[s]]
      /\ torn' = {s \in torn : ~Same(chat'[s], stored'[s])} /\ poll' = Asleep
  BY <1>1, <1>3 DEF StoreStates
<1>5. \A s \in seen : results[s] \in ServerAlertState
  BY <1>1
<1>6. \A s \in Servers : chat[s] \in ChatState
  BY DEF NotifierInv
<1>7. stored' \in [Servers -> ServerAlertState]
  BY <1>4, <1>5 DEF NotifierInv
<1>8. chat' \in [Servers -> ChatState]
  <2>1. \A s \in Servers : chat'[s] \in ChatState
    BY <1>4, <1>5, <1>6, LoweredSame
  <2>2. QED
    BY <1>4, <2>1
<1>9. ASSUME NEW s \in Servers \ torn' PROVE Same(chat'[s], stored'[s])
  <2>1. CASE s \in torn
    BY <1>4, <1>9, <2>1
  <2>2. CASE s \in seen \ torn
    <3>1. Reaches(chat[s], <<>>, results[s])
      BY <1>1, <1>2, <2>2
    <3>2. Same(Lowered(chat[s], results[s]), results[s])
      BY <1>5, <1>6, <2>2, <3>1, LoweredSame
    <3>3. QED
      BY <1>4, <2>2, <3>2
  <2>3. CASE s \notin seen /\ s \notin torn
    <3>1. s \in Silent
      BY <1>1, <2>3 DEF Silent
    <3>2. chat'[s] = chat[s] /\ stored'[s] = stored[s]
      BY <1>4, <2>3
    <3>3. QED
      BY <3>1, <3>2 DEF NotifierInv
  <2>4. QED
    BY <2>1, <2>2, <2>3
<1>10. \A s \in Silent' : Same(chat'[s], stored'[s])
  BY <1>9 DEF Silent
<1>11. torn' \subseteq Servers /\ PollOK'
  BY <1>4 DEF NotifierInv, PollOK
<1>12. UNCHANGED <<load, registered, loadSteps, pollTrouble>>
  BY DEF StoreStates
<1>13. QED
  BY <1>7, <1>8, <1>10, <1>11, <1>12 DEF NotifierInv

\* The iteration is lost: what it said without storing it is known.
LEMMA LostStep ==
  ASSUME NotifierInv, Lost, UNCHANGED <<load, registered, stored, chat, loadSteps>>,
         pollTrouble' \in 0..MaxPollTrouble
  PROVE  NotifierInv'
<1>1. torn' \subseteq Servers /\ Silent' \subseteq Silent
  <2>1. CASE poll.at = "send"
    <3>1. poll.spoken \in SUBSET Servers
      BY <2>1 DEF NotifierInv, PollOK, Asleep
    <3>2. QED
      BY <2>1, <3>1 DEF Lost, NotifierInv, Silent, Asleep
  <2>2. CASE poll.at # "send"
    BY <2>2 DEF Lost, NotifierInv, Silent, Asleep
  <2>3. QED
    BY <2>1, <2>2
<1>2. PollOK'
  BY DEF Lost, PollOK
<1>3. QED
  BY <1>1, <1>2 DEF NotifierInv

\* Every step of the notifier keeps the invariant.
LEMMA NotifierStep == NotifierInv /\ [NotifierNext]_notifierVars => NotifierInv'
<1> SUFFICES ASSUME NotifierInv, [NotifierNext]_notifierVars PROVE NotifierInv'
  OBVIOUS
<1>1. CASE PollStep
  <2>1. ASSUME DeletedUnderway PROVE NotifierInv'
    BY <2>1, LostStep DEF DeletedUnderway, NotifierInv
  <2>2. QED
    BY <1>1, <2>1, ReadStatesStep, HearMetricsStep, SendNextStep, StoreStatesStep DEF PollStep
<1>2. CASE PrometheusDown
  <2>1. poll.at = "ask" /\ poll' = Asleep /\ UNCHANGED <<load, registered, stored, chat, torn, loadSteps>>
        /\ pollTrouble' \in 0..MaxPollTrouble
    BY <1>2, NotifierAssumption DEF PrometheusDown, PollTrouble, NotifierInv
  <2>2. Silent' = Silent
    BY <2>1 DEF Silent, Asleep
  <2>3. PollOK'
    BY <2>1 DEF PollOK
  <2>4. QED
    BY <2>1, <2>2, <2>3 DEF NotifierInv
<1>3. CASE IterationLost
  <2>1. pollTrouble' \in 0..MaxPollTrouble
    BY <1>3, NotifierAssumption DEF IterationLost, PollTrouble, NotifierInv
  <2>2. QED
    BY <1>3, <2>1, LostStep DEF IterationLost
<1>4. ASSUME NEW s \in Servers, LoadChanges(s) PROVE NotifierInv'
  <2>1. PICK state \in ServerAlertState : load' = [load EXCEPT ![s] = state]
    BY <1>4 DEF LoadChanges
  <2>2. loadSteps' \in 0..MaxLoadSteps
        /\ UNCHANGED <<registered, stored, poll, chat, torn, pollTrouble>>
    BY <1>4, NotifierAssumption DEF LoadChanges, NotifierInv
  <2>3. PollOK' /\ Silent' = Silent
    BY <2>2 DEF NotifierInv, PollOK, Silent
  <2>4. load' \in [Servers -> ServerAlertState]
    BY <2>1 DEF NotifierInv
  <2>5. QED
    BY <2>2, <2>3, <2>4 DEF NotifierInv
<1>5. ASSUME NEW s \in Servers, DeleteServer(s) PROVE NotifierInv'
  <2>1. loadSteps' \in 0..MaxLoadSteps /\ registered' \subseteq Servers
        /\ UNCHANGED <<load, stored, poll, chat, torn, pollTrouble>>
    BY <1>5, NotifierAssumption DEF DeleteServer, NotifierInv
  <2>2. PollOK' /\ Silent' = Silent
    BY <2>1 DEF NotifierInv, PollOK, Silent
  <2>3. QED
    BY <2>1, <2>2 DEF NotifierInv
<1>6. CASE UNCHANGED notifierVars
  <2>1. PollOK' /\ Silent' = Silent
    BY <1>6 DEF notifierVars, NotifierInv, PollOK, Silent
  <2>2. QED
    BY <1>6, <2>1 DEF notifierVars, NotifierInv
<1>7. QED
  BY <1>1, <1>2, <1>3, <1>4, <1>5, <1>6 DEF NotifierNext

(***************************************************************************)
(* Reading the metrics of servers.                                         *)
(***************************************************************************)

\* A batch, while its queries run and after one of them failed.
BatchFlight ==
  [at : {"batch"}, key : CacheKeys, are : [Queries -> {"queued", "running", "done"}],
   got : [Queries -> Moments]]
FailedFlight == [at : {"failed"}, key : CacheKeys]
Entry == [at : {"entry"}, stored_at : Moments, value : InstanceMetrics]

\* A request waits for the batch of its key, its own or another's; and a
\* request that runs a batch waits for it, and holds the key.
AskerOK(a) ==
  asker[a] = Aside \/ /\ asker[a] # Aside /\ asker[a].key \in CacheKeys /\ asker[a].on \in Askers
                      /\ flight[asker[a].on] # NoFlight
                      /\ flight[asker[a].on].key = asker[a].key
FlightOK(a) ==
  flight[a] = NoFlight \/ /\ flight[a] \in BatchFlight \cup FailedFlight
                          /\ inflight[flight[a].key] = a
                          /\ asker[a] # Aside /\ asker[a].on = a
KeyTaken(key) ==
  inflight[key] # Nobody => flight[inflight[key]] # NoFlight /\ flight[inflight[key]].key = key

\* What was shown last is what is kept, and everything that a batch has heard
\* is not older.
NewestOK(key) ==
  /\ answered.newest[key] \in InstanceMetrics
  /\ \A q \in Queries : answered.newest[key][q] <= moment
  /\ cache[key] # NoEntry => cache[key].value = answered.newest[key]
HeardOK(a) ==
  flight[a].at = "batch" => \A q \in Queries : flight[a].are[q] = "done" =>
    answered.newest[flight[a].key][q] <= flight[a].got[q] /\ flight[a].got[q] <= moment

\* The inductive invariant of the readers.
MetricsInv ==
  /\ asker = [a \in Askers |-> asker[a]] /\ flight = [a \in Askers |-> flight[a]]
  /\ inflight \in [CacheKeys -> Askers \cup {Nobody}]
  /\ cache \in [CacheKeys -> {NoEntry} \cup Entry]
  /\ moment \in Moments /\ asks \in 0 .. MaxAsks /\ promTrouble \in 0 .. MaxPromTrouble
  /\ answered \in [newest : [CacheKeys -> InstanceMetrics], back : {FALSE}]
  /\ \A a \in Askers : AskerOK(a) /\ FlightOK(a) /\ HeardOK(a)
  /\ \A key \in CacheKeys : KeyTaken(key) /\ NewestOK(key)

\* The invariant is more than the property.
LEMMA MetricsInvHolds == MetricsInv => MetricsHold
<1> SUFFICES ASSUME MetricsInv PROVE MetricsHold
  OBVIOUS
<1>1. MetricsTypeOK
  BY DEF MetricsInv, MetricsTypeOK, AskerOK, NewestOK
<1>2. NobodyIsForgotten
  BY DEF MetricsInv, NobodyIsForgotten, AskerOK, KeyTaken
<1>3. MetricsNeverGoBack
  BY DEF MetricsInv, MetricsNeverGoBack
<1>4. QED
  BY <1>1, <1>2, <1>3 DEF MetricsHold

\* At first nobody asks.
LEMMA MetricsInitOK == MetricsInit => MetricsInv
<1> SUFFICES ASSUME MetricsInit PROVE MetricsInv
  OBVIOUS
<1>1. PICK zero : zero = [q \in Queries |-> 0]
  OBVIOUS
<1>2. moment = 0 /\ 0 \in Moments
  BY MonitoringAssumption DEF MetricsInit, Moments
<1>3. zero \in InstanceMetrics /\ \A q \in Queries : zero[q] <= moment
  BY <1>1, <1>2 DEF InstanceMetrics
<1>4. answered = [newest |-> [key \in CacheKeys |-> zero], back |-> FALSE]
  BY <1>1 DEF MetricsInit
<1>5. \A key \in CacheKeys : answered.newest[key] = zero /\ cache[key] = NoEntry
        /\ inflight[key] = Nobody
  BY <1>4 DEF MetricsInit
<1>6. \A key \in CacheKeys : KeyTaken(key) /\ NewestOK(key)
  BY <1>3, <1>5 DEF KeyTaken, NewestOK
<1>7. \A a \in Askers : AskerOK(a) /\ FlightOK(a) /\ HeardOK(a)
  BY DEF MetricsInit, AskerOK, FlightOK, HeardOK, NoFlight
<1>8. asker = [a \in Askers |-> asker[a]] 
  BY DEF MetricsInit
<1>9. flight = [a \in Askers |-> flight[a]]
  BY DEF MetricsInit
<1>10. /\ inflight \in [CacheKeys -> Askers \cup {Nobody}]
       /\ cache \in [CacheKeys -> {NoEntry} \cup Entry]
  BY DEF MetricsInit
<1>11. answered \in [newest : [CacheKeys -> InstanceMetrics], back : {FALSE}]
  BY <1>3, <1>4
<1>12. asks \in 0 .. MaxAsks /\ promTrouble \in 0 .. MaxPromTrouble
  BY MonitoringAssumption DEF MetricsInit
<1>13. QED
  BY <1>2, <1>6, <1>7, <1>8, <1>9, <1>10, <1>11, <1>12 DEF MetricsInv

\* What was given last is no older than what was given before.
LEMMA GivenNewer ==
  ASSUME answered \in [newest : [CacheKeys -> InstanceMetrics], back : {FALSE}],
         NEW key \in CacheKeys, NEW value \in InstanceMetrics,
         \A q \in Queries : answered.newest[key][q] <= value[q], Given(key, value)
  PROVE  /\ answered' \in [newest : [CacheKeys -> InstanceMetrics], back : {FALSE}]
         /\ answered'.newest = [answered.newest EXCEPT ![key] = value]
<1>1. PICK newest \in [CacheKeys -> InstanceMetrics] : answered = [newest |-> newest, back |-> FALSE]
  OBVIOUS
<1>2. PICK older : older = \E q \in Queries : value[q] < newest[key][q]
  OBVIOUS
<1>3. \A q \in Queries : newest[key][q] \in Nat /\ value[q] \in Nat /\ newest[key][q] <= value[q]
  BY <1>1 DEF InstanceMetrics, Moments
<1>4. ~\E q \in Queries : value[q] < newest[key][q]
  BY <1>3
<1>5. answered' = [newest |-> [newest EXCEPT ![key] = value], back |-> FALSE]
  BY <1>1, <1>4 DEF Given
<1>6. QED
  BY <1>1, <1>5

\* A request is answered from the cache, waits for a batch, or starts one.
LEMMA FetchStep ==
  ASSUME MetricsInv, NEW a \in Askers, NEW key \in CacheKeys, fetch_for_instances(a, key)
  PROVE  MetricsInv'
<1>1. UNCHANGED <<cache, strays, moment, promTrouble>> /\ asks' \in 0 .. MaxAsks /\ asker[a] = Aside
  BY MonitoringAssumption DEF fetch_for_instances, MetricsInv
<1>2. CASE _cache_get(key) /\ Given(key, cache[key].value) /\ UNCHANGED <<asker, flight, inflight>>
  <2>1. PICK value : value = answered.newest[key]
    OBVIOUS
  <2>2. cache[key].value = value /\ value \in InstanceMetrics
    BY <1>2, <2>1 DEF MetricsInv, NewestOK, _cache_get
  <2>3. \A q \in Queries : answered.newest[key][q] <= value[q]
    BY <2>1, <2>2 DEF InstanceMetrics, Moments
  <2>4. Given(key, value)
    BY <1>2, <2>2
  <2>5. /\ answered' \in [newest : [CacheKeys -> InstanceMetrics], back : {FALSE}]
        /\ answered'.newest = [answered.newest EXCEPT ![key] = value]
    BY <2>2, <2>3, <2>4, GivenNewer DEF MetricsInv
  <2>6. answered'.newest = answered.newest
    BY <2>1, <2>5 DEF MetricsInv
  <2>7. \A b \in Askers : AskerOK(b)' /\ FlightOK(b)' /\ HeardOK(b)'
    BY <1>1, <1>2, <2>6 DEF MetricsInv, AskerOK, FlightOK, HeardOK
  <2>8. \A k \in CacheKeys : KeyTaken(k)' /\ NewestOK(k)'
    BY <1>1, <1>2, <2>6 DEF MetricsInv, KeyTaken, NewestOK
  <2>9. QED
    BY <1>1, <1>2, <2>5, <2>7, <2>8 DEF MetricsInv
<1>3. CASE /\ existing(key) # Nobody
           /\ asker' = [asker EXCEPT ![a] = [at |-> "waits", key |-> key, on |-> existing(key)]]
           /\ UNCHANGED <<flight, inflight, answered>>
  <2>1. PICK c \in Askers : c = inflight[key] /\ flight[c] # NoFlight /\ flight[c].key = key
    BY <1>3 DEF existing, MetricsInv, KeyTaken
  <2>2. asker' = [b \in Askers |-> IF b = a THEN [at |-> "waits", key |-> key, on |-> c] ELSE asker[b]]
    BY <1>3, <2>1 DEF existing, MetricsInv
  <2>3. flight[a] = NoFlight
    BY <1>1 DEF MetricsInv, FlightOK
  <2>4. AskerOK(a)'
    <3>1. asker'[a] = [at |-> "waits", key |-> key, on |-> c]
      BY <2>2
    <3>2. QED
      BY <1>3, <2>1, <3>1 DEF AskerOK, Aside
  <2>5. \A b \in Askers : b # a => AskerOK(b)'
    BY <1>3, <2>2 DEF MetricsInv, AskerOK
  <2>6. \A b \in Askers : FlightOK(b)' /\ HeardOK(b)'
    BY <1>1, <1>3, <2>2, <2>3 DEF MetricsInv, FlightOK, HeardOK
  <2>7. \A k \in CacheKeys : KeyTaken(k)' /\ NewestOK(k)'
    BY <1>1, <1>3 DEF MetricsInv, KeyTaken, NewestOK
  <2>8. asker' = [b \in Askers |-> asker'[b]]
    BY <2>2
  <2>9. QED
    BY <1>1, <1>3, <2>4, <2>5, <2>6, <2>7, <2>8 DEF MetricsInv
<1>4. CASE /\ existing(key) = Nobody
           /\ asker' = [asker EXCEPT ![a] = [at |-> "owns", key |-> key, on |-> a]]
           /\ flight' = [flight EXCEPT ![a] = _execute_batch(key)]
           /\ inflight' = [inflight EXCEPT ![key] = a]
           /\ UNCHANGED answered
  <2>1. PICK batch : batch = _execute_batch(key)
    OBVIOUS
  <2>2. batch \in BatchFlight /\ batch.at = "batch" /\ batch.key = key
        /\ batch # NoFlight /\ \A q \in Queries : batch.are[q] # "done"
    <3>1. 0 \in Moments
      BY MonitoringAssumption DEF Moments
    <3>2. QED
      BY <2>1, <3>1 DEF _execute_batch, BatchFlight, NoFlight
  <2>3. asker' = [b \in Askers |-> IF b = a THEN [at |-> "owns", key |-> key, on |-> a] ELSE asker[b]]
    BY <1>4 DEF MetricsInv
  <2>4. flight' = [b \in Askers |-> IF b = a THEN batch ELSE flight[b]]
    BY <1>4, <2>1 DEF MetricsInv
  <2>5. inflight' = [k \in CacheKeys |-> IF k = key THEN a ELSE inflight[k]]
    BY <1>4 DEF MetricsInv
  <2>6. flight[a] = NoFlight /\ inflight[key] = Nobody
    BY <1>1, <1>4 DEF MetricsInv, FlightOK, existing
  <2>7. asker'[a] # Aside /\ asker'[a].on = a /\ asker'[a].key = key /\ flight'[a] = batch
        /\ inflight'[key] = a
    BY <2>3, <2>4, <2>5 DEF Aside
  <2>8. AskerOK(a)' /\ FlightOK(a)' /\ HeardOK(a)'
    BY <2>2, <2>7 DEF AskerOK, FlightOK, HeardOK
  <2>9. ASSUME NEW b \in Askers, b # a PROVE AskerOK(b)' /\ FlightOK(b)' /\ HeardOK(b)'
    <3>1. asker'[b] = asker[b] /\ flight'[b] = flight[b]
      BY <2>3, <2>4, <2>9
    <3>2. AskerOK(b)'
      BY <2>4, <2>6, <3>1 DEF MetricsInv, AskerOK
    <3>3. Nobody \notin Askers
      BY MonitoringAssumption DEF Nobody
    <3>4. FlightOK(b)'
      <4>1. CASE flight[b] = NoFlight
        BY <3>1, <4>1 DEF FlightOK
      <4>2. CASE flight[b] # NoFlight
        <5>1. /\ flight[b] \in BatchFlight \cup FailedFlight /\ inflight[flight[b].key] = b
              /\ asker[b] # Aside /\ asker[b].on = b
          BY <4>2 DEF MetricsInv, FlightOK
        <5>2. flight[b].key \in CacheKeys /\ flight[b].key # key
          BY <2>6, <3>3, <5>1 DEF BatchFlight, FailedFlight
        <5>3. inflight'[flight[b].key] = b
          BY <2>5, <5>1, <5>2
        <5>4. QED
          BY <3>1, <5>1, <5>3 DEF FlightOK
      <4>3. QED
        BY <4>1, <4>2
    <3>5. HeardOK(b)'
      BY <1>1, <1>4, <3>1 DEF MetricsInv, HeardOK
    <3>6. QED
      BY <3>2, <3>4, <3>5
  <2>10. \A k \in CacheKeys : KeyTaken(k)'
    BY <2>2, <2>4, <2>5, <2>6, <2>7 DEF MetricsInv, KeyTaken
  <2>11. \A k \in CacheKeys : NewestOK(k)'
    BY <1>1, <1>4 DEF MetricsInv, NewestOK
  <2>12. asker' = [b \in Askers |-> asker'[b]] /\ flight' = [b \in Askers |-> flight'[b]]
    BY <2>3, <2>4
  <2>13. inflight' \in [CacheKeys -> Askers \cup {Nobody}]
    BY <2>5 DEF MetricsInv
  <2>14. QED
    BY <1>1, <1>4, <2>8, <2>9, <2>10, <2>11, <2>12, <2>13 DEF MetricsInv
<1>5. QED
  BY <1>2, <1>3, <1>4 DEF fetch_for_instances

\* A batch moves on: its key and its owner stay.
LEMMA BatchMoves ==
  ASSUME MetricsInv, NEW a \in Askers, flight[a] # NoFlight,
         NEW batch \in BatchFlight \cup FailedFlight, batch.key = flight[a].key,
         flight' = [flight EXCEPT ![a] = batch],
         batch.at = "batch" => \A q \in Queries : batch.are[q] = "done" =>
           answered.newest[batch.key][q] <= batch.got[q] /\ batch.got[q] <= moment,
         UNCHANGED <<asker, inflight, cache, moment, asks, answered>>,
         promTrouble' \in 0 .. MaxPromTrouble
  PROVE  MetricsInv'
<1>1. flight' = [b \in Askers |-> IF b = a THEN batch ELSE flight[b]]
  BY DEF MetricsInv
<1>2. batch # NoFlight
  BY DEF BatchFlight, FailedFlight, NoFlight
<1>3. flight'[a] = batch /\ \A b \in Askers : b # a => flight'[b] = flight[b]
  BY <1>1
<1>4. \A b \in Askers : AskerOK(b)'
  BY <1>2, <1>3 DEF MetricsInv, AskerOK
<1>5. \A b \in Askers : FlightOK(b)'
  BY <1>2, <1>3 DEF MetricsInv, FlightOK
<1>6. \A b \in Askers : HeardOK(b)'
  BY <1>3 DEF MetricsInv, HeardOK
<1>7. \A key \in CacheKeys : KeyTaken(key)' /\ NewestOK(key)'
  BY <1>2, <1>3 DEF MetricsInv, KeyTaken, NewestOK
<1>8. flight' = [b \in Askers |-> flight'[b]]
  BY <1>1
<1>9. QED
  BY <1>4, <1>5, <1>6, <1>7, <1>8 DEF MetricsInv

\* A query gets the semaphore.
LEMMA GuardedQueryStep ==
  ASSUME MetricsInv, NEW a \in Askers, NEW q \in Queries, _guarded_query(a, q)
  PROVE  MetricsInv'
<1>1. PICK f : f = flight[a]
  OBVIOUS
<1>2. f \in BatchFlight /\ f # NoFlight
  BY <1>1 DEF _guarded_query, MetricsInv, FlightOK, NoFlight, FailedFlight
<1>3. PICK batch : batch = [f EXCEPT !.are[q] = "running"]
  OBVIOUS
<1>4. batch \in BatchFlight /\ batch.key = f.key /\ batch.got = f.got
      /\ \A p \in Queries : batch.are[p] = "done" => f.are[p] = "done"
  BY <1>2, <1>3 DEF BatchFlight
<1>5. f.at = "batch"
  BY <1>2 DEF BatchFlight
<1>6. \A p \in Queries : batch.are[p] = "done" =>
        answered.newest[batch.key][p] <= batch.got[p] /\ batch.got[p] <= moment
  BY <1>1, <1>4, <1>5 DEF MetricsInv, HeardOK
<1>7. flight' = [flight EXCEPT ![a] = batch]
  BY <1>1, <1>3 DEF _guarded_query
<1>8. UNCHANGED <<asker, inflight, cache, moment, asks, answered>> /\ promTrouble' \in 0 .. MaxPromTrouble
  BY DEF _guarded_query, MetricsInv
<1>9. QED
  BY <1>1, <1>2, <1>4, <1>6, <1>7, <1>8, BatchMoves

\* A query is answered, of this moment.
LEMMA QueryStep ==
  ASSUME MetricsInv, NEW a \in Askers, NEW q \in Queries, query(a, q)
  PROVE  MetricsInv'
<1>1. PICK f : f = flight[a]
  OBVIOUS
<1>2. f.at = "batch" /\ flight' = [flight EXCEPT ![a].are[q] = "done", ![a].got[q] = moment]
  BY <1>1 DEF query, Running
<1>3. f \in BatchFlight /\ f # NoFlight /\ moment \in Moments
  BY <1>1, <1>2 DEF MetricsInv, FlightOK, NoFlight, FailedFlight
<1>4. PICK are : are = [f.are EXCEPT ![q] = "done"]
  OBVIOUS
<1>5. PICK got : got = [f.got EXCEPT ![q] = moment]
  OBVIOUS
<1>6. PICK batch : batch = [f EXCEPT !.are = are, !.got = got]
  OBVIOUS
<1>7. are \in [Queries -> {"queued", "running", "done"}] /\ got \in [Queries -> Moments]
  BY <1>3, <1>4, <1>5 DEF BatchFlight
<1>8. batch \in BatchFlight /\ batch.key = f.key /\ batch.are = are /\ batch.got = got
      /\ f.key \in CacheKeys
  BY <1>3, <1>6, <1>7 DEF BatchFlight
<1>9. \A p \in Queries : p # q => are[p] = f.are[p] /\ got[p] = f.got[p]
  BY <1>3, <1>4, <1>5 DEF BatchFlight
<1>10. got[q] = moment
  BY <1>3, <1>5 DEF BatchFlight
<1>11. ASSUME NEW p \in Queries, batch.are[p] = "done"
       PROVE  answered.newest[batch.key][p] <= batch.got[p] /\ batch.got[p] <= moment
  <2>1. CASE p = q
    <3>1. answered.newest[f.key][p] <= moment
      BY <1>8 DEF MetricsInv, NewestOK
    <3>2. moment <= moment
      BY <1>3 DEF Moments
    <3>3. QED
      BY <1>8, <1>10, <2>1, <3>1, <3>2
  <2>2. CASE p # q
    BY <1>1, <1>2, <1>8, <1>9, <1>11, <2>2 DEF MetricsInv, HeardOK
  <2>3. QED
    BY <2>1, <2>2
<1>12. flight' = [flight EXCEPT ![a] = batch]
  <2>1. PICK first : first = [f EXCEPT !.are = are]
    OBVIOUS
  <2>2. first.got = f.got /\ batch = [first EXCEPT !.got = got]
    BY <1>3, <1>6, <2>1 DEF BatchFlight
  <2>3. PICK started : started = [flight EXCEPT ![a] = first]
    OBVIOUS
  <2>4. started = [flight EXCEPT ![a].are[q] = "done"]
    BY <1>1, <1>4, <2>1, <2>3
  <2>5. flight' = [started EXCEPT ![a].got[q] = moment]
    BY <1>2, <2>4
  <2>6. started[a] = first
    BY <2>3 DEF MetricsInv
  <2>7. flight' = [started EXCEPT ![a] = batch]
    BY <1>5, <2>2, <2>5, <2>6
  <2>8. QED
    BY <2>3, <2>7 DEF MetricsInv
<1>13. UNCHANGED <<asker, inflight, cache, moment, asks, answered>> /\ promTrouble' \in 0 .. MaxPromTrouble
  BY DEF query, MetricsInv
<1>14. QED
  BY <1>1, <1>3, <1>8, <1>11, <1>12, <1>13, BatchMoves

\* A query has no answer: the batch has failed, and its owner is still to land.
LEMMA UnavailableStep ==
  ASSUME MetricsInv, NEW a \in Askers, NEW q \in Queries, PrometheusUnavailable(a, q)
  PROVE  MetricsInv'
<1>1. PICK f : f = flight[a]
  OBVIOUS
<1>2. f.at = "batch" /\ flight' = [flight EXCEPT ![a] = [at |-> "failed", key |-> @.key]]
  BY <1>1 DEF PrometheusUnavailable, Running
<1>3. f \in BatchFlight /\ f # NoFlight
  BY <1>1, <1>2 DEF MetricsInv, FlightOK, NoFlight, FailedFlight
<1>4. PICK failed : failed = [at |-> "failed", key |-> f.key]
  OBVIOUS
<1>5. failed \in FailedFlight /\ failed.key = f.key /\ failed.at # "batch"
  BY <1>3, <1>4 DEF BatchFlight, FailedFlight
<1>6. flight' = [flight EXCEPT ![a] = failed]
  BY <1>1, <1>2, <1>4 DEF MetricsInv
<1>7. UNCHANGED <<asker, inflight, cache, moment, asks, answered>> /\ promTrouble' \in 0 .. MaxPromTrouble
  BY MonitoringAssumption DEF PrometheusUnavailable, MetricsInv
<1>8. QED
  BY <1>1, <1>3, <1>5, <1>6, <1>7, BatchMoves

\* The owner lands: its key is free, and nobody waits for it any more.
LEMMA LandStep ==
  ASSUME MetricsInv, NEW a \in Askers, flight[a] # NoFlight, Land(a)
  PROVE  /\ \A b \in Askers : AskerOK(b)' /\ FlightOK(b)'
         /\ \A key \in CacheKeys : KeyTaken(key)'
         /\ asker' = [b \in Askers |-> asker'[b]] /\ flight' = [b \in Askers |-> flight'[b]]
         /\ inflight' \in [CacheKeys -> Askers \cup {Nobody}]
         /\ \A b \in Askers : flight'[b] = NoFlight
              \/ (b # a /\ flight'[b] = flight[b] /\ flight[b].key # flight[a].key)
<1>1. PICK free : free = flight[a].key
  OBVIOUS
<1>2. free \in CacheKeys /\ inflight[free] = a
  BY <1>1 DEF MetricsInv, FlightOK, BatchFlight, FailedFlight
<1>3. flight' = [b \in Askers |-> IF b = a THEN NoFlight ELSE flight[b]]
  BY DEF Land, MetricsInv
<1>4. inflight' = [k \in CacheKeys |-> IF k = free THEN Nobody ELSE inflight[k]]
  BY <1>1 DEF Land, MetricsInv
<1>5. asker' = [b \in Askers |-> IF asker[b] # Aside /\ asker[b].on = a THEN Aside ELSE asker[b]]
  BY DEF Land
<1>6. ASSUME NEW b \in Askers PROVE AskerOK(b)'
  <2>1. CASE asker[b] = Aside
    BY <1>5, <2>1 DEF AskerOK
  <2>2. CASE asker[b] # Aside /\ asker[b].on = a
    BY <1>5, <2>2 DEF AskerOK
  <2>3. CASE asker[b] # Aside /\ asker[b].on # a
    <3>1. asker'[b] = asker[b]
      BY <1>5, <2>3
    <3>2. /\ asker[b].key \in CacheKeys /\ asker[b].on \in Askers /\ flight[asker[b].on] # NoFlight
          /\ flight[asker[b].on].key = asker[b].key
      BY <2>3 DEF MetricsInv, AskerOK
    <3>3. flight'[asker[b].on] = flight[asker[b].on]
      BY <1>3, <2>3, <3>2
    <3>4. QED
      BY <2>3, <3>1, <3>2, <3>3 DEF AskerOK
  <2>4. QED
    BY <2>1, <2>2, <2>3
<1>7. ASSUME NEW b \in Askers, b # a, flight[b] # NoFlight
      PROVE  /\ flight'[b] = flight[b] /\ flight[b].key # free /\ flight[b].key \in CacheKeys
             /\ inflight'[flight[b].key] = b
  <2>1. flight[b] \in BatchFlight \cup FailedFlight /\ inflight[flight[b].key] = b
    BY <1>7 DEF MetricsInv, FlightOK
  <2>2. flight[b].key \in CacheKeys /\ flight[b].key # free
    BY <1>2, <1>7, <2>1 DEF BatchFlight, FailedFlight
  <2>3. QED
    BY <1>3, <1>4, <1>7, <2>1, <2>2
<1>8. ASSUME NEW b \in Askers PROVE FlightOK(b)'
  <2>1. CASE b = a
    BY <1>3, <2>1 DEF FlightOK
  <2>2. CASE b # a /\ flight[b] = NoFlight
    BY <1>3, <2>2 DEF FlightOK
  <2>3. CASE b # a /\ flight[b] # NoFlight
    <3>1. flight[b] \in BatchFlight \cup FailedFlight /\ asker[b] # Aside /\ asker[b].on = b
      BY <2>3 DEF MetricsInv, FlightOK
    <3>2. asker'[b] = asker[b]
      BY <1>5, <2>3, <3>1
    <3>3. QED
      BY <1>7, <2>3, <3>1, <3>2 DEF FlightOK
  <2>4. QED
    BY <2>1, <2>2, <2>3
<1>9. ASSUME NEW key \in CacheKeys PROVE KeyTaken(key)'
  <2>1. CASE key = free
    BY <1>4, <2>1 DEF KeyTaken
  <2>2. CASE key # free /\ inflight[key] # Nobody
    <3>1. inflight[key] \in Askers /\ flight[inflight[key]] # NoFlight
          /\ flight[inflight[key]].key = key
      BY <2>2 DEF MetricsInv, KeyTaken
    <3>2. inflight[key] # a
      BY <1>1, <2>2, <3>1
    <3>3. QED
      BY <1>3, <1>4, <2>2, <3>1, <3>2 DEF KeyTaken
  <2>3. CASE key # free /\ inflight[key] = Nobody
    BY <1>4, <2>3 DEF KeyTaken
  <2>4. QED
    BY <2>1, <2>2, <2>3
<1>10. asker' = [b \in Askers |-> asker'[b]] 
  BY <1>5
<1>11. flight' = [b \in Askers |-> flight'[b]]
  BY <1>3
<1>12. inflight' \in [CacheKeys -> Askers \cup {Nobody}]
  BY <1>4 DEF MetricsInv
<1>13. \A b \in Askers : flight'[b] = NoFlight
         \/ (b # a /\ flight'[b] = flight[b] /\ flight[b].key # flight[a].key)
  BY <1>1, <1>3, <1>7
<1>14. QED
  BY <1>6, <1>8, <1>9, <1>10, <1>11, <1>12, <1>13

\* The result of a batch is given and kept: it is not older than the last one.
LEMMA SetResultStep ==
  ASSUME MetricsInv, NEW a \in Askers, set_result(a)
  PROVE  MetricsInv'
<1>1. PICK f : f = flight[a]
  OBVIOUS
<1>2. PICK key : key = f.key
  OBVIOUS
<1>3. PICK got : got = f.got
  OBVIOUS
<1>4. f.at = "batch" /\ f \in BatchFlight /\ f # NoFlight /\ \A q \in Queries : f.are[q] = "done"
  BY <1>1 DEF set_result, MetricsInv, FlightOK, NoFlight, FailedFlight
<1>5. key \in CacheKeys /\ got \in InstanceMetrics
  BY <1>2, <1>3, <1>4 DEF BatchFlight, InstanceMetrics
<1>6. \A q \in Queries : answered.newest[key][q] <= got[q] /\ got[q] <= moment
  BY <1>1, <1>2, <1>3, <1>4 DEF MetricsInv, HeardOK
<1>7. PICK entry : entry = [at |-> "entry", stored_at |-> moment, value |-> got]
  OBVIOUS
<1>8. cache' = [cache EXCEPT ![key] = entry] /\ Given(key, got) /\ Land(a)
      /\ UNCHANGED <<strays, moment, asks, promTrouble>>
  BY <1>1, <1>2, <1>3, <1>7 DEF set_result
<1>9. entry \in Entry /\ entry.value = got
  BY <1>5, <1>7 DEF Entry, MetricsInv
<1>10. /\ answered' \in [newest : [CacheKeys -> InstanceMetrics], back : {FALSE}]
       /\ answered'.newest = [answered.newest EXCEPT ![key] = got]
  BY <1>5, <1>6, <1>8, GivenNewer DEF MetricsInv
<1>11. PICK newest \in [CacheKeys -> InstanceMetrics] : newest = answered.newest
  BY DEF MetricsInv
<1>12. answered'.newest[key] = got /\ \A k \in CacheKeys : k # key => answered'.newest[k] = newest[k]
  BY <1>5, <1>10, <1>11
<1>13. cache' \in [CacheKeys -> {NoEntry} \cup Entry] /\ cache'[key] = entry
       /\ \A k \in CacheKeys : k # key => cache'[k] = cache[k]
  BY <1>5, <1>8, <1>9 DEF MetricsInv
<1>14. ASSUME NEW k \in CacheKeys PROVE NewestOK(k)'
  <2>1. CASE k = key
    BY <1>5, <1>6, <1>8, <1>9, <1>12, <1>13, <2>1 DEF NewestOK
  <2>2. CASE k # key
    <3>1. NewestOK(k)
      BY DEF MetricsInv
    <3>2. QED
      BY <1>8, <1>11, <1>12, <1>13, <2>2, <3>1 DEF NewestOK
  <2>3. QED
    BY <2>1, <2>2
<1>15. /\ \A b \in Askers : AskerOK(b)' /\ FlightOK(b)'
       /\ \A k \in CacheKeys : KeyTaken(k)'
       /\ asker' = [b \in Askers |-> asker'[b]] /\ flight' = [b \in Askers |-> flight'[b]]
       /\ inflight' \in [CacheKeys -> Askers \cup {Nobody}]
       /\ \A b \in Askers : flight'[b] = NoFlight
            \/ (b # a /\ flight'[b] = flight[b] /\ flight[b].key # key)
  BY <1>1, <1>2, <1>4, <1>8, LandStep
<1>16. ASSUME NEW b \in Askers PROVE HeardOK(b)'
  <2>1. CASE flight'[b] = NoFlight
    BY <2>1 DEF HeardOK, NoFlight
  <2>2. CASE flight'[b] = flight[b] /\ flight[b].key # key /\ flight[b] # NoFlight
    <3>1. flight[b].key \in CacheKeys
      BY <2>2 DEF MetricsInv, FlightOK, BatchFlight, FailedFlight
    <3>2. answered'.newest[flight[b].key] = answered.newest[flight[b].key]
      BY <1>11, <1>12, <2>2, <3>1
    <3>3. HeardOK(b)
      BY DEF MetricsInv
    <3>4. QED
      BY <1>8, <2>2, <3>2, <3>3 DEF HeardOK
  <2>3. QED
    BY <1>15, <2>1, <2>2
<1>17. moment' \in Moments /\ asks' \in 0 .. MaxAsks /\ promTrouble' \in 0 .. MaxPromTrouble
  BY <1>8 DEF MetricsInv
<1>18. QED
  BY <1>10, <1>13, <1>14, <1>15, <1>16, <1>17 DEF MetricsInv

\* A failed batch lands: nothing is given.
LEMMA SetExceptionStep ==
  ASSUME MetricsInv, NEW a \in Askers, set_exception(a)
  PROVE  MetricsInv'
<1>1. flight[a] # NoFlight /\ Land(a)
      /\ UNCHANGED <<cache, strays, moment, asks, promTrouble, answered>>
  BY DEF set_exception, NoFlight
<1>2. /\ \A b \in Askers : AskerOK(b)' /\ FlightOK(b)'
      /\ \A k \in CacheKeys : KeyTaken(k)'
      /\ asker' = [b \in Askers |-> asker'[b]] /\ flight' = [b \in Askers |-> flight'[b]]
      /\ inflight' \in [CacheKeys -> Askers \cup {Nobody}]
      /\ \A b \in Askers : flight'[b] = NoFlight \/ flight'[b] = flight[b]
  BY <1>1, LandStep
<1>3. \A b \in Askers : HeardOK(b)'
  <2>1. ASSUME NEW b \in Askers, flight'[b] = NoFlight PROVE HeardOK(b)'
    BY <2>1 DEF HeardOK, NoFlight
  <2>2. ASSUME NEW b \in Askers, flight'[b] = flight[b] PROVE HeardOK(b)'
    BY <1>1, <2>2 DEF HeardOK, MetricsInv
  <2>3. QED
    BY <1>2, <2>1, <2>2
<1>4. \A k \in CacheKeys : NewestOK(k)'
  BY <1>1 DEF MetricsInv, NewestOK
<1>5. QED
  BY <1>1, <1>2, <1>3, <1>4 DEF MetricsInv

\* The clock goes on: nothing that was heard is of the future.
LEMMA TickStep == ASSUME MetricsInv, Tick PROVE MetricsInv'
<1>1. moment \in Nat /\ moment' = moment + 1 /\ moment' \in Moments
      /\ UNCHANGED <<asker, flight, inflight, cache, strays, asks, promTrouble, answered>>
  BY MonitoringAssumption DEF Tick, MetricsInv, Moments
<1>2. \A x \in Nat : x <= moment => x <= moment'
  BY <1>1
<1>3. ASSUME NEW a \in Askers PROVE HeardOK(a)'
  <2>1. HeardOK(a)
    BY DEF MetricsInv
  <2>2. flight[a].at = "batch" => flight[a].got \in [Queries -> Moments]
    BY DEF MetricsInv, FlightOK, NoFlight, BatchFlight, FailedFlight
  <2>3. flight[a].at = "batch" => \A q \in Queries : flight[a].got[q] \in Nat
    BY <2>2 DEF Moments
  <2>4. QED
    BY <1>1, <1>2, <2>1, <2>3 DEF HeardOK
<1>4. ASSUME NEW key \in CacheKeys PROVE NewestOK(key)'
  <2>1. NewestOK(key)
    BY DEF MetricsInv
  <2>2. \A q \in Queries : answered.newest[key][q] \in Nat
    BY <2>1 DEF NewestOK, InstanceMetrics, Moments
  <2>3. QED
    BY <1>1, <1>2, <2>1, <2>2 DEF NewestOK
<1>5. \A a \in Askers : AskerOK(a)' /\ FlightOK(a)'
  BY <1>1 DEF MetricsInv, AskerOK, FlightOK
<1>6. \A key \in CacheKeys : KeyTaken(key)'
  BY <1>1 DEF MetricsInv, KeyTaken
<1>7. QED
  BY <1>1, <1>3, <1>4, <1>5, <1>6 DEF MetricsInv

\* Every step of the readers keeps the invariant.
LEMMA MetricsKept == MetricsInv /\ [MetricsNext]_metricsVars => MetricsInv'
<1> SUFFICES ASSUME MetricsInv, [MetricsNext]_metricsVars PROVE MetricsInv'
  OBVIOUS
<1>1. ASSUME UNCHANGED <<asker, flight, inflight, cache, moment, asks, promTrouble, answered>>
      PROVE  MetricsInv'
  BY <1>1 DEF MetricsInv, AskerOK, FlightOK, HeardOK, KeyTaken, NewestOK
<1>2. CASE MetricsStep
  <2>1. ASSUME StartStray \/ EndStray PROVE MetricsInv'
    BY <1>1, <2>1 DEF StartStray, EndStray
  <2>2. QED
    BY <1>2, <2>1, SetResultStep, SetExceptionStep, GuardedQueryStep, QueryStep DEF MetricsStep
<1>3. CASE Tick
  BY <1>3, TickStep
<1>4. CASE \E a \in Askers, key \in CacheKeys : fetch_for_instances(a, key)
  BY <1>4, FetchStep
<1>5. CASE \E a \in Askers, q \in Queries : PrometheusUnavailable(a, q)
  BY <1>5, UnavailableStep
<1>6. CASE UNCHANGED metricsVars
  BY <1>1, <1>6 DEF metricsVars
<1>7. QED
  BY <1>2, <1>3, <1>4, <1>5, <1>6 DEF MetricsNext

\* The readers of metrics.  The notifier: between iterations the chat knows of
\* every server what is stored, unless an iteration spoke and could not store.
\* The requests for metrics: nobody waits for a batch that has landed or that is
\* about another key, no key is taken by a batch that is not there, and nobody
\* is shown metrics older than what was shown for the key before.
THEOREM LoopsReaders == LoopsSpec => []ReadersHold
<1>1. LoopsInit => NotifierInv /\ MetricsInv
  BY NotifierInitOK, MetricsInitOK DEF LoopsInit
<1>2. NotifierInv /\ MetricsInv /\ [LoopsNext]_loopsVars => (NotifierInv /\ MetricsInv)'
  <2>1. [LoopsNext]_loopsVars => [NotifierNext]_notifierVars /\ [MetricsNext]_metricsVars
    BY DEF LoopsNext, loopsVars
  <2>2. QED
    BY <2>1, NotifierStep, MetricsKept
<1>3. NotifierInv /\ MetricsInv => ReadersHold
  BY NotifierInvHolds, MetricsInvHolds DEF ReadersHold
<1>4. QED
  BY <1>1, <1>2, <1>3, PTL DEF LoopsSpec

(***************************************************************************)
(* The sum a page of users shows.                                          *)
(***************************************************************************)

\* The sum is reckoned from the costs of the rows alone, and is a number.
LEMMA CostsOfRows ==
  ASSUME rows \in [SnapUsers -> BackendUserSnapshot]
  PROVE  _aggregate_api_costs \in Nat
<1>1. PICK units : units = [u \in SnapUsers |-> {u} \X (1 .. rows[u].cost)]
  OBVIOUS
<1>2. Range(units) = {{u} \X (1 .. rows[u].cost) : u \in SnapUsers}
  BY <1>1 DEF Range
<1>3. IsFiniteSet(Range(units))
  <2>1. units \in Surjection(SnapUsers, Range(units))
    BY <1>1 DEF Surjection, Range
  <2>2. QED
    BY <2>1, FS_Surjection, SnapshotAssumption
<1>4. ASSUME NEW u \in SnapUsers PROVE IsFiniteSet({u} \X (1 .. rows[u].cost))
  <2>1. rows[u].cost \in Int
    BY DEF BackendUserSnapshot
  <2>2. IsFiniteSet({u})
    BY FS_Singleton
  <2>3. PICK cost \in Int : cost = rows[u].cost
    BY <2>1
  <2>4. IsFiniteSet(1 .. cost)
    <3>1. 1 \in Int
      OBVIOUS
    <3>2. QED
      BY <2>3, <3>1, FS_Interval
  <2>5. QED
    BY <2>2, <2>3, <2>4, FS_Product
<1>5. \A T \in Range(units) : IsFiniteSet(T)
  BY <1>2, <1>4
<1>6. IsFiniteSet(UNION Range(units))
  BY <1>3, <1>5, FS_UNION
<1>7. _aggregate_api_costs = Cardinality(UNION Range(units))
  BY <1>2 DEF _aggregate_api_costs
<1>8. QED
  BY <1>6, <1>7, FS_CardinalityType

\* Rows with the costs they had show the sum they showed.
LEMMA CostsKept ==
  ASSUME \A u \in SnapUsers : rows'[u].cost = rows[u].cost
  PROVE  _aggregate_api_costs' = _aggregate_api_costs
<1>1. {{u} \X (1 .. rows'[u].cost) : u \in SnapUsers} = {{u} \X (1 .. rows[u].cost) : u \in SnapUsers}
  OBVIOUS
<1>2. QED
  BY <1>1 DEF _aggregate_api_costs

\* A source that shows a time, no error and nothing to price, between cycles,
\* shows the sum over its rows.
PageClaim ==
  source.fresh /\ ~source.failed /\ worker = Resting /\ ~cutShort
    => /\ source.done => Unpriced = {}
       /\ source.costs = _aggregate_api_costs
PageInv ==
  /\ touches \subseteq [user : SnapUsers, fp : Nat \X Nat]
  /\ source \in BackendUserSnapshotSource
  /\ sourceSteps \in 0..MaxSourceSteps /\ snapTrouble \in 0..MaxSnapTrouble
  /\ PageClaim

\* The invariants of the list and of the page are more than the property.
LEMMA PageInvHolds == ListingInv /\ PageInv => UsersSnapshotHolds
<1> SUFFICES ASSUME ListingInv, PageInv PROVE UsersSnapshotHolds
  OBVIOUS
<1>1. AtSource \subseteq SnapUsers
  BY DEF ListingInv, SourceInv, AtSource, Range
<1>2. worker.at \in {"rest", "walk", "write", "delete", "stats", "revenue"}
  BY WorkerFields DEF ListingInv, WalkInv
<1>3. SnapshotTypeOK
  BY <1>1, <1>2 DEF ListingInv, SourceInv, RowsInv, PageInv, SnapshotTypeOK
<1>4. PageIsHonest
  BY DEF PageInv, PageClaim, PageIsHonest, _snapshot_at, _snapshot_errors, partial
<1>5. QED
  BY <1>3, <1>4 DEF UsersSnapshotHolds

\* Nothing is claimed at first.
LEMMA PageInit == SnapshotInit => PageInv
BY SnapshotAssumption DEF SnapshotInit, PageInv, PageClaim, BackendUserSnapshotSource

\* A step that leaves the rows' costs, the source and the rest of the worker.
LEMMA PageKept ==
  ASSUME PageInv, UNCHANGED <<source, cutShort>>, worker' = Resting => worker = Resting,
         \A u \in SnapUsers : Listed(u)' = Listed(u) /\ rows'[u].cost = rows[u].cost
  PROVE  PageClaim'
<1>1. _aggregate_api_costs' = _aggregate_api_costs
  BY CostsKept
<1>2. Unpriced' = Unpriced
  BY DEF Unpriced
<1>3. QED
  BY <1>1, <1>2 DEF PageInv, PageClaim

\* What happens at the backend and to the list touches no row.
LEMMA BackendPage ==
  ASSUME ListingInv, PageInv,
         NewUser \/ Upgrade \/ \E u \in SnapUsers : DropUser(u) \/ Spend(u) \/ Grant(u)
  PROVE  PageInv'
<1>1. UNCHANGED <<rows, source, cutShort, snapTrouble>> /\ sourceSteps' \in 0..MaxSourceSteps
  BY SnapshotAssumption
     DEF NewUser, Upgrade, DropUser, Spend, Grant, Happens, steadyVars, PageInv
<1>2. worker' = Resting => worker = Resting
  <2>1. CASE \E u \in SnapUsers : DropUser(u)
    BY <2>1 DEF DropUser, Resting
  <2>2. CASE NewUser \/ Upgrade \/ \E u \in SnapUsers : Spend(u) \/ Grant(u)
    BY <2>2 DEF NewUser, Upgrade, Spend, Grant
  <2>3. QED
    BY <2>1, <2>2
<1>3. PageClaim'
  BY <1>1, <1>2, PageKept DEF Listed
<1>4. touches' \subseteq [user : SnapUsers, fp : Nat \X Nat]
  <2>1. CASE \E u \in SnapUsers : Grant(u)
    <3>1. PICK u \in SnapUsers : Grant(u)
      BY <2>1
    <3>2. /\ u \in AtSource
          /\ usage' = [usage EXCEPT ![u][2] = @ + 1]
          /\ touches' = touches \cup {[user |-> u, fp |-> usage'[u]]}
      BY <3>1 DEF Grant
    <3>3. PICK f : f = <<usage[u][1], usage[u][2] + 1>>
      OBVIOUS
    <3>4. usage[u] \in Nat \X Nat /\ usage[u][1] \in Nat /\ usage[u][2] \in Nat
      BY <3>2, ListedUser DEF ListingInv
    <3>5. [usage[u] EXCEPT ![2] = @ + 1] = f
      BY <3>3, <3>4
    <3>6. usage'[u] = f
      BY <3>2, <3>5 DEF ListingInv, SourceInv
    <3>7. f \in Nat \X Nat
      BY <3>3, <3>4
    <3>8. QED
      BY <3>2, <3>6, <3>7 DEF PageInv
  <2>2. CASE UNCHANGED touches
    BY <2>2 DEF PageInv
  <2>3. QED
    BY <2>1, <2>2 DEF NewUser, Upgrade, DropUser, Spend
<1>5. QED
  BY <1>1, <1>3, <1>4 DEF PageInv

\* A touch writes a fingerprint, never a cost.
LEMMA TouchPage ==
  ASSUME ListingInv, PageInv, NEW t \in touches, _touch_snapshot(t)
  PROVE  PageInv'
<1>1. t.user \in SnapUsers /\ t.fp # UnknownUser
  BY DEF ListingInv, RowsInv
<1>2. UNCHANGED <<worker, source, sourceSteps, snapTrouble, cutShort>> /\ touches' \subseteq touches
  BY DEF _touch_snapshot, steadyVars
<1>3. rows' = rows \/ (Listed(t.user) /\ rows' = [rows EXCEPT ![t.user].fp = t.fp])
  BY DEF _touch_snapshot
<1>4. ASSUME NEW u \in SnapUsers PROVE Listed(u)' = Listed(u) /\ rows'[u].cost = rows[u].cost
  <2>1. CASE rows' = rows \/ u # t.user
    BY <1>1, <1>3, <2>1 DEF Listed, ListingInv, RowsInv
  <2>2. CASE Listed(u) /\ u = t.user /\ rows' = [rows EXCEPT ![u].fp = t.fp]
    <3>1. rows[u] \in BackendUserSnapshot
      BY DEF ListingInv, RowsInv
    <3>2. rows'[u] = [rows[u] EXCEPT !.fp = t.fp]
      BY <2>2 DEF ListingInv, RowsInv
    <3>3. rows'[u].fp = t.fp /\ rows'[u].cost = rows[u].cost
      BY <3>1, <3>2 DEF BackendUserSnapshot
    <3>4. rows'[u] # NoRow
      BY <1>1, <2>2, <3>3 DEF NoRow, UnknownUser
    <3>5. QED
      BY <2>2, <3>3, <3>4 DEF Listed
  <2>3. QED
    BY <1>3, <2>1, <2>2
<1>5. PageClaim'
  BY <1>2, <1>4, PageKept
<1>6. QED
  BY <1>2, <1>5 DEF PageInv

\* A cycle under way claims nothing.
LEMMA UnderWayPage ==
  ASSUME PageInv, worker' # Resting \/ (source' = [source EXCEPT !.failed = TRUE]),
         source' = source \/ source' = [source EXCEPT !.failed = TRUE],
         UNCHANGED <<touches, sourceSteps>>, snapTrouble' \in 0..MaxSnapTrouble
  PROVE  PageInv'
<1>1. source' \in BackendUserSnapshotSource
  BY DEF PageInv, BackendUserSnapshotSource
<1>2. source' = [source EXCEPT !.failed = TRUE] => source'.failed
  BY DEF PageInv, BackendUserSnapshotSource
<1>3. PageClaim'
  BY <1>2 DEF PageClaim
<1>4. QED
  BY <1>1, <1>3 DEF PageInv

\* Every step of the snapshot keeps what the page claims.
LEMMA PageNext == ListingInv /\ PageInv /\ [SnapshotNext]_snapshotVars => PageInv'
<1> SUFFICES ASSUME ListingInv, PageInv, [SnapshotNext]_snapshotVars PROVE PageInv'
  OBVIOUS
<1> USE DEF steadyVars
<1>1. CASE NewUser \/ Upgrade \/ \E u \in SnapUsers : DropUser(u) \/ Spend(u) \/ Grant(u)
  BY <1>1, BackendPage
<1>2. CASE \E t \in touches : _touch_snapshot(t)
  BY <1>2, TouchPage
<1>3. snapTrouble \in 0..MaxSnapTrouble /\ (SnapTrouble => snapTrouble' \in 0..MaxSnapTrouble)
  BY SnapshotAssumption DEF PageInv, SnapTrouble
<1>4. CASE BeginCycle
  BY <1>3, <1>4, UnderWayPage DEF BeginCycle, Resting
<1>5. CASE _walk_users
  <2>1. PICK offset : TakePage(offset)
    BY <1>5 DEF _walk_users
  <2>2. snapTrouble' \in 0..MaxSnapTrouble /\ worker.at = "walk"
    BY <1>3, <1>5 DEF _walk_users
  <2>3. \/ worker' # Resting /\ source' = source
        \/ source' = [source EXCEPT !.failed = TRUE]
    <3>1. worker \in WalkState({"walk", "delete"})
      BY <2>2, WorkerFields DEF ListingInv, WalkInv
    <3>2. [worker EXCEPT !.at = "delete"].at = "delete"
      BY <3>1 DEF WalkState
    <3>3. QED
      BY <2>1, <3>2 DEF TakePage, Stalled, _record_failure, Resting
  <2>4. UNCHANGED <<touches, sourceSteps>>
    BY <2>1 DEF TakePage
  <2>5. QED
    BY <2>2, <2>3, <2>4, UnderWayPage
<1>6. CASE upsert_rows
  BY <1>3, <1>6, UnderWayPage DEF upsert_rows, Resting
<1>7. CASE delete_rows
  BY <1>3, <1>7, UnderWayPage DEF delete_rows, Resting
<1>8. CASE get_stats
  <2>1. worker'.at = "revenue"
    BY <1>8 DEF get_stats
  <2>2. QED
    BY <1>3, <1>8, <2>1, UnderWayPage DEF get_stats, Resting
<1>9. ASSUME NEW u \in SnapUsers, FetchCard(u) PROVE PageInv'
  <2>1. worker \in CardState
    BY <1>9, WorkerFields DEF FetchCard, ListingInv, WalkInv
  <2>2. worker'.at = "revenue"
    BY <1>9, <2>1 DEF FetchCard, CardState
  <2>3. snapTrouble' \in 0..MaxSnapTrouble /\ UNCHANGED <<touches, source, sourceSteps>>
    BY <1>3, <1>9 DEF FetchCard
  <2>4. QED
    BY <2>2, <2>3, UnderWayPage DEF Resting
<1>10. CASE FinishCycle
  <2>1. PICK costs \in Nat : costs = _aggregate_api_costs
    BY CostsOfRows DEF ListingInv, RowsInv
  <2>2. UNCHANGED <<rows, touches, sourceSteps, snapTrouble>>
    BY <1>10 DEF FinishCycle
  <2>3. PICK supported \in {"unknown", "yes", "no"} : supported =
          IF worker.supported = "unknown" THEN source.supported ELSE worker.supported
    <3>1. worker \in CardState
      BY <1>10, WorkerFields DEF FinishCycle, ListingInv, WalkInv
    <3>2. QED
      BY <3>1 DEF CardState, PageInv, BackendUserSnapshotSource
  <2>4. PICK done \in BOOLEAN : done = BackfillDone
    <3>1. worker \in CardState
      BY <1>10, WorkerFields DEF FinishCycle, ListingInv, WalkInv
    <3>2. QED
      BY <3>1 DEF CardState, BackfillDone
  <2>5. source' = [fresh |-> TRUE, failed |-> FALSE, done |-> done, supported |-> supported,
                   costs |-> costs]
    BY <1>10, <2>1, <2>3, <2>4 DEF FinishCycle
  <2>6. source' \in BackendUserSnapshotSource
    BY <2>5 DEF BackendUserSnapshotSource
  <2>7. _aggregate_api_costs' = costs /\ Unpriced' = Unpriced
    BY <2>1, <2>2 DEF _aggregate_api_costs, Unpriced, Listed
  <2>8. source'.done => Unpriced' = {}
    BY <2>4, <2>5, <2>7 DEF BackfillDone
  <2>9. source'.costs = _aggregate_api_costs'
    BY <2>5, <2>7
  <2>10. PageClaim'
    BY <2>8, <2>9 DEF PageClaim
  <2>11. QED
    BY <2>2, <2>6, <2>10 DEF PageInv
<1>11. CASE CycleFails
  BY <1>3, <1>11, UnderWayPage DEF CycleFails, _record_failure
<1>12. CASE CrashWorker
  <2>1. PageClaim'
    BY <1>12 DEF CrashWorker, PageClaim
  <2>2. QED
    BY <1>3, <1>12, <2>1 DEF CrashWorker, PageInv
<1>13. CASE UNCHANGED snapshotVars
  <2>1. PageClaim'
    BY <1>13, PageKept DEF snapshotVars, Listed
  <2>2. QED
    BY <1>13, <2>1 DEF snapshotVars, PageInv
<1>14. QED
  BY <1>1, <1>2, <1>4, <1>5, <1>6, <1>7, <1>8, <1>9, <1>10, <1>11, <1>12, <1>13
     DEF SnapshotNext, WorkerStep

\* A page of users that shows a time, no error and a sum that is not called
\* partial, while no cycle is under way or was cut short, shows the sum over the
\* costs of all its rows, and every row has had its card asked for (_api_costs,
\* _refresh_backend_inner).
THEOREM LoopsSnapshot == LoopsSpec => []SnapshotHolds
<1>1. LoopsInit => ListingInv /\ PageInv
  BY ListingInit, PageInit DEF LoopsInit
<1>2. ListingInv /\ PageInv /\ [LoopsNext]_loopsVars => (ListingInv /\ PageInv)'
  <2>1. [LoopsNext]_loopsVars => [SnapshotNext]_snapshotVars
    BY DEF LoopsNext, loopsVars, snapshotVars
  <2>2. QED
    BY <2>1, ListingNext, PageNext
<1>3. ListingInv /\ PageInv => SnapshotHolds
  BY PageInvHolds DEF SnapshotHolds
<1>4. QED
  BY <1>1, <1>2, <1>3, PTL DEF LoopsSpec
=============================================================================
