-------------------------- MODULE CatalogueProofs --------------------------
(***************************************************************************)
(* What holds of the catalogues for any number of letters, texts, numbers, *)
(* tags, people and chats.  Each part has an invariant of its own; the     *)
(* other parts never touch its state.                                      *)
(***************************************************************************)
EXTENDS MCCatalogues, FiniteSetTheorems, FunctionTheorems, TLAPS

(***************************************************************************)
(* Numbers, their order and finite sets.                                   *)
(***************************************************************************)

\* A set of numbers below a bound that is not empty has a greatest member: else
\* each of its n members had a rank, the number of those not below it, between 2
\* and n, and two of them had the same.
LEMMA GreatestMember ==
  ASSUME NEW bound \in Nat, NEW S \in SUBSET (0 .. bound), S # {}
  PROVE  \E n \in S : \A m \in S : m <= n
<1> DEFINE Above(n) == {m \in S : n <= m}
           size == Cardinality(S)
           rank == [n \in S |-> Cardinality(Above(n))]
<1>1. IsFiniteSet(S) /\ size \in Nat /\ size # 0
  <2>1. 0 \in Int /\ bound \in Int
    OBVIOUS
  <2>2. IsFiniteSet(0 .. bound)
    BY <2>1, FS_Interval
  <2>3. QED
    BY <2>2, FS_Subset, FS_CardinalityType, FS_EmptySet
<1>2. \A n \in S : n \in Int
  OBVIOUS
<1>3. SUFFICES ASSUME \A n \in S : \E m \in S : n < m PROVE FALSE
  BY <1>2
<1>4. ASSUME NEW n \in S, NEW m \in S, n < m
      PROVE  rank[m] < rank[n]
  <2>1. Above(m) \in SUBSET Above(n) /\ n \in Above(n) /\ n \notin Above(m)
    <3>1. \A k \in S : m <= k => n <= k
      BY <1>2, <1>4
    <3>2. n <= n /\ ~(m <= n)
      BY <1>2, <1>4
    <3>3. QED
      BY <3>1, <3>2
  <2>2. IsFiniteSet(Above(n)) /\ IsFiniteSet(Above(m))
    BY <1>1, FS_Subset
  <2>3. Cardinality(Above(m)) <= Cardinality(Above(n)) /\ Cardinality(Above(m)) # Cardinality(Above(n))
    BY <2>1, <2>2, FS_Subset
  <2>4. Cardinality(Above(m)) \in Nat /\ Cardinality(Above(n)) \in Nat
    BY <2>2, FS_CardinalityType
  <2>5. rank[m] = Cardinality(Above(m)) /\ rank[n] = Cardinality(Above(n))
    OBVIOUS
  <2>6. QED
    BY <2>3, <2>4, <2>5
<1>5. ASSUME NEW n \in S PROVE rank[n] \in 1 .. size
  <2>1. Above(n) \in SUBSET S /\ n \in Above(n)
    BY <1>2
  <2>2. IsFiniteSet(Above(n)) /\ Cardinality(Above(n)) <= size
    BY <1>1, <2>1, FS_Subset
  <2>3. Cardinality(Above(n)) \in Nat /\ Cardinality(Above(n)) # 0
    BY <2>1, <2>2, FS_CardinalityType, FS_EmptySet
  <2>4. rank[n] = Cardinality(Above(n))
    OBVIOUS
  <2>5. QED
    BY <1>1, <2>2, <2>3, <2>4
<1>6. rank \in [S -> 2 .. size]
  <2>1. ASSUME NEW n \in S PROVE rank[n] \in 2 .. size
    <3>1. PICK m \in S : n < m
      BY <1>3
    <3>2. rank[m] < rank[n]
      BY <1>4, <3>1
    <3> HIDE DEF rank
    <3>3. QED
      BY <1>1, <1>5, <3>2
  <2>2. QED
    BY <2>1
<1>7. IsFiniteSet(2 .. size) /\ Cardinality(2 .. size) < size
  <2>1. 2 \in Int /\ size \in Int
    BY <1>1
  <2>2. IsFiniteSet(2 .. size) /\ Cardinality(2 .. size) = IF 2 > size THEN 0 ELSE size - 2 + 1
    <3> HIDE DEF size
    <3>1. QED
      BY <2>1, FS_Interval
  <2>3. QED
    <3> HIDE DEF size
    <3>1. QED
      BY <1>1, <2>2
<1>8. PICK n \in S, m \in S : n # m /\ rank[n] = rank[m]
  <2> HIDE DEF rank, size
  <2>1. QED
    BY <1>1, <1>6, <1>7, FS_PigeonHole DEF size
<1>9. n < m \/ m < n
  BY <1>2, <1>8
<1>10. rank[n] \in Int /\ rank[m] \in Int
  BY <1>1, <1>5
<1>11. QED
  <2> HIDE DEF rank
  <2>1. QED
    BY <1>4, <1>8, <1>9, <1>10

\* The numbers from 1 to k are k.
LEMMA CountOfInterval ==
  ASSUME NEW k \in Nat
  PROVE  IsFiniteSet(1 .. k) /\ Cardinality(1 .. k) = k
<1>1. 1 \in Int /\ k \in Int
  OBVIOUS
<1>2. QED
  BY <1>1, FS_Interval

\* A finite set can be written down in an order without repetition.
LEMMA OrderExists ==
  ASSUME NEW S, IsFiniteSet(S)
  PROVE  \E f \in [1 .. Cardinality(S) -> S] :
           \A i, j \in 1 .. Cardinality(S) : i # j => f[i] # f[j]
<1>1. PICK n \in Nat : ExistsBijection(1 .. n, S)
  BY FS_NatBijection
<1>2. PICK f \in Bijection(1 .. n, S) : TRUE
  BY <1>1 DEF ExistsBijection
<1>3. Cardinality(S) = n
  <2>1. IsFiniteSet(1 .. n) /\ Cardinality(1 .. n) = n
    BY CountOfInterval
  <2>2. QED
    BY <1>1, <2>1, FS_Bijection
<1>4. QED
  BY <1>2, <1>3 DEF Bijection, Injection, IsInjective

(***************************************************************************)
(* Numbers of the SMS account, and the feed of texts.                      *)
(***************************************************************************)

\* Rows have the first ids, and a phone one of them.
RegistryOK ==
  /\ numbers \in [Nids -> {Never, Deleted} \cup SmsPhoneNumber] /\ smsTeams \subseteq SmsTeams
  /\ \E k \in 0 .. MaxNumbers : \A n \in Nids : numbers[n] # Never <=> n <= k
  /\ \A n \in Rows : numbers[n].team \in smsTeams \cup {Spare}
  /\ \A n, m \in Rows : numbers[n].phone = numbers[m].phone => n = m

\* A transfer under way goes where its clerk still has the number.
ClerkOK(r) ==
  /\ "at" \in DOMAIN r /\ r.at \in {"free", "write", "reload", "twilio", "listed"}
  /\ r.at = "write" =>
       /\ r.id \in Nids /\ r.op \in {"update", "delete", "transfer"}
       /\ r.op = "transfer" => r.to \in SmsTeams \cup {Spare} /\ sms_matches(r.scope, r.to)
  /\ r.at = "listed" => r.found \subseteq Phones

ClerksOK == clerk = [c \in SmsClerks |-> clerk[c]] /\ \A c \in SmsClerks : ClerkOK(clerk[c])

Text == [at : 0 .. MaxTexts, to : Phones]

TextsOK ==
  /\ texts \in [Tids -> {Never} \cup Text]
  /\ \E k \in 0 .. MaxTexts : \A x \in Tids : texts[x] # Never <=> x <= k

ScopeShape ==
  [sees_all_teams : BOOLEAN, team_ids : SUBSET SmsTeams, includes_unassigned : BOOLEAN]

ReaderShape ==
  [at : {"open", "read"}, scope : ScopeShape, filter : SmsFilters,
   cursor : {Unused} \cup [at : 0 .. MaxTexts, id : Tids], seen : SUBSET Tids,
   repeated : {FALSE}, owed : SUBSET Tids]

\* A text is past a cursor.
PastCursor(x, c) ==
  c # Unused /\ ~(texts[x].at < c.at \/ (texts[x].at = c.at /\ x < c.id))

\* What the reader is owed he has seen, or a page to come will show; what he has
\* seen none will.
WalkOK ==
  /\ \A x \in reader.owed : x \in reader.seen \/
       (reader.at = "open" /\ x \in list_inbound(reader.scope, reader.filter, reader.cursor))
  /\ \A x \in reader.seen : x \in Texts /\ PastCursor(x, reader.cursor)

ReaderOK == reader = Unused \/ (reader \in ReaderShape /\ WalkOK)

\* The inductive invariant of the numbers.
NumbersInv == RegistryOK /\ ClerksOK /\ TextsOK /\ ReaderOK

\* A scope names teams that exist.
LEMMA ScopesShape ==
  ASSUME NEW teams \in SUBSET SmsTeams, NEW s \in SmsScope(teams)
  PROVE  s \in ScopeShape
<1>1. CASE s \in {[sees_all_teams |-> TRUE, team_ids |-> {}, includes_unassigned |-> TRUE]}
  <2>1. PICK nothing \in SUBSET SmsTeams : nothing = {}
    OBVIOUS
  <2>2. s = [sees_all_teams |-> TRUE, team_ids |-> nothing, includes_unassigned |-> TRUE]
    BY <1>1, <2>1
  <2>3. QED
    BY <2>2 DEF ScopeShape
<1>2. CASE s \in [sees_all_teams : {FALSE}, team_ids : {{}} \cup {{t} : t \in teams},
                 includes_unassigned : BOOLEAN]
  <2>1. s.team_ids \in SUBSET SmsTeams
    <3>1. s.team_ids = {} \/ \E t \in teams : s.team_ids = {t}
      BY <1>2
    <3>2. QED
      BY <3>1
  <2>2. s = [sees_all_teams |-> s.sees_all_teams, team_ids |-> s.team_ids,
             includes_unassigned |-> s.includes_unassigned]
        /\ s.sees_all_teams \in BOOLEAN /\ s.includes_unassigned \in BOOLEAN
    BY <1>2
  <2>3. QED
    BY <2>1, <2>2 DEF ScopeShape
<1>3. QED
  BY <1>1, <1>2 DEF SmsScope

\* Somebody's list is the rows he may change.
LEMMA ListIsReach ==
  ASSUME RegistryOK, NEW s \in ScopeShape
  PROVE  list_numbers(s) = {n \in Rows : sms_matches(s, numbers[n].team)}
<1>1. Spare \notin s.team_ids
  BY SmsNumbersAssumption DEF ScopeShape
<1>2. list_in_scope(s) = {n \in Rows : \/ numbers[n].team \in s.team_ids
                                       \/ s.includes_unassigned /\ numbers[n].team = Spare}
  BY DEF list_in_scope
<1>3. CASE s.sees_all_teams
  BY <1>3 DEF list_numbers, sms_matches
<1>4. CASE ~s.sees_all_teams /\ is_empty(s)
  BY <1>4 DEF list_numbers, sms_matches, is_empty
<1>5. CASE ~s.sees_all_teams /\ ~is_empty(s)
  BY <1>1, <1>2, <1>5 DEF list_numbers, sms_matches
<1>6. QED
  BY <1>3, <1>4, <1>5

\* The filter is one of four.
LEMMA FilterKinds ==
  ASSUME NEW f \in SmsFilters
  PROVE  /\ f.by \in {"none", "spare", "number", "team"}
         /\ Filtered(f) \subseteq Rows
         /\ f.by = "none" => Filtered(f) = Rows
<1>1. f.by \in {"none", "spare", "number", "team"}
  BY DEF SmsFilters
<1>2. QED
  BY <1>1 DEF Filtered

\* The invariant is more than what is said of numbers.
LEMMA NumbersInvHolds == NumbersInv => SmsNumbersHold
<1> SUFFICES ASSUME NumbersInv PROVE SmsNumbersHold
  OBVIOUS
<1>1. SmsNumbersTypeOK
  <2>1. \A n \in Rows : numbers[n] \in SmsPhoneNumber
    <3>1. \A n \in Nids : numbers[n].at = "row" => numbers[n] \in SmsPhoneNumber
      BY DEF NumbersInv, RegistryOK, Never, Deleted
    <3>2. QED
      BY <3>1 DEF Rows
  <2>2. Texts = 1 .. Cardinality(Texts)
    <3>1. PICK k \in 0 .. MaxTexts : \A x \in Tids : texts[x] # Never <=> x <= k
      BY DEF NumbersInv, TextsOK
    <3>2. Texts = 1 .. k /\ k \in Nat
      BY <3>1, SmsNumbersAssumption DEF Texts, Tids
    <3>3. QED
      BY <3>2, CountOfInterval
  <2>3. QED
    BY <2>1, <2>2 DEF NumbersInv, RegistryOK, ClerksOK, ClerkOK, SmsNumbersTypeOK
<1>2. NumberViewsAgree
  <2>1. SUFFICES ASSUME NEW s \in SmsScope(smsTeams)
                 PROVE  /\ \A n \in Nids : n \in list_numbers(s) <=> _require_mutation_scope(s, n)
                        /\ \A f \in SmsFilters : \A n \in Rows :
                             numbers[n].phone \in _resolve_visible_phones(s, f)
                               <=> n \in list_numbers(s) \cap Filtered(f)
    BY DEF NumberViewsAgree
  <2>2. RegistryOK /\ s \in ScopeShape
    BY ScopesShape DEF NumbersInv, RegistryOK
  <2>3. list_numbers(s) = {n \in Rows : sms_matches(s, numbers[n].team)}
    BY <2>2, ListIsReach
  <2>4. ASSUME NEW f \in SmsFilters, NEW n \in Rows
        PROVE  numbers[n].phone \in _resolve_visible_phones(s, f)
                 <=> n \in list_numbers(s) \cap Filtered(f)
    <3>1. CASE s.sees_all_teams /\ f.by = "none"
      <4>1. numbers[n].phone \in Phones
        BY <1>1 DEF SmsNumbersTypeOK, SmsPhoneNumber
      <4>2. QED
        BY <2>3, <3>1, <4>1, FilterKinds DEF _resolve_visible_phones, sms_matches
    <3>2. CASE ~(s.sees_all_teams /\ f.by = "none")
      <4>1. \A m \in Rows : numbers[n].phone = numbers[m].phone => n = m
        BY <2>2 DEF RegistryOK
      <4>2. list_numbers(s) \subseteq Rows /\ Filtered(f) \subseteq Rows
        BY <2>3, FilterKinds
      <4>3. _resolve_visible_phones(s, f) = PhonesOf(list_numbers(s)) \cap PhonesOf(Filtered(f))
        BY <3>2 DEF _resolve_visible_phones
      <4>4. QED
        BY <4>1, <4>2, <4>3 DEF PhonesOf
    <3>3. QED
      BY <3>1, <3>2
  <2>5. \A n \in Nids : n \in list_numbers(s) <=> _require_mutation_scope(s, n)
    BY <2>3 DEF _require_mutation_scope
  <2>6. QED
    BY <2>4, <2>5
<1>3. TextsAreShownOnce
  <2>1. CASE reader = Unused
    BY <2>1 DEF Unused, TextsAreShownOnce
  <2>2. CASE reader \in ReaderShape /\ WalkOK
    <3>1. reader.repeated = FALSE
      BY <2>2 DEF ReaderShape
    <3>2. reader.at = "read" => reader.owed \subseteq reader.seen
      BY <2>2 DEF WalkOK
    <3>3. QED
      BY <3>1, <3>2 DEF TextsAreShownOnce
  <2>3. QED
    BY <2>1, <2>2 DEF NumbersInv, ReaderOK
<1>4. QED
  BY <1>1, <1>2, <1>3 DEF SmsNumbersHold

\* Rows other than some are as they were, and so are the texts there were.
Besides(ns) ==
  /\ \A n \in Rows \ ns : n \in Rows' /\ numbers'[n].phone = numbers[n].phone
                          /\ numbers'[n].team = numbers[n].team
  /\ \A x \in Texts : x \in Texts' /\ texts'[x] = texts[x]

\* A text to a phone whose row is left alone stays in sight.
LEMMA StillShown ==
  ASSUME NEW ns, Besides(ns), NEW s \in ScopeShape, NEW f \in SmsFilters,
         NEW x \in Shown(s, f), texts[x].to \notin PhonesOf(ns)
  PROVE  x \in Shown(s, f)'
<1>1. x \in Texts /\ x \in Texts' /\ texts'[x] = texts[x]
  BY DEF Shown, Besides
<1>2. PICK phone : phone = texts[x].to
  OBVIOUS
<1>3. phone \in _resolve_visible_phones(s, f)
  BY <1>2 DEF Shown
<1>4. CASE s.sees_all_teams /\ f.by = "none"
  BY <1>1, <1>2, <1>3, <1>4 DEF Shown, _resolve_visible_phones
<1>5. CASE ~(s.sees_all_teams /\ f.by = "none")
  <2>1. phone \in PhonesOf(list_numbers(s)) /\ phone \in PhonesOf(Filtered(f))
    BY <1>3, <1>5 DEF _resolve_visible_phones
  <2>2. \A n \in Rows \ ns : n \in Rows' /\ numbers'[n].phone = numbers[n].phone
                             /\ numbers'[n].team = numbers[n].team
    BY DEF Besides
  <2>3. PICK n \in list_numbers(s) : numbers[n].phone = phone
    BY <2>1 DEF PhonesOf
  <2>4. n \in Rows \ ns
    BY <1>2, <2>3 DEF PhonesOf, list_numbers, list_in_scope
  <2>5. n \in list_numbers(s)'
    BY <2>2, <2>3, <2>4 DEF list_numbers, list_in_scope, is_empty
  <2>6. PICK m \in Filtered(f) : numbers[m].phone = phone
    BY <2>1 DEF PhonesOf
  <2>7. m \in Rows \ ns
    BY <1>2, <2>6, FilterKinds DEF PhonesOf
  <2>8. m \in Filtered(f)'
    <3>1. f.by \in {"none", "spare", "number", "team"}
      BY FilterKinds
    <3>2. m \in Rows' /\ numbers'[m].team = numbers[m].team
      BY <2>2, <2>7
    <3>3. CASE f.by = "none"
      BY <3>2, <3>3 DEF Filtered
    <3>4. CASE f.by = "spare"
      BY <2>6, <3>2, <3>4 DEF Filtered
    <3>5. CASE f.by = "number"
      BY <2>6, <3>2, <3>5 DEF Filtered
    <3>6. CASE f.by = "team"
      BY <2>6, <3>2, <3>6 DEF Filtered
    <3>7. QED
      BY <3>1, <3>3, <3>4, <3>5, <3>6
  <2>9. phone \in PhonesOf(list_numbers(s))' /\ phone \in PhonesOf(Filtered(f))'
    BY <2>2, <2>3, <2>4, <2>5, <2>6, <2>7, <2>8 DEF PhonesOf
  <2>10. phone \in _resolve_visible_phones(s, f)'
    BY <1>5, <2>9 DEF _resolve_visible_phones
  <2>11. QED
    BY <1>1, <1>2, <2>10 DEF Shown
<1>6. QED
  BY <1>4, <1>5

\* A reader who is owed nothing of what a step disturbs walks on.
LEMMA ReaderKept ==
  ASSUME ReaderOK, NEW ns, Besides(ns), Disturb(ns) \/ (ns = {} /\ reader' = reader)
  PROVE  ReaderOK'
<1>1. CASE reader = Unused
  BY <1>1 DEF ReaderOK, Disturb, Unused
<1>2. CASE reader \in ReaderShape /\ WalkOK
  <2>1. PICK owed \in SUBSET reader.owed :
          /\ reader' = [reader EXCEPT !.owed = owed]
          /\ reader.at = "open" => \A x \in owed : texts[x].to \notin PhonesOf(ns)
    <3>1. CASE ns = {} /\ reader' = reader
      <4>1. reader = [reader EXCEPT !.owed = reader.owed]
        BY <1>2 DEF ReaderShape
      <4>2. PhonesOf(ns) = {}
        BY <3>1 DEF PhonesOf
      <4>3. QED
        BY <3>1, <4>1, <4>2
    <3>2. CASE Disturb(ns)
      <4>1. CASE reader.at = "open"
        <5>1. reader' = [reader EXCEPT !.owed = {x \in reader.owed : texts[x].to \notin PhonesOf(ns)}]
          BY <3>2, <4>1 DEF Disturb
        <5>2. {x \in reader.owed : texts[x].to \notin PhonesOf(ns)} \in SUBSET reader.owed
          OBVIOUS
        <5>3. QED
          BY <5>1, <5>2
      <4>2. CASE reader.at # "open"
        <5>1. reader' = reader /\ reader = [reader EXCEPT !.owed = reader.owed]
          BY <1>2, <3>2, <4>2 DEF Disturb, ReaderShape
        <5>2. QED
          BY <4>2, <5>1
      <4>3. QED
        BY <4>1, <4>2
    <3>3. QED
      BY <3>1, <3>2
  <2>2. /\ reader' \in ReaderShape /\ reader'.at = reader.at /\ reader'.owed = owed
        /\ reader'.scope = reader.scope /\ reader'.filter = reader.filter
        /\ reader'.cursor = reader.cursor /\ reader'.seen = reader.seen
        /\ reader.scope \in ScopeShape /\ reader.filter \in SmsFilters
    BY <1>2, <2>1 DEF ReaderShape
  <2>3. \A x \in reader.seen : x \in Texts' /\ texts'[x] = texts[x]
    BY <1>2 DEF WalkOK, Besides
  <2>4. \A x \in reader.seen : x \in Texts' /\ (PastCursor(x, reader.cursor))'
    <3>1. \A x \in reader.seen : PastCursor(x, reader.cursor)
      BY <1>2 DEF WalkOK
    <3>2. reader'.cursor = reader.cursor
      BY <2>2
    <3>3. QED
      BY <2>3, <3>1, <3>2 DEF PastCursor
  <2>5. ASSUME NEW x \in owed, x \notin reader.seen
        PROVE  reader.at = "open" /\ (x \in list_inbound(reader.scope, reader.filter, reader.cursor))'
    <3>1. reader.at = "open" /\ x \in list_inbound(reader.scope, reader.filter, reader.cursor)
      BY <1>2, <2>1, <2>5 DEF WalkOK
    <3>2. x \in Shown(reader.scope, reader.filter) /\ texts[x].to \notin PhonesOf(ns)
      BY <2>1, <3>1 DEF list_inbound
    <3>3. \A s \in ScopeShape, f \in SmsFilters : x \in Shown(s, f) => x \in Shown(s, f)'
      BY <3>2, StillShown
    <3>4. texts'[x] = texts[x]
      BY <3>2 DEF Shown, Besides
    <3>5. PICK s \in ScopeShape, f \in SmsFilters : s = reader.scope /\ f = reader.filter
      BY <2>2
    <3>c. PICK c : c = reader.cursor
      OBVIOUS
    <3>6. x \in list_inbound(s, f, c)'
      BY <3>1, <3>2, <3>3, <3>4, <3>5, <3>c DEF list_inbound
    <3>7. QED
      BY <2>2, <3>1, <3>5, <3>c, <3>6
  <2>6. WalkOK'
    <3>1. (\A x \in reader.owed : x \in reader.seen \/
             (reader.at = "open" /\ x \in list_inbound(reader.scope, reader.filter, reader.cursor)))'
      BY <2>2, <2>5
    <3>2. (\A x \in reader.seen : x \in Texts /\ PastCursor(x, reader.cursor))'
      BY <2>2, <2>4
    <3>3. QED
      BY <3>1, <3>2 DEF WalkOK
  <2>7. QED
    BY <2>2, <2>6 DEF ReaderOK
<1>3. QED
  BY <1>1, <1>2 DEF ReaderOK

\* The registry and two texts at first.
LEMMA NumbersInitInv == SmsNumbersInit => NumbersInv
<1> SUFFICES ASSUME SmsNumbersInit PROVE NumbersInv
  OBVIOUS
<1>1. FirstPhone \in Phones /\ FirstSmsTeam \in SmsTeams
  BY SmsNumbersAssumption DEF FirstPhone, FirstSmsTeam
<1>2. PICK row \in SmsPhoneNumber :
        row = [at |-> "row", phone |-> FirstPhone, team |-> FirstSmsTeam,
               label |-> "none", fields |-> "cleared"]
  BY <1>1 DEF SmsPhoneNumber
<1>3. numbers = [n \in Nids |-> IF n = 1 THEN row ELSE Never] /\ smsTeams = SmsTeams
  BY <1>2 DEF SmsNumbersInit
<1>4. row # Never /\ row.team \in SmsTeams /\ row.at = "row" /\ Never.at # "row"
  BY <1>1, <1>2 DEF Never
<1>5. RegistryOK
  <2>1. \A n \in Rows : n = 1 /\ numbers[n] = row
    BY <1>3, <1>4 DEF Rows
  <2>2. PICK k \in 0 .. MaxNumbers : k = IF MaxNumbers = 0 THEN 0 ELSE 1
    BY SmsNumbersAssumption
  <2>3. \A n \in Nids : numbers[n] # Never <=> n <= k
    BY <1>3, <1>4, <2>2, SmsNumbersAssumption DEF Nids
  <2>4. numbers \in [Nids -> {Never, Deleted} \cup SmsPhoneNumber]
    BY <1>3
  <2>5. QED
    BY <1>3, <1>4, <2>1, <2>3, <2>4 DEF RegistryOK
<1>6. ClerksOK
  BY DEF SmsNumbersInit, ClerksOK, ClerkOK, Unused
<1>7. TextsOK
  <2>1. PICK text : text = [at |-> 1, to |-> FirstPhone]
    OBVIOUS
  <2>2. texts = [x \in Tids |-> IF x <= 2 THEN text ELSE Never]
    BY <2>1 DEF SmsNumbersInit
  <2>3. text # Never /\ (MaxTexts # 0 => text \in Text)
    BY <1>1, <2>1, SmsNumbersAssumption DEF Never, Text
  <2>4. PICK k \in 0 .. MaxTexts : k = IF MaxTexts <= 2 THEN MaxTexts ELSE 2
    BY SmsNumbersAssumption
  <2>5. \A x \in Tids : texts[x] # Never <=> x <= k
    BY <2>2, <2>3, <2>4, SmsNumbersAssumption DEF Tids
  <2>6. texts \in [Tids -> {Never} \cup Text]
    BY <2>2, <2>3, SmsNumbersAssumption DEF Tids
  <2>7. QED
    BY <2>5, <2>6 DEF TextsOK
<1>8. ReaderOK
  BY DEF SmsNumbersInit, ReaderOK
<1>9. QED
  BY <1>5, <1>6, <1>7, <1>8 DEF NumbersInv

\* A step of one clerk leaves the others' requests as they were.
LEMMA ClerkMoves ==
  ASSUME ClerksOK, NEW c \in SmsClerks, NEW r, ClerkOK(r), clerk' = [clerk EXCEPT ![c] = r],
         \A d : ClerkOK(d) => ClerkOK(d)'
  PROVE  ClerksOK'
BY DEF ClerksOK

\* What a request means depends on no variable.
LEMMA ClerkAlways == \A d : ClerkOK(d) => ClerkOK(d)'
BY DEF ClerkOK, sms_matches, Nids

\* Steps that leave rows, texts and the reader alone.
LEMMA OnlyClerk ==
  ASSUME NumbersInv, ClerksOK', UNCHANGED <<numbers, smsTeams, texts, reader>>
  PROVE  NumbersInv'
<1>1. RegistryOK' /\ TextsOK'
  BY DEF NumbersInv, RegistryOK, TextsOK, Rows
<1>2. Besides({})
  BY DEF Besides, Rows, Texts
<1>3. ReaderOK'
  BY <1>2, ReaderKept DEF NumbersInv
<1>4. QED
  BY <1>1, <1>3 DEF NumbersInv

\* A request of a clerk, or its answer.
LEMMA ClerkAsks ==
  ASSUME NumbersInv, NEW c \in SmsClerks,
         \/ AskNumber(c) \/ Reload(c) \/ AskSync(c) \/ list_incoming_numbers(c)
  PROVE  NumbersInv'
<1>1. UNCHANGED <<numbers, smsTeams, texts, reader>>
  BY DEF AskNumber, Reload, AskSync, list_incoming_numbers
<1>2. PICK r : ClerkOK(r) /\ clerk' = [clerk EXCEPT ![c] = r]
  <2>1. CASE AskNumber(c)
    <3>1. PICK s \in SmsScope(smsTeams), n \in Rows :
            \/ \E op \in {"update", "delete"} : Ask(c, [at |-> "write", op |-> op, id |-> n])
            \/ \E to \in {Spare} \cup SmsTeams :
                 MayMove(s, to)
                 /\ Ask(c, [at |-> "write", op |-> "transfer", id |-> n, to |-> to, scope |-> s])
      BY <2>1 DEF AskNumber
    <3>2. n \in Nids
      BY DEF Rows
    <3>3. CASE \E op \in {"update", "delete"} : Ask(c, [at |-> "write", op |-> op, id |-> n])
      <4>1. PICK op \in {"update", "delete"} : Ask(c, [at |-> "write", op |-> op, id |-> n])
        BY <3>3
      <4>2. ClerkOK([at |-> "write", op |-> op, id |-> n])
        BY <3>2 DEF ClerkOK
      <4>3. QED
        BY <4>1, <4>2 DEF Ask
    <3>4. CASE \E to \in {Spare} \cup SmsTeams :
                 MayMove(s, to)
                 /\ Ask(c, [at |-> "write", op |-> "transfer", id |-> n, to |-> to, scope |-> s])
      <4>1. PICK to \in {Spare} \cup SmsTeams :
              MayMove(s, to)
              /\ Ask(c, [at |-> "write", op |-> "transfer", id |-> n, to |-> to, scope |-> s])
        BY <3>4
      <4>2. sms_matches(s, to)
        BY <4>1 DEF MayMove, sms_matches
      <4>3. ClerkOK([at |-> "write", op |-> "transfer", id |-> n, to |-> to, scope |-> s])
        BY <3>2, <4>2 DEF ClerkOK
      <4>4. QED
        BY <4>1, <4>3 DEF Ask
    <3>5. QED
      BY <3>1, <3>3, <3>4
  <2>2. CASE Reload(c)
    BY <2>2 DEF Reload, Answer, Unused, ClerkOK
  <2>3. CASE AskSync(c)
    <3>1. ClerkOK([at |-> "twilio", op |-> "sync"])
      BY DEF ClerkOK
    <3>2. QED
      BY <2>3, <3>1 DEF AskSync, Ask
  <2>4. CASE list_incoming_numbers(c)
    <3>1. ClerkOK(Unused)
      BY DEF Unused, ClerkOK
    <3>2. \A found \in SUBSET Phones : ClerkOK([at |-> "listed", op |-> "sync", found |-> found])
      BY DEF ClerkOK
    <3>3. QED
      BY <2>4, <3>1, <3>2 DEF list_incoming_numbers, Answer
  <2>5. QED
    BY <2>1, <2>2, <2>3, <2>4
<1>3. ClerksOK'
  <2>1. ClerksOK
    BY DEF NumbersInv
  <2>2. QED
    BY <1>2, <2>1, ClerkAlways, ClerkMoves
<1>4. QED
  BY <1>1, <1>3, OnlyClerk

\* One row changes, or goes, and keeps its phone: the registry is kept.
LEMMA RowWritten ==
  ASSUME RegistryOK, NEW n \in Rows, NEW row, numbers' = [numbers EXCEPT ![n] = row],
         \/ row = Deleted
         \/ /\ row \in SmsPhoneNumber /\ row.phone = numbers[n].phone
            /\ row.team \in smsTeams \cup {Spare},
         smsTeams' = smsTeams
  PROVE  RegistryOK' /\ (texts' = texts => Besides({n}))
<1>1. n \in Nids /\ numbers[n].at = "row" /\ numbers[n] # Never
  BY DEF Rows, Never
<1>2. numbers' \in [Nids -> {Never, Deleted} \cup SmsPhoneNumber]
  BY DEF RegistryOK
<1>3. row # Never
  BY DEF Deleted, Never, SmsPhoneNumber
<1>4. \A m \in Nids : numbers'[m] # Never <=> numbers[m] # Never
  BY <1>1, <1>3 DEF RegistryOK
<1>5. \A m \in Nids \ {n} : numbers'[m] = numbers[m]
  BY DEF RegistryOK
<1>6. numbers'[n] = row
  BY <1>1 DEF RegistryOK
<1>7. Rows' \subseteq Rows /\ (n \in Rows' => row # Deleted)
  BY <1>1, <1>5, <1>6 DEF Rows, Deleted
<1>8. \A m \in Rows' : numbers'[m].phone = numbers[m].phone /\ numbers'[m].team \in smsTeams \cup {Spare}
  BY <1>5, <1>6, <1>7 DEF RegistryOK, Rows
<1>9. RegistryOK'
  <2>1. \A m, k \in Rows' : numbers'[m].phone = numbers'[k].phone => m = k
    BY <1>7, <1>8 DEF RegistryOK
  <2>2. \E k \in 0 .. MaxNumbers : \A m \in Nids : numbers'[m] # Never <=> m <= k
    BY <1>4 DEF RegistryOK
  <2>3. QED
    BY <1>2, <1>8, <2>1, <2>2 DEF RegistryOK, Nids
<1>10. texts' = texts => Besides({n})
  BY <1>5 DEF Besides, Rows, Texts
<1>11. QED
  BY <1>9, <1>10

\* An answer, or the step of a request to the reading of its row.
LEMMA ClerkAnswers ==
  ASSUME ClerksOK, NEW c \in SmsClerks,
         Answer(c) \/ clerk' = [clerk EXCEPT ![c].at = "reload"]
  PROVE  ClerksOK'
<1>1. CASE Answer(c)
  <2>1. ClerkOK(Unused)
    BY DEF Unused, ClerkOK
  <2>2. QED
    BY <1>1, <2>1, ClerkAlways, ClerkMoves DEF Answer
<1>2. CASE clerk' = [clerk EXCEPT ![c].at = "reload"]
  <2>1. PICK r : r = [clerk[c] EXCEPT !.at = "reload"]
    OBVIOUS
  <2>2. clerk' = [clerk EXCEPT ![c] = r]
    BY <1>2, <2>1
  <2>3. r.at = "reload" /\ "at" \in DOMAIN r
    BY <2>1 DEF ClerksOK, ClerkOK
  <2>4. ClerkOK(r)
    BY <2>3 DEF ClerkOK
  <2>5. QED
    BY <2>2, <2>4, ClerkAlways, ClerkMoves
<1>3. QED
  BY <1>1, <1>2

\* The fields of a row, its team, its end.
LEMMA UpdateKeeps ==
  ASSUME NumbersInv, NEW c \in SmsClerks, update_number(c)
  PROVE  NumbersInv'
<1>1. CASE UNCHANGED numbers /\ Answer(c)
  <2>1. UNCHANGED <<numbers, smsTeams, texts, reader>>
    BY <1>1 DEF update_number
  <2>2. QED
    BY <1>1, <2>1, ClerkAnswers, OnlyClerk DEF NumbersInv
<1>2. ASSUME NEW v \in {"filled", "cleared"}, NEW n \in Rows,
             numbers' = [numbers EXCEPT ![n].fields = v],
             clerk' = [clerk EXCEPT ![c].at = "reload"]
      PROVE  NumbersInv'
  <2>1. UNCHANGED <<smsTeams, texts, reader>>
    BY DEF update_number
  <2>2. PICK row : row = [numbers[n] EXCEPT !.fields = v]
    OBVIOUS
  <2>3. n \in Nids /\ numbers[n] \in SmsPhoneNumber /\ numbers[n].team \in smsTeams \cup {Spare}
    BY DEF NumbersInv, RegistryOK, Rows, Never, Deleted
  <2>4. row \in SmsPhoneNumber /\ row.phone = numbers[n].phone /\ row.team = numbers[n].team
        /\ row.at = "row"
    BY <2>2, <2>3 DEF SmsPhoneNumber
  <2>5. numbers' = [numbers EXCEPT ![n] = row]
    BY <1>2, <2>2
  <2>6. RegistryOK'
    BY <2>1, <2>3, <2>4, <2>5, RowWritten DEF NumbersInv
  <2>7. Besides({})
    BY <2>1, <2>3, <2>4, <2>5 DEF NumbersInv, RegistryOK, Besides, Rows, Texts
  <2>8. ReaderOK'
    BY <2>1, <2>7, ReaderKept DEF NumbersInv
  <2>9. ClerksOK' /\ TextsOK'
    BY <1>2, <2>1, ClerkAnswers DEF NumbersInv, TextsOK
  <2>10. QED
    BY <2>6, <2>8, <2>9 DEF NumbersInv
<1>3. QED
  BY <1>1, <1>2 DEF update_number

\* A transfer writes the team of the row its clerk has asked about, on that number still.
LEMMA TransferKeeps ==
  ASSUME NumbersInv, NEW c \in SmsClerks, transfer_number(c)
  PROVE  NumbersInv'
<1>1. PICK r : r = clerk[c]
  OBVIOUS
<1>2. UNCHANGED <<smsTeams, texts>> /\ ClerkOK(r) /\ r.at = "write" /\ r.op = "transfer"
  BY <1>1 DEF transfer_number, NumbersInv, ClerksOK
<1>3. ClerksOK' /\ TextsOK'
  BY <1>2, ClerkAnswers DEF NumbersInv, TextsOK, transfer_number
<1>4. CASE UNCHANGED <<numbers, reader>>
  BY <1>2, <1>3, <1>4, OnlyClerk
<1>5. CASE set_team(r.id, r.to) /\ Disturb(Rows \cap {r.id})
           /\ (r.to = Spare \/ r.to \in smsTeams \/ r.id \notin Rows)
  <2>1. CASE r.id \notin Rows
    <3>1. numbers' = numbers /\ Rows \cap {r.id} = {}
      BY <1>5, <2>1 DEF set_team
    <3>2. Besides({}) /\ RegistryOK'
      BY <1>2, <3>1 DEF NumbersInv, RegistryOK, Besides, Rows, Texts
    <3>3. ReaderOK'
      BY <1>5, <3>1, <3>2, ReaderKept DEF NumbersInv
    <3>4. QED
      BY <1>3, <3>2, <3>3 DEF NumbersInv
  <2>2. CASE r.id \in Rows
    <3>1. PICK n \in Rows : n = r.id
      BY <2>2
    <3>2. PICK row : row = [numbers[n] EXCEPT !.team = r.to]
      OBVIOUS
    <3>3. numbers' = [numbers EXCEPT ![n] = row] /\ Rows \cap {r.id} = {n}
      BY <1>5, <3>1, <3>2 DEF set_team
    <3>4. numbers[n] \in SmsPhoneNumber
      BY DEF NumbersInv, RegistryOK, Rows, Never, Deleted
    <3>5. r.to \in SmsTeams \cup {Spare} /\ r.to \in smsTeams \cup {Spare}
      BY <1>2, <1>5, <2>2 DEF ClerkOK
    <3>6. row \in SmsPhoneNumber /\ row.phone = numbers[n].phone /\ row.team = r.to
      BY <3>2, <3>4, <3>5 DEF SmsPhoneNumber
    <3>7. RegistryOK' /\ Besides({n})
      BY <1>2, <3>3, <3>5, <3>6, RowWritten DEF NumbersInv
    <3>8. ReaderOK'
      BY <1>5, <3>3, <3>7, ReaderKept DEF NumbersInv
    <3>9. QED
      BY <1>3, <3>7, <3>8 DEF NumbersInv
  <2>3. QED
    BY <2>1, <2>2
<1>6. QED
  BY <1>1, <1>4, <1>5 DEF transfer_number

\* A deletion takes the row and what is owed of it away together.
LEMMA DeleteKeeps ==
  ASSUME NumbersInv, NEW c \in SmsClerks, delete_number(c)
  PROVE  NumbersInv'
<1>1. PICK n : n = clerk[c].id
  OBVIOUS
<1>2. UNCHANGED <<smsTeams, texts>> /\ delete_by_id(n) /\ Disturb(Rows \cap {n})
  BY <1>1 DEF delete_number
<1>3. ClerksOK' /\ TextsOK'
  BY <1>2, ClerkAnswers DEF NumbersInv, TextsOK, delete_number
<1>4. RegistryOK' /\ Besides(Rows \cap {n})
  <2>1. CASE n \notin Rows
    <3>1. numbers' = numbers
      BY <1>2, <2>1 DEF delete_by_id
    <3>2. QED
      BY <1>2, <3>1 DEF NumbersInv, RegistryOK, Besides, Rows, Texts
  <2>2. CASE n \in Rows
    <3>1. numbers' = [numbers EXCEPT ![n] = Deleted] /\ Rows \cap {n} = {n}
      BY <1>2, <2>2 DEF delete_by_id
    <3>2. QED
      BY <1>2, <2>2, <3>1, RowWritten DEF NumbersInv
  <2>3. QED
    BY <2>1, <2>2
<1>5. ReaderOK'
  BY <1>2, <1>4, ReaderKept DEF NumbersInv
<1>6. QED
  BY <1>3, <1>4, <1>5 DEF NumbersInv

\* The rows a synchronisation leaves: those there were, and one for each number
\* that was missing.
LEMMA SyncKeeps ==
  ASSUME NumbersInv, NEW c \in SmsClerks, sync(c)
  PROVE  NumbersInv'
<1>1. PICK found : found = clerk[c].found
  OBVIOUS
<1>2. /\ found \subseteq Phones
      /\ Used + Cardinality(found \ PhonesOf(Rows)) <= MaxNumbers
      /\ numbers' = update_label(bulk_upsert_unassigned(found), found)
      /\ Answer(c) /\ UNCHANGED <<smsTeams, texts, reader>>
  BY <1>1 DEF sync, NumbersInv, ClerksOK, ClerkOK
<1>3. PICK missing, count, order :
        /\ missing = found \ PhonesOf(Rows) /\ count = Cardinality(missing)
        /\ order = Ordered(missing)
  OBVIOUS
<1>4. /\ count \in Nat /\ order \in [1 .. count -> missing]
      /\ \A i, j \in 1 .. count : i # j => order[i] # order[j]
  <2>1. missing \in SUBSET Phones
    BY <1>2, <1>3
  <2>2. IsFiniteSet(missing)
    BY <2>1, SmsNumbersAssumption, FS_Subset
  <2>3. count \in Nat
    BY <1>3, <2>2, FS_CardinalityType
  <2>4. \E f \in [1 .. count -> missing] : \A i, j \in 1 .. count : i # j => f[i] # f[j]
    <3>1. \E f \in [1 .. Cardinality(missing) -> missing] :
            \A i, j \in 1 .. Cardinality(missing) : i # j => f[i] # f[j]
      BY <2>2, OrderExists
    <3>2. count = Cardinality(missing)
      BY <1>3
    <3>3. QED
      BY ONLY <3>1, <3>2, Zenon
  <2>5. order = CHOOSE f \in [1 .. count -> missing] : \A i, j \in 1 .. count : i # j => f[i] # f[j]
    BY <1>3 DEF Ordered
  <2>6. QED
    BY <2>3, <2>4, <2>5
<1>5. PICK used \in 0 .. MaxNumbers : \A n \in Nids : numbers[n] # Never <=> n <= used
  BY DEF NumbersInv, RegistryOK
<1>6. Used = used
  <2>1. {n \in Nids : numbers[n] # Never} = 1 .. used
    BY <1>5, SmsNumbersAssumption DEF Nids
  <2>2. used \in Nat
    BY SmsNumbersAssumption
  <2>3. QED
    BY <2>1, <2>2, CountOfInterval DEF Used
<1>7. PICK new : new = [n \in Nids |-> [at |-> "row", phone |-> order[n - used], team |-> Spare,
                                        label |-> "none", fields |-> "cleared"]]
  OBVIOUS
<1>8. PICK rows : rows = bulk_upsert_unassigned(found)
  OBVIOUS
<1>9. rows = [n \in Nids |-> IF n \in used + 1 .. used + count THEN new[n] ELSE numbers[n]]
  <2>1. ASSUME NEW n \in Nids PROVE Fresh(missing, n) = new[n]
    BY <1>3, <1>6, <1>7 DEF Fresh
  <2>2. rows = [n \in Nids |-> IF n \in used + 1 .. used + count THEN Fresh(missing, n)
                                ELSE numbers[n]]
    BY <1>3, <1>6, <1>8 DEF bulk_upsert_unassigned
  <2>3. QED
    BY <2>1, <2>2
<1>10. \A n \in Nids : n \in used + 1 .. used + count =>
         /\ n - used \in 1 .. count /\ numbers[n] = Never
         /\ new[n].at = "row" /\ new[n].phone = order[n - used] /\ new[n].team = Spare
         /\ new[n] \in SmsPhoneNumber /\ new[n].phone \in missing
  <2>1. SUFFICES ASSUME NEW n \in Nids, n \in used + 1 .. used + count
                 PROVE  /\ n - used \in 1 .. count /\ numbers[n] = Never
                        /\ new[n].at = "row" /\ new[n].phone = order[n - used] /\ new[n].team = Spare
                        /\ new[n] \in SmsPhoneNumber /\ new[n].phone \in missing
    OBVIOUS
  <2>2. n - used \in 1 .. count /\ ~(n <= used)
    BY <1>4, <1>5, <2>1 DEF Nids
  <2>3. order[n - used] \in missing /\ order[n - used] \in Phones
    BY <1>2, <1>3, <1>4, <2>2
  <2>4. new[n] = [at |-> "row", phone |-> order[n - used], team |-> Spare,
                  label |-> "none", fields |-> "cleared"]
    BY <1>7
  <2>5. QED
    BY <1>5, <2>2, <2>3, <2>4 DEF SmsPhoneNumber
<1>11. \A n \in Nids : /\ n \in used + 1 .. used + count => rows[n] = new[n]
                       /\ n \notin used + 1 .. used + count => rows[n] = numbers[n]
  BY <1>9
<1>12. /\ numbers' = [m \in Nids |-> numbers'[m]]
       /\ \A n \in Nids :
            \/ numbers'[n] = rows[n]
            \/ rows[n].at = "row" /\ numbers'[n] = [rows[n] EXCEPT !.label = "friendly"]
  BY <1>2, <1>8 DEF update_label
<1>13. \A n \in Nids : rows[n] \in {Never, Deleted} \cup SmsPhoneNumber
  BY <1>10, <1>11 DEF NumbersInv, RegistryOK
<1>14. ASSUME NEW n \in Nids
       PROVE  /\ numbers'[n] \in {Never, Deleted} \cup SmsPhoneNumber
              /\ rows[n].at = "row" <=> numbers'[n].at = "row"
              /\ rows[n].at = "row" => /\ numbers'[n].phone = rows[n].phone
                                       /\ numbers'[n].team = rows[n].team
              /\ numbers'[n] # Never <=> rows[n] # Never
  <2>1. CASE numbers'[n] = rows[n]
    BY <1>13, <2>1
  <2>2. CASE rows[n].at = "row" /\ numbers'[n] = [rows[n] EXCEPT !.label = "friendly"]
    <3>1. rows[n] \in SmsPhoneNumber
      BY <1>13, <2>2 DEF Never, Deleted
    <3>2. numbers'[n] \in SmsPhoneNumber /\ numbers'[n].phone = rows[n].phone
          /\ numbers'[n].team = rows[n].team /\ numbers'[n].at = "row"
      BY <2>2, <3>1 DEF SmsPhoneNumber
    <3>3. numbers'[n] # Never /\ rows[n] # Never
      BY <2>2, <3>2 DEF Never
    <3>4. QED
      BY <2>2, <3>2, <3>3
  <2>3. QED
    BY <1>12, <2>1, <2>2
<1>15. \A n \in Rows' : (n \in Rows /\ rows[n] = numbers[n]) \/ (n \in used + 1 .. used + count /\ rows[n] = new[n])
  BY <1>11, <1>14 DEF Rows
<1>16. Besides({})
  <2>1. \A n \in Rows : n \in Nids /\ n \notin used + 1 .. used + count
    BY <1>10 DEF Rows, Never
  <2>2. QED
    BY <1>2, <1>11, <1>14, <2>1 DEF Besides, Rows, Texts
<1>17. RegistryOK'
  <2>1. numbers' \in [Nids -> {Never, Deleted} \cup SmsPhoneNumber]
    BY <1>12, <1>14
  <2>2. \E k \in 0 .. MaxNumbers : \A n \in Nids : numbers'[n] # Never <=> n <= k
    <3>1. PICK k \in 0 .. MaxNumbers : k = used + count
      BY <1>2, <1>3, <1>4, <1>5, <1>6, SmsNumbersAssumption
    <3>2. ASSUME NEW n \in Nids PROVE rows[n] # Never <=> n <= k
      <4>1. CASE n \in used + 1 .. used + count
        <5>1. rows[n] # Never
          BY <1>10, <1>11, <4>1 DEF Never
        <5>2. QED
          BY <1>4, <1>5, <3>1, <4>1, <5>1 DEF Nids
      <4>2. CASE n \notin used + 1 .. used + count
        <5>1. rows[n] = numbers[n]
          BY <1>11, <4>2
        <5>2. QED
          BY <1>4, <1>5, <3>1, <4>2, <5>1 DEF Nids
      <4>3. QED
        BY <4>1, <4>2
    <3>3. QED
      BY <1>14, <3>2
  <2>3. ASSUME NEW n \in Rows' PROVE numbers'[n].team \in smsTeams \cup {Spare}
    <3>1. n \in Nids /\ rows[n].at = "row" /\ numbers'[n].team = rows[n].team
      BY <1>14 DEF Rows
    <3>2. QED
      BY <1>10, <1>15, <3>1 DEF NumbersInv, RegistryOK
  <2>4. ASSUME NEW n \in Rows', NEW m \in Rows', numbers'[n].phone = numbers'[m].phone
        PROVE  n = m
    <3>1. n \in Nids /\ m \in Nids /\ rows[n].phone = rows[m].phone
      BY <1>14, <2>4 DEF Rows
    <3>2. \A k \in Rows : numbers[k].phone \notin missing
      BY <1>3 DEF PhonesOf
    <3>3. CASE n \in Rows /\ m \in Rows /\ rows[n] = numbers[n] /\ rows[m] = numbers[m]
      BY <3>1, <3>3 DEF NumbersInv, RegistryOK
    <3>4. CASE n \in used + 1 .. used + count /\ m \in used + 1 .. used + count
               /\ rows[n] = new[n] /\ rows[m] = new[m]
      <4>1. n - used \in 1 .. count /\ m - used \in 1 .. count /\ order[n - used] = order[m - used]
        BY <1>10, <3>1, <3>4
      <4>2. n - used = m - used
        BY <1>4, <4>1
      <4>3. QED
        BY <3>1, <4>2, <1>5 DEF Nids
    <3>5. QED
      BY <1>10, <1>15, <3>1, <3>2, <3>3, <3>4
  <2>5. QED
    <3>1. smsTeams' \subseteq SmsTeams /\ smsTeams' = smsTeams
      BY <1>2 DEF NumbersInv, RegistryOK
    <3>2. QED
      BY <2>1, <2>2, <2>3, <2>4, <3>1 DEF RegistryOK, Nids
<1>18. ReaderOK'
  BY <1>2, <1>16, ReaderKept DEF NumbersInv
<1>19. ClerksOK' /\ TextsOK'
  BY <1>2, ClerkAnswers DEF NumbersInv, TextsOK
<1>20. QED
  BY <1>17, <1>18, <1>19 DEF NumbersInv

\* The numbers of a deleted team lose it.
LEMMA DropTeamKeeps ==
  ASSUME NumbersInv, NEW t \in SmsTeams, DropSmsTeam(t)
  PROVE  NumbersInv'
<1>1. PICK ns : ns = {n \in Rows : numbers[n].team = t}
  OBVIOUS
<1>2. /\ t \in smsTeams /\ smsTeams' = smsTeams \ {t} /\ Disturb(ns) /\ UNCHANGED <<clerk, texts>>
      /\ numbers' = [n \in Nids |-> IF n \in ns THEN [numbers[n] EXCEPT !.team = Spare]
                                    ELSE numbers[n]]
  <2>1. \A n \in Nids : (n \in Rows /\ numbers[n].team = t) <=> n \in ns
    BY <1>1
  <2>2. QED
    BY <1>1, <2>1 DEF DropSmsTeam
<1>3. \A n \in Nids : numbers[n].at = "row" => numbers[n] \in SmsPhoneNumber
  BY DEF NumbersInv, RegistryOK, Never, Deleted
<1>4. ASSUME NEW n \in ns
      PROVE  /\ n \in Nids /\ n \in Rows /\ numbers'[n] \in SmsPhoneNumber
             /\ numbers'[n].at = "row" /\ numbers'[n].phone = numbers[n].phone /\ numbers'[n].team = Spare
  BY <1>1, <1>2, <1>3 DEF Rows, SmsPhoneNumber
<1>5. \A n \in Nids : n \notin ns => numbers'[n] = numbers[n]
  BY <1>2
<1>6. Rows' = Rows
  BY <1>1, <1>4, <1>5 DEF Rows
<1>7. \A n \in Rows : n \in Nids /\ numbers'[n].phone = numbers[n].phone
  BY <1>4, <1>5 DEF Rows
<1>8. Besides(ns)
  BY <1>2, <1>5, <1>6 DEF Besides, Rows, Texts
<1>9. RegistryOK'
  <2>1. numbers' \in [Nids -> {Never, Deleted} \cup SmsPhoneNumber]
    <3>1. \A n \in Nids : numbers'[n] \in {Never, Deleted} \cup SmsPhoneNumber
      BY <1>4, <1>5 DEF NumbersInv, RegistryOK
    <3>2. QED
      BY <1>2, <3>1
  <2>2. \A n \in Nids : numbers'[n] # Never <=> numbers[n] # Never
    <3>1. \A n \in ns : numbers'[n] # Never /\ numbers[n] # Never
      BY <1>4 DEF Rows, Never
    <3>2. QED
      BY <1>5, <3>1
  <2>3. \A n \in Rows' : numbers'[n].team \in smsTeams' \cup {Spare}
    <3>1. ASSUME NEW n \in Rows PROVE numbers'[n].team \in smsTeams' \cup {Spare}
      <4>1. CASE n \in ns
        BY <1>4, <4>1
      <4>2. CASE n \notin ns
        <5>1. numbers'[n] = numbers[n] /\ numbers[n].team # t
          BY <1>1, <1>5, <1>7, <4>2
        <5>2. QED
          BY <1>2, <5>1 DEF NumbersInv, RegistryOK
      <4>3. QED
        BY <4>1, <4>2
    <3>2. QED
      BY <1>6, <3>1
  <2>4. \A n, m \in Rows' : numbers'[n].phone = numbers'[m].phone => n = m
    BY <1>6, <1>7 DEF NumbersInv, RegistryOK
  <2>5. \E k \in 0 .. MaxNumbers : \A n \in Nids : numbers'[n] # Never <=> n <= k
    BY <2>2 DEF NumbersInv, RegistryOK
  <2>6. smsTeams' \subseteq SmsTeams
    BY <1>2 DEF NumbersInv, RegistryOK
  <2>7. QED
    BY <2>1, <2>3, <2>4, <2>5, <2>6 DEF RegistryOK, Nids
<1>10. ReaderOK'
  BY <1>2, <1>8, ReaderKept DEF NumbersInv
<1>11. ClerksOK' /\ TextsOK'
  BY <1>2 DEF NumbersInv, TextsOK, ClerksOK, ClerkOK, Nids, sms_matches
<1>12. QED
  BY <1>9, <1>10, <1>11 DEF NumbersInv

\* A text is stored under the next id.
LEMMA StoreTextKeeps ==
  ASSUME NumbersInv, StoreText
  PROVE  NumbersInv'
<1>x. PICK x \in Tids :
        /\ texts[x] = Never /\ \A y \in 1 .. x - 1 : texts[y] # Never
        /\ \E to \in Phones : \E at \in {x - 1, x} :
             texts' = [texts EXCEPT ![x] = [at |-> at, to |-> to]]
  BY DEF StoreText
<1>1. PICK to \in Phones, at \in {x - 1, x} :
        /\ texts[x] = Never /\ \A y \in 1 .. x - 1 : texts[y] # Never
        /\ texts' = [texts EXCEPT ![x] = [at |-> at, to |-> to]]
  BY <1>x
<1>2. UNCHANGED <<numbers, smsTeams, clerk, reader>>
  BY DEF StoreText
<1>3. PICK text : text = [at |-> at, to |-> to]
  OBVIOUS
<1>4. x \in Nat /\ x >= 1 /\ x <= MaxTexts
  BY SmsNumbersAssumption DEF Tids
<1>5. text \in Text /\ text # Never
  <2>1. at \in 0 .. MaxTexts
    BY <1>4, SmsNumbersAssumption
  <2>2. QED
    BY <1>3, <2>1 DEF Text, Never
<1>6. texts' = [texts EXCEPT ![x] = text]
  BY <1>1, <1>3
<1>7. TextsOK'
  <2>1. PICK k \in 0 .. MaxTexts : \A y \in Tids : texts[y] # Never <=> y <= k
    BY DEF NumbersInv, TextsOK
  <2>2. k = x - 1
    <3>1. ~(x <= k) /\ k \in Nat
      BY <1>1, <2>1, SmsNumbersAssumption
    <3>2. CASE x = 1
      BY <3>1, <3>2
    <3>3. CASE x # 1
      <4>1. x - 1 \in 1 .. x - 1 /\ x - 1 \in Tids
        BY <1>4, <3>3, SmsNumbersAssumption DEF Tids
      <4>2. x - 1 <= k
        BY <1>1, <2>1, <4>1
      <4>3. QED
        BY <1>4, <3>1, <4>2
    <3>4. QED
      BY <3>2, <3>3
  <2>3. \A y \in Tids : texts'[y] = IF y = x THEN text ELSE texts[y]
    BY <1>6 DEF NumbersInv, TextsOK
  <2>4. \A y \in Tids : texts'[y] # Never <=> y <= x
    BY <1>4, <1>5, <2>1, <2>2, <2>3 DEF Tids
  <2>5. texts' \in [Tids -> {Never} \cup Text]
    BY <1>5, <1>6 DEF NumbersInv, TextsOK
  <2>6. x \in 0 .. MaxTexts
    BY <1>4, SmsNumbersAssumption
  <2>7. QED
    BY <2>4, <2>5, <2>6 DEF TextsOK, Tids, Text
<1>8. \A y \in Texts : y \in Texts' /\ texts'[y] = texts[y]
  BY <1>1, <1>6 DEF NumbersInv, TextsOK, Texts
<1>9. Besides({})
  BY <1>2, <1>8 DEF Besides, Rows
<1>10. ReaderOK'
  BY <1>2, <1>9, ReaderKept DEF NumbersInv
<1>11. RegistryOK' /\ ClerksOK'
  BY <1>2 DEF NumbersInv, RegistryOK, Rows, ClerksOK, ClerkOK, Nids, sms_matches
<1>12. QED
  BY <1>7, <1>10, <1>11 DEF NumbersInv

\* The reader opens the feed: all he is owed lies ahead.
LEMMA OpenFeedKeeps ==
  ASSUME NumbersInv, OpenFeed
  PROVE  NumbersInv'
<1>1. PICK s \in SmsScope(smsTeams), f \in SmsFilters :
        reader' = [at |-> "open", scope |-> s, filter |-> f, cursor |-> Unused, seen |-> {},
                   repeated |-> FALSE, owed |-> Shown(s, f)]
  BY DEF OpenFeed
<1>2. UNCHANGED <<numbers, smsTeams, clerk, texts>>
  BY DEF OpenFeed
<1>3. RegistryOK' /\ ClerksOK' /\ TextsOK'
  BY <1>2 DEF NumbersInv, RegistryOK, Rows, ClerksOK, ClerkOK, Nids, sms_matches, TextsOK
<1>4. s \in ScopeShape
  BY ScopesShape DEF NumbersInv, RegistryOK
<1>5. PICK owed \in SUBSET Tids : owed = Shown(s, f)
  BY DEF Shown, Texts
<1>6. PICK none \in SUBSET Tids : none = {}
  OBVIOUS
<1>7. reader' = [at |-> "open", scope |-> s, filter |-> f, cursor |-> Unused, seen |-> none,
                 repeated |-> FALSE, owed |-> owed]
  BY <1>1, <1>5, <1>6
<1>8. reader' \in ReaderShape
  BY <1>4, <1>7 DEF ReaderShape
<1>9. WalkOK'
  <2>1. (list_inbound(s, f, Unused))' = Shown(s, f)
    BY <1>2 DEF list_inbound, Shown, Texts, _resolve_visible_phones, list_numbers, list_in_scope,
                PhonesOf, Filtered, Rows, is_empty
  <2>2. /\ reader'.at = "open" /\ reader'.owed = owed /\ reader'.seen = {}
        /\ reader'.scope = s /\ reader'.filter = f /\ reader'.cursor = Unused
    BY <1>6, <1>7
  <2>3. QED
    BY <1>5, <2>1, <2>2 DEF WalkOK
<1>10. QED
  BY <1>3, <1>8, <1>9 DEF NumbersInv, ReaderOK

\* Of texts in sight, one comes before all the others.
LEMMA FirstOfTexts ==
  ASSUME TextsOK, NEW found, found \subseteq Texts, found # {}
  PROVE  \E x \in found : \A y \in found \ {x} : Later(x, y)
<1>1. \A x \in found : x \in Tids /\ texts[x] \in Text /\ texts[x].at \in 0 .. MaxTexts /\ x \in 0 .. MaxTexts
  BY SmsNumbersAssumption DEF TextsOK, Texts, Text, Tids
<1>2. PICK newest \in {texts[x].at : x \in found} : \A m \in {texts[x].at : x \in found} : m <= newest
  <2>1. {texts[x].at : x \in found} \in SUBSET (0 .. MaxTexts)
    BY <1>1
  <2>2. {texts[x].at : x \in found} # {}
    OBVIOUS
  <2>3. QED
    BY <2>1, <2>2, GreatestMember, SmsNumbersAssumption
<1>3. PICK last \in {x \in found : texts[x].at = newest} :
        \A m \in {x \in found : texts[x].at = newest} : m <= last
  <2>1. {x \in found : texts[x].at = newest} \in SUBSET (0 .. MaxTexts)
    BY <1>1
  <2>2. {x \in found : texts[x].at = newest} # {}
    BY <1>2
  <2>3. QED
    BY <2>1, <2>2, GreatestMember, SmsNumbersAssumption
<1>4. ASSUME NEW y \in found \ {last} PROVE Later(last, y)
  <2>1. texts[y].at <= newest /\ texts[y].at \in Nat /\ newest \in Nat /\ y \in Nat /\ last \in Nat
    BY <1>1, <1>2, SmsNumbersAssumption
  <2>2. CASE texts[y].at = newest
    <3>1. y <= last /\ y # last /\ texts[last].at = newest
      BY <1>3, <2>2
    <3>2. QED
      BY <2>1, <2>2, <3>1 DEF Later
  <2>3. CASE texts[y].at # newest
    <3>1. texts[last].at = newest
      BY <1>3
    <3>2. QED
      BY <2>1, <2>3, <3>1 DEF Later
  <2>4. QED
    BY <2>2, <2>3
<1>5. QED
  BY <1>3, <1>4

\* A page of the feed.
LEMMA ListTextsKeeps ==
  ASSUME NumbersInv, list_texts
  PROVE  NumbersInv'
<1>1. UNCHANGED <<numbers, smsTeams, clerk, texts>> /\ reader.at = "open"
  BY DEF list_texts
<1>2. RegistryOK' /\ ClerksOK' /\ TextsOK'
  BY <1>1 DEF NumbersInv, RegistryOK, Rows, ClerksOK, ClerkOK, Nids, sms_matches, TextsOK
<1>3. reader \in ReaderShape /\ WalkOK /\ TextsOK
  BY <1>1 DEF NumbersInv, ReaderOK, Unused
<1>4. PICK found : found = list_inbound(reader.scope, reader.filter, reader.cursor)
  OBVIOUS
<1>5. PICK first : first = CHOOSE x \in found : \A y \in found \ {x} : Later(x, y)
  OBVIOUS
<1>6. reader' = IF found = {} THEN [reader EXCEPT !.at = "read"]
                ELSE [reader EXCEPT
                        !.seen = reader.seen \cup {first},
                        !.repeated = reader.repeated \/ first \in reader.seen,
                        !.cursor = [at |-> texts[first].at, id |-> first],
                        !.at = IF found = {first} THEN "read" ELSE "open"]
  BY <1>4, <1>5 DEF list_texts
<1>7. \A x \in reader.owed : x \in reader.seen \/ x \in found
  BY <1>3, <1>4 DEF WalkOK
<1>8. CASE found = {}
  <2>1. reader' = [reader EXCEPT !.at = "read"]
    BY <1>6, <1>8
  <2>2. /\ reader' \in ReaderShape /\ reader'.owed = reader.owed /\ reader'.seen = reader.seen
        /\ reader'.cursor = reader.cursor
    BY <1>3, <2>1 DEF ReaderShape
  <2>3. \A x \in reader'.owed : x \in reader'.seen
    BY <1>7, <1>8, <2>2
  <2>4. (\A x \in reader.seen : x \in Texts /\ PastCursor(x, reader.cursor))'
    BY <1>1, <1>3, <2>2 DEF WalkOK, PastCursor, Texts
  <2>5. QED
    BY <1>2, <2>2, <2>3, <2>4 DEF NumbersInv, ReaderOK, WalkOK
<1>9. CASE found # {}
  <2>1. found \subseteq Texts
    BY <1>4 DEF list_inbound, Shown
  <2>2. first \in found /\ \A y \in found \ {first} : Later(first, y)
    BY <1>3, <1>5, <1>9, <2>1, FirstOfTexts
  <2>3. \A x \in Texts : x \in Tids /\ x \in Nat /\ texts[x].at \in 0 .. MaxTexts /\ texts[x].at \in Nat
    BY <1>3, SmsNumbersAssumption DEF TextsOK, Texts, Text, Tids
  <2>4. first \notin reader.seen
    <3>1. ASSUME first \in reader.seen PROVE FALSE
      <4>1. PICK c : c = reader.cursor
        OBVIOUS
      <4>2. PastCursor(first, c)
        BY <1>3, <3>1, <4>1 DEF WalkOK
      <4>3. QED
        BY <1>4, <2>2, <4>1, <4>2 DEF list_inbound, PastCursor
    <3>2. QED
      BY <3>1
  <2>5. PICK next : next = [at |-> texts[first].at, id |-> first]
    OBVIOUS
  <2>6. next \in [at : 0 .. MaxTexts, id : Tids] /\ next # Unused
    BY <2>1, <2>2, <2>3, <2>5 DEF Unused
  <2>7. PICK at \in {"open", "read"} : at = IF found = {first} THEN "read" ELSE "open"
    OBVIOUS
  <2>8. PICK seen \in SUBSET Tids : seen = reader.seen \cup {first}
    BY <1>3, <2>1, <2>2, <2>3 DEF ReaderShape
  <2>9. reader' = [reader EXCEPT !.seen = seen, !.repeated = FALSE, !.cursor = next, !.at = at]
    <3>1. (reader.repeated \/ first \in reader.seen) = FALSE
      BY <1>3, <2>4 DEF ReaderShape
    <3>2. QED
      BY <1>6, <1>9, <2>5, <2>7, <2>8, <3>1
  <2>10. /\ reader' \in ReaderShape /\ reader'.owed = reader.owed /\ reader'.seen = seen
         /\ reader'.cursor = next /\ reader'.at = at
         /\ reader'.scope = reader.scope /\ reader'.filter = reader.filter
    BY <1>3, <2>6, <2>9 DEF ReaderShape
  <2>11. ASSUME NEW x \in reader.owed, x \notin seen
         PROVE  at = "open" /\ (x \in list_inbound(reader.scope, reader.filter, next))'
    <3>1. x \in found /\ x # first
      BY <1>7, <2>8, <2>11
    <3>2. at = "open"
      BY <2>7, <3>1
    <3>3. Later(first, x)
      BY <2>2, <3>1
    <3>4. x \in Shown(reader.scope, reader.filter)
      BY <1>4, <3>1 DEF list_inbound
    <3>5. texts[x].at < next.at \/ (texts[x].at = next.at /\ x < next.id)
      <4>1. x \in Nat /\ first \in Nat /\ texts[x].at \in Nat /\ texts[first].at \in Nat
        BY <2>1, <2>2, <2>3, <3>1
      <4>2. QED
        BY <2>5, <3>3, <4>1 DEF Later
    <3>6. x \in list_inbound(reader.scope, reader.filter, next)
      BY <3>4, <3>5 DEF list_inbound
    <3>7. (list_inbound(reader.scope, reader.filter, next))' = list_inbound(reader.scope, reader.filter, next)
      BY <1>1, <2>10 DEF list_inbound, Shown, Texts, _resolve_visible_phones, list_numbers,
                list_in_scope, PhonesOf, Filtered, Rows, is_empty
    <3>8. QED
      BY <3>2, <3>6, <3>7
  <2>12. ASSUME NEW x \in seen PROVE x \in Texts' /\ (PastCursor(x, next))'
    <3>1. x \in Texts
      BY <1>3, <2>1, <2>2, <2>8 DEF WalkOK
    <3>2. PastCursor(x, next)
      <4>1. CASE x = first
        BY <2>3, <2>5, <2>6, <3>1, <4>1 DEF PastCursor
      <4>2. CASE x \in reader.seen
        <5>1. PICK c : c = reader.cursor
          OBVIOUS
        <5>2. PastCursor(x, c) /\ c \in [at : 0 .. MaxTexts, id : Tids]
          BY <1>3, <4>2, <5>1 DEF WalkOK, PastCursor, ReaderShape
        <5>3. texts[first].at < c.at \/ (texts[first].at = c.at /\ first < c.id)
          BY <1>4, <2>2, <5>1, <5>2 DEF list_inbound, PastCursor
        <5>4. /\ c.at \in Nat /\ c.id \in Nat /\ x \in Nat /\ first \in Nat
              /\ texts[x].at \in Nat /\ texts[first].at \in Nat
          <6>1. c.at \in 0 .. MaxTexts /\ c.id \in Tids
            BY <5>2
          <6>2. c.at \in Nat /\ c.id \in Nat
            BY <6>1, SmsNumbersAssumption DEF Tids
          <6>3. QED
            BY <2>1, <2>2, <2>3, <3>1, <6>2
        <5>5. ~(texts[x].at < texts[first].at \/ (texts[x].at = texts[first].at /\ x < first))
          BY <5>2, <5>3, <5>4 DEF PastCursor
        <5>6. QED
          BY <2>5, <2>6, <5>5 DEF PastCursor
      <4>3. QED
        BY <2>8, <4>1, <4>2
    <3>3. QED
      BY <1>1, <3>1, <3>2 DEF Texts, PastCursor
  <2>13. WalkOK'
    <3>1. (\A x \in reader.owed : x \in reader.seen \/
             (reader.at = "open" /\ x \in list_inbound(reader.scope, reader.filter, reader.cursor)))'
      BY <2>10, <2>11
    <3>2. (\A x \in reader.seen : x \in Texts /\ PastCursor(x, reader.cursor))'
      BY <2>10, <2>12
    <3>3. QED
      BY <3>1, <3>2 DEF WalkOK
  <2>14. QED
    BY <1>2, <2>10, <2>13 DEF NumbersInv, ReaderOK
<1>10. QED
  BY <1>8, <1>9

\* Every step keeps the invariant.
LEMMA NumbersStep == NumbersInv /\ [SmsNumbersNext]_smsNumbersVars => NumbersInv'
<1> SUFFICES ASSUME NumbersInv, [SmsNumbersNext]_smsNumbersVars PROVE NumbersInv'
  OBVIOUS
<1>1. ASSUME NEW c \in SmsClerks, AskNumber(c) \/ Reload(c) \/ AskSync(c) \/ list_incoming_numbers(c)
      PROVE  NumbersInv'
  BY <1>1, ClerkAsks
<1>2. ASSUME NEW c \in SmsClerks, update_number(c) \/ transfer_number(c) \/ delete_number(c) \/ sync(c)
      PROVE  NumbersInv'
  BY <1>2, UpdateKeeps, TransferKeeps, DeleteKeeps, SyncKeeps
<1>3. ASSUME NEW t \in SmsTeams, DropSmsTeam(t) PROVE NumbersInv'
  BY <1>3, DropTeamKeeps
<1>4. CASE StoreText \/ OpenFeed \/ list_texts
  BY <1>4, StoreTextKeeps, OpenFeedKeeps, ListTextsKeeps
<1>5. CASE UNCHANGED smsNumbersVars
  <2>1. UNCHANGED <<numbers, smsTeams, texts, reader, clerk>>
    BY <1>5 DEF smsNumbersVars
  <2>2. ClerksOK'
    BY <2>1, ClerkAlways DEF NumbersInv, ClerksOK
  <2>3. QED
    BY <2>1, <2>2, OnlyClerk
<1>6. QED
  BY <1>1, <1>2, <1>3, <1>4, <1>5 DEF SmsNumbersNext

\* What a step may do to the team of a row.
LEMMA TeamMoves ==
  ASSUME NumbersInv, [SmsNumbersNext]_smsNumbersVars, NEW n \in Rows,
         numbers'[n].at = "row", numbers'[n].team # numbers[n].team
  PROVE  \/ numbers[n].team \notin smsTeams' /\ numbers'[n].team = Spare
         \/ \E c \in SmsClerks : /\ clerk[c].at = "write" /\ clerk'[c].at = "reload"
                                 /\ clerk[c].op = "transfer" /\ clerk[c].id = n
                                 /\ sms_matches(clerk[c].scope, numbers'[n].team)
<1> USE DEF NumbersInv
<1>1. n \in Nids /\ numbers[n].at = "row" /\ numbers[n] \in SmsPhoneNumber
  BY DEF RegistryOK, Rows, Never, Deleted
<1>2. numbers' # numbers
  OBVIOUS
<1>3. ASSUME NEW c \in SmsClerks, update_number(c) PROVE FALSE
  <2>1. PICK r \in Rows, v \in {"filled", "cleared"} : numbers' = [numbers EXCEPT ![r].fields = v]
    BY <1>2, <1>3 DEF update_number
  <2>2. numbers'[n].team = numbers[n].team
    BY <1>1, <2>1 DEF RegistryOK, SmsPhoneNumber
  <2>3. QED
    BY <2>2
<1>4. ASSUME NEW c \in SmsClerks, transfer_number(c)
      PROVE  /\ clerk[c].at = "write" /\ clerk'[c].at = "reload"
             /\ clerk[c].op = "transfer" /\ clerk[c].id = n
             /\ sms_matches(clerk[c].scope, numbers'[n].team)
  <2>1. PICK r : r = clerk[c]
    OBVIOUS
  <2>2. /\ r.at = "write" /\ r.op = "transfer" /\ r.id \in Rows
        /\ numbers' = [numbers EXCEPT ![r.id].team = r.to]
        /\ clerk' = [clerk EXCEPT ![c].at = "reload"]
    BY <1>2, <1>4, <2>1 DEF transfer_number, set_team
  <2>3. ClerkOK(r)
    BY <2>1 DEF ClerksOK
  <2>4. n = r.id
    BY <2>2 DEF RegistryOK
  <2>5. numbers'[n] = [numbers[n] EXCEPT !.team = r.to]
    BY <1>1, <2>2, <2>4 DEF RegistryOK
  <2>6. numbers'[n].team = r.to
    BY <1>1, <2>5 DEF SmsPhoneNumber
  <2>7. clerk'[c] = [r EXCEPT !.at = "reload"]
    BY <2>1, <2>2 DEF ClerksOK
  <2>8. clerk'[c].at = "reload"
    BY <2>3, <2>7 DEF ClerkOK
  <2>9. QED
    BY <2>1, <2>2, <2>3, <2>4, <2>6, <2>8 DEF ClerkOK
<1>5. ASSUME NEW c \in SmsClerks, delete_number(c) PROVE FALSE
  <2>1. PICK m : m = clerk[c].id
    OBVIOUS
  <2>2. m \in Rows /\ numbers' = [numbers EXCEPT ![m] = Deleted]
    BY <1>2, <1>5, <2>1 DEF delete_number, delete_by_id
  <2>3. CASE n = m
    BY <1>1, <2>2, <2>3 DEF RegistryOK, Deleted
  <2>4. CASE n # m
    BY <1>1, <2>2, <2>4 DEF RegistryOK
  <2>5. QED
    BY <2>3, <2>4
<1>6. ASSUME NEW c \in SmsClerks, sync(c) PROVE FALSE
  <2>1. PICK found : found = clerk[c].found
    OBVIOUS
  <2>2. numbers' = update_label(bulk_upsert_unassigned(found), found)
    BY <1>6, <2>1 DEF sync
  <2>3. PICK rows, new, more : /\ rows = bulk_upsert_unassigned(found)
                               /\ more = Used + 1 .. Used + Cardinality(found \ PhonesOf(Rows))
                               /\ new = [m \in Nids |-> Fresh(found \ PhonesOf(Rows), m)]
    OBVIOUS
  <2>4. rows[n] = IF n \in more THEN new[n] ELSE numbers[n]
    BY <1>1, <2>3 DEF bulk_upsert_unassigned
  <2>5. n \notin more
    <3>1. PICK used \in 0 .. MaxNumbers : \A m \in Nids : numbers[m] # Never <=> m <= used
      BY DEF RegistryOK
    <3>2. {m \in Nids : numbers[m] # Never} = 1 .. used /\ used \in Nat
      BY <3>1, SmsNumbersAssumption DEF Nids
    <3>3. Used = used
      BY <3>2, CountOfInterval DEF Used
    <3>4. n <= used /\ n \in Nat
      BY <1>1, <3>1, SmsNumbersAssumption DEF Never, Nids
    <3>5. \A m \in more : used + 1 <= m
      BY <2>3, <3>3
    <3>6. QED
      BY <3>2, <3>4, <3>5
  <2>6. rows[n] = numbers[n]
    BY <2>4, <2>5
  <2>7. numbers'[n] = numbers[n] \/ numbers'[n] = [numbers[n] EXCEPT !.label = "friendly"]
    BY <1>1, <2>2, <2>3, <2>6 DEF update_label
  <2>8. QED
    BY <1>1, <2>7 DEF SmsPhoneNumber
<1>7. ASSUME NEW t \in SmsTeams, DropSmsTeam(t)
      PROVE  numbers[n].team \notin smsTeams' /\ numbers'[n].team = Spare
  <2>1. smsTeams' = smsTeams \ {t}
    BY <1>7 DEF DropSmsTeam
  <2>2. numbers'[n] = IF numbers[n].team = t THEN [numbers[n] EXCEPT !.team = Spare] ELSE numbers[n]
    BY <1>1, <1>7 DEF DropSmsTeam, Rows
  <2>3. numbers[n].team = t /\ numbers'[n] = [numbers[n] EXCEPT !.team = Spare]
    BY <2>2
  <2>4. QED
    BY <1>1, <2>1, <2>3 DEF SmsPhoneNumber
<1>8. QED
  BY <1>2, <1>3, <1>4, <1>5, <1>6, <1>7
     DEF SmsNumbersNext, smsNumbersVars, AskNumber, Reload, AskSync, list_incoming_numbers,
         StoreText, OpenFeed, list_texts

\* A number changes its team only when its team goes, or by the transfer a request
\* with that number in its scope had asked for.
LEMMA NumbersMove ==
  NumbersInv /\ [SmsNumbersNext]_smsNumbersVars =>
    \A n \in Rows : numbers'[n].at = "row" /\ numbers'[n].team # numbers[n].team =>
      \/ numbers[n].team \notin smsTeams' /\ numbers'[n].team = Spare
      \/ \E c \in SmsClerks : /\ clerk[c].at = "write" /\ clerk'[c].at = "reload"
                              /\ clerk[c].op = "transfer" /\ clerk[c].id = n
                              /\ sms_matches(clerk[c].scope, numbers'[n].team)
BY TeamMoves

\* The registry keeps its shape under concurrent requests and syncs; what somebody
\* is listed, what he may change and the texts he is shown are one reach, whatever
\* his teams and his filter; and a walk of the feed shows a text once and misses
\* none, but those of numbers that changed hands (list_in_scope, sms_matches,
\* _resolve_visible_phones, list_for_numbers).
THEOREM NumbersCorrect == SmsNumbersSpec => []SmsNumbersHold
<1> QED
  BY NumbersInitInv, NumbersStep, NumbersInvHolds, PTL DEF SmsNumbersSpec

\* Elsewhere the registry stays as it is.
LEMMA NumbersOfCatalogues ==
  /\ CataloguesInit => NumbersInv
  /\ [CataloguesNext]_cataloguesVars => [SmsNumbersNext]_smsNumbersVars
  /\ NumbersInv /\ [CataloguesNext]_cataloguesVars => NumbersInv'
<1>1. CataloguesInit => NumbersInv
  BY NumbersInitInv DEF CataloguesInit
<1>2. [CataloguesNext]_cataloguesVars => [SmsNumbersNext]_smsNumbersVars
  BY DEF CataloguesNext, cataloguesVars
<1>3. QED
  BY <1>1, <1>2, NumbersStep

\* The same of the catalogues as a whole.
THEOREM CatalogueNumbers == CataloguesSpec => []NumbersHold
<1>1. NumbersInv => NumbersHold
  BY NumbersInvHolds DEF NumbersHold
<1>2. QED
  BY <1>1, NumbersOfCatalogues, PTL DEF CataloguesSpec

\* Over every interleaving of requests, syncs and deleted teams, a number passes to
\* another team only by a transfer whose request had the number it moves in its
\* scope and the new team too, or to nobody when its team went (transfer_number,
\* _require_mutation_scope, delete_team).
THEOREM CatalogueNumbersMove == CataloguesSpec => NumbersMoveByTransfer
<1>1. NumbersInv /\ [CataloguesNext]_cataloguesVars =>
        [\A n \in Rows : numbers'[n].at = "row" /\ numbers'[n].team # numbers[n].team =>
           \/ numbers[n].team \notin smsTeams' /\ numbers'[n].team = Spare
           \/ \E c \in SmsClerks : /\ clerk[c].at = "write" /\ clerk'[c].at = "reload"
                                   /\ clerk[c].op = "transfer" /\ clerk[c].id = n
                                   /\ sms_matches(clerk[c].scope, numbers'[n].team)]_smsNumbersVars
  BY NumbersOfCatalogues, NumbersMove
<1>2. QED
  BY <1>1, NumbersOfCatalogues, PTL DEF CataloguesSpec, NumbersMoveByTransfer

----------------------------------------------------------------------------
(***************************************************************************)
(* Telegram links.                                                         *)
(***************************************************************************)

\* The people who are there are finitely many, with a username of their own each.
PeopleOK ==
  /\ people \in [People -> User] /\ IsFiniteSet(Registered)
  /\ \A p, q \in Registered : people[p].nick = people[q].nick => p = q

\* The three tables.
LinkTables ==
  /\ knowledge \in [Chats -> KnowledgeBotLink \cup {NoLink}]
  /\ smsLinks \in [Chats -> KnowledgeBotLink \cup {NoLink}]
  /\ mailLinks \in [Chats -> MailTelegramLink \cup {NoLink}]

\* A link names somebody who is there.
NamesSomebody(table, others) ==
  \A z \in Chats : Linked(table, z) => table[z].person \in Registered \cup others

\* A visit under way; one that read a live link is about the person it names.
VisitRow == [at : {"knowledge", "mail", "sms", "revive"}, chat : Chats,
             person : People \cup {NoPerson}, nick : Nicks \cup {NoNick},
             held : People \cup {NoPerson}]

VisitsOK ==
  /\ visit \in [Visitors -> VisitRow \cup {NoVisit}]
  /\ \A v \in Visitors : visit[v].at \in {"knowledge", "mail"} /\ visit[v].held # NoPerson
                           => visit[v].person = visit[v].held

\* A broadcast, and the chats it has marked: they are locked while their links live.
CastRow == [at : {"idle", "sending"}, todo : SUBSET Chats, marks : SUBSET Chats]
           \cup [at : {"refused"}, chat : Chats, todo : SUBSET Chats, marks : SUBSET Chats]

CastOK == cast \in CastRow /\ \A z \in cast.marks : Alive(knowledge, z)

\* The inductive invariant of the links.
LinksInv ==
  /\ PeopleOK /\ LinkTables /\ VisitsOK /\ CastOK
  /\ NamesSomebody(knowledge, {}) /\ NamesSomebody(smsLinks, {})
  /\ NamesSomebody(mailLinks, {NoPerson})

\* What tells a link, a visit and a person from none.
LEMMA LinkShapes ==
  /\ \A row \in KnowledgeBotLink \cup MailTelegramLink : row # NoLink /\ row.at = "link"
  /\ NoLink.at = "none" /\ NoVisit.at = "idle"
  /\ \A w \in VisitRow : w # NoVisit
  /\ Absent \in User /\ Absent.here = FALSE
  /\ {} \in SUBSET BotRoles
<1>1. /\ \A row \in KnowledgeBotLink \cup MailTelegramLink : row # NoLink /\ row.at = "link"
      /\ NoLink.at = "none" /\ NoVisit.at = "idle"
      /\ \A w \in VisitRow : w # NoVisit
  BY DEF KnowledgeBotLink, MailTelegramLink, NoLink, NoVisit, VisitRow
<1>2. PICK none \in SUBSET BotRoles : none = {}
  OBVIOUS
<1>3. Absent = [here |-> FALSE, active |-> FALSE, nick |-> NoNick, roles |-> none]
  BY <1>2 DEF Absent
<1>4. Absent \in User /\ Absent.here = FALSE
  BY <1>3 DEF User
<1>5. QED
  BY <1>1, <1>4

\* Whom a username names.
LEMMA NickNames ==
  ASSUME NEW nick
  PROVE  /\ get_by_telegram(nick) \in Registered \cup {NoPerson}
         /\ get_by_telegram(nick) = NoPerson /\ nick \in Nicks
              => \A q \in Registered : people[q].nick # nick
         /\ get_by_telegram(NoNick) = NoPerson
<1>1. Registered \subseteq People /\ NoPerson \notin Registered
  BY TelegramLinksAssumption DEF Registered
<1>2. CASE \E p \in Registered : nick \in Nicks /\ people[p].nick = nick
  <2>1. get_by_telegram(nick) \in Registered
    BY <1>2 DEF get_by_telegram
  <2>2. QED
    BY <1>1, <2>1, TelegramLinksAssumption DEF get_by_telegram
<1>3. CASE ~\E p \in Registered : nick \in Nicks /\ people[p].nick = nick
  BY <1>3, TelegramLinksAssumption DEF get_by_telegram
<1>4. QED
  BY <1>2, <1>3

\* The people somebody is linked to.
LEMMA LinkedPeople ==
  ASSUME LinksInv
  PROVE  /\ Registered \subseteq People /\ NoPerson \notin Registered
         /\ ActivePeople \subseteq Registered /\ IsFiniteSet(ActivePeople)
         /\ \A z \in Chats : /\ knowledge[z] = NoLink \/ knowledge[z] \in KnowledgeBotLink
                             /\ smsLinks[z] = NoLink \/ smsLinks[z] \in KnowledgeBotLink
                             /\ mailLinks[z] = NoLink \/ mailLinks[z] \in MailTelegramLink
<1>1. ActivePeople \subseteq Registered /\ Registered \subseteq People
  BY DEF ActivePeople, Registered
<1>2. IsFiniteSet(ActivePeople)
  BY <1>1, FS_Subset DEF LinksInv, PeopleOK
<1>3. QED
  BY <1>1, <1>2, TelegramLinksAssumption DEF LinksInv, LinkTables

\* The page of broadcasts, for one audience: those with a live link are the people
\* of its chats, and what is left of a finite set is its size less theirs.
LEMMA AudienceSplits ==
  ASSUME LinksInv, NEW a \in Audiences,
         NEW reached, reached = {p \in Candidates(a) : exists_for_user(p)},
         NEW missed, missed = {p \in Candidates(a) : ~exists_for_user(p)}
  PROVE  /\ {knowledge[z].person : z \in recipients_for_roles(a).chats} = reached
         /\ Cardinality(missed) = recipients_for_roles(a).skipped
<1>1. recipients_for_roles(a).chats = Reached(a)
  BY DEF recipients_for_roles
<1>2. {knowledge[z].person : z \in Reached(a)} = reached
  BY DEF Reached, exists_for_user
<1>3. IsFiniteSet(Candidates(a))
  BY LinkedPeople, FS_Subset DEF Candidates
<1>4. missed = Candidates(a) \ reached /\ Candidates(a) \cap reached = reached
  OBVIOUS
<1>5. Cardinality(missed) = Cardinality(Candidates(a)) - Cardinality(reached)
  BY <1>3, <1>4, FS_Difference
<1>6. recipients_for_roles(a).skipped = Cardinality(Candidates(a)) - Cardinality(reached)
  BY <1>2 DEF recipients_for_roles
<1>7. QED
  BY <1>1, <1>2, <1>5, <1>6

\* The invariant says what is asked of the tables, and that the page is right.
LEMMA TelegramLinksInvHolds ==
  ASSUME LinksInv
  PROVE  TelegramLinksHold
<1>1. LinksTypeOK
  <2>1. \A z \in Chats : Alive(knowledge, z) => z \in {y \in Chats : Alive(knowledge, y)}
    OBVIOUS
  <2>2. cast.marks \subseteq Chats
    BY DEF LinksInv, CastOK, CastRow
  <2>3. QED
    BY <2>1, <2>2, LinkedPeople
       DEF LinksTypeOK, LinksInv, PeopleOK, CastOK, NamesSomebody, Linked
<1>2. ASSUME NEW k \in BotRoles
      PROVE  LET some == recipients_for_roles([all |-> FALSE, roles |-> {k}]) IN
               /\ audience_by_role(k).not_started = some.skipped
               /\ audience_by_role(k).started
                    = Cardinality({knowledge[z].person : z \in some.chats})
  <2> DEFINE a == [all |-> FALSE, roles |-> {k}]
  <2>1. a \in Audiences
    <3>1. PICK rs \in (SUBSET BotRoles) \ {{}} : rs = {k}
      OBVIOUS
    <3>2. QED
      BY <3>1 DEF Audiences
  <2>2. Candidates(a) = {p \in ActivePeople : k \in people[p].roles}
    BY DEF Candidates
  <2>3. PICK some : some = recipients_for_roles(a)
    OBVIOUS
  <2>4. /\ {knowledge[z].person : z \in some.chats} = {p \in Candidates(a) : exists_for_user(p)}
        /\ Cardinality({p \in Candidates(a) : ~exists_for_user(p)}) = some.skipped
    BY <2>1, <2>3, AudienceSplits
  <2>5. QED
    BY <2>2, <2>3, <2>4 DEF audience_by_role
<1>3. LET all == recipients_for_roles(Everybody) IN
        /\ audience_totals.not_started = all.skipped
        /\ audience_totals.started = Cardinality({knowledge[z].person : z \in all.chats})
  <2>1. Everybody \in Audiences
    BY DEF Audiences
  <2>2. Candidates(Everybody) = ActivePeople
    BY DEF Candidates, Everybody
  <2>3. PICK all : all = recipients_for_roles(Everybody)
    OBVIOUS
  <2>4. /\ {knowledge[z].person : z \in all.chats}
             = {p \in Candidates(Everybody) : exists_for_user(p)}
        /\ Cardinality({p \in Candidates(Everybody) : ~exists_for_user(p)}) = all.skipped
    BY <2>1, <2>3, AudienceSplits
  <2>5. QED
    BY <2>2, <2>3, <2>4 DEF audience_totals
<1>4. AudienceAddsUp
  BY <1>2, <1>3 DEF AudienceAddsUp
<1>5. QED
  BY <1>1, <1>4 DEF TelegramLinksHold

\* It begins so, with one person and no links.
LEMMA LinksInitInv == LinksInit => LinksInv
<1> SUFFICES ASSUME LinksInit PROVE LinksInv
  OBVIOUS
<1> DEFINE first == [here |-> TRUE, active |-> TRUE, nick |-> FirstNick, roles |-> BotRoles]
<1>1. first \in User
  <2>1. FirstNick \in Nicks
    BY TelegramLinksAssumption DEF FirstNick
  <2>2. PICK rs \in SUBSET BotRoles : rs = BotRoles
    OBVIOUS
  <2>3. QED
    BY <2>1, <2>2 DEF User
<1>2. people = [p \in People |-> IF p = FirstPerson THEN first ELSE Absent]
  BY DEF LinksInit
<1>3. people \in [People -> User]
  BY <1>1, <1>2, LinkShapes
<1>4. Registered \subseteq {FirstPerson}
  BY <1>2, LinkShapes DEF Registered
<1>5. IsFiniteSet(Registered)
  BY <1>4, FS_Singleton, FS_Subset
<1>6. PeopleOK
  BY <1>3, <1>4, <1>5 DEF PeopleOK
<1>7. cast \in CastRow /\ cast.marks = {}
  <2>1. PICK none \in SUBSET Chats : none = {}
    OBVIOUS
  <2>2. cast = [at |-> "idle", todo |-> none, marks |-> none]
    BY <2>1 DEF LinksInit
  <2>3. QED
    BY <2>1, <2>2 DEF CastRow
<1>8. VisitsOK
  BY LinkShapes DEF LinksInit, VisitsOK
<1>9. LinkTables /\ \A z \in Chats : ~Linked(knowledge, z) /\ ~Linked(smsLinks, z) /\ ~Linked(mailLinks, z)
  BY DEF LinksInit, LinkTables, Linked
<1>10. QED
  BY <1>6, <1>7, <1>8, <1>9 DEF LinksInv, CastOK, NamesSomebody

\* A visit begins: it is about somebody, and about whom it holds.
LEMMA TurnKeeps ==
  ASSUME LinksInv, NEW v \in Visitors, NEW w \in VisitRow, Turn(v, w),
         w.at \in {"knowledge", "mail"} /\ w.held # NoPerson => w.person = w.held
  PROVE  LinksInv'
<1>1. visit' \in [Visitors -> VisitRow \cup {NoVisit}]
      /\ \A u \in Visitors : visit'[u] = IF u = v THEN w ELSE visit[u]
  BY DEF Turn, LinksInv, VisitsOK
<1>2. VisitsOK'
  BY <1>1 DEF LinksInv, VisitsOK
<1>3. UNCHANGED <<people, knowledge, smsLinks, mailLinks, cast>>
  BY DEF Turn
<1>4. QED
  BY <1>2, <1>3
     DEF LinksInv, PeopleOK, Registered, LinkTables, NamesSomebody, Linked, CastOK, Alive

\* Whom a link holds is its person, who is there.
LEMMA HeldPerson ==
  ASSUME LinksInv, NEW z \in Chats
  PROVE  /\ Held(knowledge, z) \in People \cup {NoPerson} /\ Held(mailLinks, z) \in People \cup {NoPerson}
         /\ Held(knowledge, z) # NoPerson => Held(knowledge, z) = knowledge[z].person
         /\ Held(mailLinks, z) # NoPerson =>
              Linked(mailLinks, z) /\ Held(mailLinks, z) = mailLinks[z].person
BY LinkedPeople DEF Held

\* The visits that begin.
LEMMA VisitKnowledgeKeeps ==
  ASSUME LinksInv, NEW v \in Visitors, NEW z \in Chats, NEW nick \in {NoNick} \cup Nicks,
         VisitKnowledge(v, z, nick)
  PROVE  LinksInv'
<1>1. PICK p : p = _lookup_user(z, nick)
  OBVIOUS
<1>2. PICK h : h = IF Alive(knowledge, z) THEN Held(knowledge, z) ELSE NoPerson
  OBVIOUS
<1>3. PICK w : w = [at |-> "knowledge", chat |-> z, person |-> p, nick |-> nick, held |-> h]
  OBVIOUS
<1>4. p \in ActivePeople /\ Turn(v, w)
  BY <1>1, <1>2, <1>3 DEF VisitKnowledge
<1>5. h \in People \cup {NoPerson} /\ (h # NoPerson => Alive(knowledge, z) /\ h = knowledge[z].person)
  BY <1>2, HeldPerson
<1>6. h # NoPerson => p = h
  BY <1>1, <1>5 DEF _lookup_user
<1>7. w \in VisitRow
  BY <1>3, <1>4, <1>5, LinkedPeople DEF VisitRow
<1>8. QED
  BY <1>3, <1>4, <1>6, <1>7, TurnKeeps

\* A visit of the mail bot is about a person who is there, or about nobody.
LEMMA VisitMailKeeps ==
  ASSUME LinksInv, NEW v \in Visitors, NEW z \in Chats, NEW nick \in {NoNick} \cup Nicks,
         NEW start \in BOOLEAN, VisitMail(v, z, nick, start)
  PROVE  LinksInv'
<1>1. PICK p : p = _resolve_user(z, nick)
  OBVIOUS
<1>2. PICK h : h = Held(mailLinks, z)
  OBVIOUS
<1>3. PICK k : k = IF nick = NoNick /\ p # NoPerson THEN mailLinks[z].nick ELSE nick
  OBVIOUS
<1>4. PICK w : w = [at |-> "mail", chat |-> z, person |-> p, held |-> h, nick |-> k]
  OBVIOUS
<1>5. Turn(v, w)
  BY <1>1, <1>2, <1>3, <1>4 DEF VisitMail
<1>6. h \in People \cup {NoPerson} /\ (h # NoPerson => Linked(mailLinks, z))
  BY <1>2, HeldPerson
<1>7. p \in People \cup {NoPerson} /\ (h # NoPerson => p = h)
  BY <1>1, <1>2, <1>6, LinkedPeople DEF _resolve_user
<1>8. k \in Nicks \cup {NoNick}
  <2>1. CASE nick = NoNick /\ p # NoPerson
    <3>1. get_by_telegram(nick) = NoPerson
      BY <2>1, NickNames
    <3>2. h # NoPerson
      BY <1>1, <1>2, <2>1, <3>1, LinkedPeople DEF _resolve_user
    <3>3. mailLinks[z] \in MailTelegramLink
      BY <1>6, <3>2, LinkedPeople DEF Linked
    <3>4. QED
      BY <1>3, <2>1, <3>3 DEF MailTelegramLink
  <2>2. CASE ~(nick = NoNick /\ p # NoPerson)
    BY <1>3, <2>2
  <2>3. QED
    BY <2>1, <2>2
<1>9. w \in VisitRow
  BY <1>4, <1>6, <1>7, <1>8 DEF VisitRow
<1>10. QED
  BY <1>4, <1>5, <1>7, <1>9, TurnKeeps

\* A visit of the SMS bot is about an active person.
LEMMA VisitSmsKeeps ==
  ASSUME LinksInv, NEW v \in Visitors, NEW z \in Chats, NEW nick \in {NoNick} \cup Nicks,
         VisitSms(v, z, nick) \/ VisitSmsOwn(v, z)
  PROVE  LinksInv'
<1>1. PICK p \in ActivePeople, at \in {"sms", "revive"} :
        Turn(v, [at |-> at, chat |-> z, person |-> p, nick |-> NoNick, held |-> NoPerson])
  BY DEF VisitSms, VisitSmsOwn
<1>2. PICK w : w = [at |-> at, chat |-> z, person |-> p, nick |-> NoNick, held |-> NoPerson]
  OBVIOUS
<1>3. w \in VisitRow /\ w.held = NoPerson
  BY <1>2, LinkedPeople DEF VisitRow
<1>4. QED
  BY <1>1, <1>2, <1>3, TurnKeeps

\* A visit ends, and one table has got a link.
LEMMA LeaveKeeps ==
  ASSUME LinksInv, NEW v \in Visitors, Leave(v), LinkTables',
         \A z \in cast.marks : Alive(knowledge', z),
         NamesSomebody(knowledge', {}), NamesSomebody(smsLinks', {}),
         NamesSomebody(mailLinks', {NoPerson})
  PROVE  LinksInv'
<1>1. VisitsOK'
  <2>1. visit' \in [Visitors -> VisitRow \cup {NoVisit}]
        /\ \A u \in Visitors : visit'[u] = IF u = v THEN NoVisit ELSE visit[u]
    BY DEF Leave, LinksInv, VisitsOK
  <2>2. QED
    BY <2>1, LinkShapes DEF LinksInv, VisitsOK
<1>2. PeopleOK' /\ Registered' = Registered
  BY DEF Leave, LinksInv, PeopleOK, Registered
<1>3. CastOK'
  BY DEF Leave, LinksInv, CastOK, Alive, Linked
<1>4. NamesSomebody(knowledge, {})' /\ NamesSomebody(smsLinks, {})' /\ NamesSomebody(mailLinks, {NoPerson})'
  BY <1>2 DEF NamesSomebody, Linked
<1>5. QED
  BY <1>1, <1>2, <1>3, <1>4 DEF LinksInv

\* What a visit under way is.
LEMMA VisitShape ==
  ASSUME LinksInv, NEW v \in Visitors
  PROVE  /\ visit[v].at # "idle" => visit[v] \in VisitRow /\ visit[v] # NoVisit /\ visit[v].chat \in Chats
         /\ visit[v].at \in {"knowledge", "mail", "sms", "revive"} => visit[v].at # "idle"
<1>1. visit[v] \in VisitRow \/ visit[v] = NoVisit
  BY DEF LinksInv, VisitsOK
<1>2. QED
  BY <1>1, LinkShapes DEF VisitRow

\* A visit to the knowledge bot writes a link to somebody who is there still, or none.
LEMMA upsertKeeps ==
  ASSUME LinksInv, NEW v \in Visitors, upsert(v)
  PROVE  LinksInv'
<1>1. PICK w : w = visit[v]
  OBVIOUS
<1>2. w \in VisitRow /\ w.chat \in Chats /\ w.chat \notin cast.marks /\ Leave(v)
      /\ UNCHANGED <<smsLinks, mailLinks>>
  BY <1>1, VisitShape DEF upsert
<1>3. PICK row : row = [at |-> "link", person |-> w.person, dead |-> FALSE]
  OBVIOUS
<1>4. knowledge' = IF Known(w) THEN [knowledge EXCEPT ![w.chat] = row] ELSE knowledge
  BY <1>1, <1>3 DEF upsert
<1>5. Known(w) => row \in KnowledgeBotLink /\ row.person \in Registered
  BY <1>3, LinkedPeople DEF Known, KnowledgeBotLink
<1>6. \A z \in Chats : knowledge'[z] = knowledge[z] \/ (Known(w) /\ z = w.chat /\ knowledge'[z] = row)
  BY <1>4 DEF LinksInv, LinkTables
<1>7. LinkTables'
  BY <1>2, <1>4, <1>5 DEF LinksInv, LinkTables
<1>8. \A z \in cast.marks : z \in Chats /\ knowledge'[z] = knowledge[z]
  BY <1>2, <1>6 DEF LinksInv, CastOK, CastRow
<1>9. \A z \in cast.marks : Alive(knowledge', z)
  BY <1>8 DEF LinksInv, CastOK, Alive, Linked
<1>10. NamesSomebody(knowledge', {})
  BY <1>5, <1>6 DEF LinksInv, NamesSomebody, Linked
<1>11. QED
  BY <1>2, <1>7, <1>9, <1>10, LeaveKeeps DEF LinksInv

\* What the write of the mail bot leaves in a row.
LEMMA MailWrites ==
  ASSUME LinksInv, NEW v \in Visitors, FinishMail(v), NEW z \in Chats
  PROVE  /\ mailLinks'[z] = mailLinks[z] \/ mailLinks'[z] \in MailTelegramLink
         /\ \/ mailLinks'[z] = mailLinks[z]
            \/ z = visit[v].chat /\ Known(visit[v]) /\ mailLinks'[z].person = visit[v].person
            \/ z = visit[v].chat /\ visit[v].person = NoPerson
                 /\ mailLinks'[z].person = IF Linked(mailLinks, z) THEN mailLinks[z].person ELSE NoPerson
         /\ mailLinks' = [y \in Chats |-> mailLinks'[y]]
<1>1. PICK w : w = visit[v]
  OBVIOUS
<1>2. w \in VisitRow /\ w.chat \in Chats
  BY <1>1, VisitShape DEF FinishMail
<1>3. mailLinks \in [Chats -> MailTelegramLink \cup {NoLink}]
  BY DEF LinksInv, LinkTables
<1>4. mailLinks' = IF w.person = NoPerson THEN upsert_orphan(w)
                   ELSE IF Known(w) THEN bind(w) ELSE mailLinks
  BY <1>1 DEF FinishMail
<1>5. CASE w.person = NoPerson
  <2>1. mailLinks' = upsert_orphan(w)
    BY <1>4, <1>5
  <2>2. PICK fresh : fresh = [at |-> "link", person |-> NoPerson, nick |-> w.nick, dead |-> FALSE]
    OBVIOUS
  <2>3. PICK old : old = mailLinks[w.chat]
    OBVIOUS
  <2>4. PICK row : row = IF old = NoLink THEN fresh ELSE [old EXCEPT !.nick = w.nick]
    OBVIOUS
  <2>5. mailLinks' = [mailLinks EXCEPT ![w.chat] = row]
    BY <1>2, <1>3, <2>1, <2>2, <2>3, <2>4 DEF upsert_orphan
  <2>6. old = NoLink \/ old \in MailTelegramLink
    BY <1>2, <1>3, <2>3
  <2>7. row \in MailTelegramLink /\ row.person = IF old = NoLink THEN NoPerson ELSE old.person
    <3>1. CASE old = NoLink
      BY <1>2, <2>2, <2>4, <3>1 DEF MailTelegramLink, VisitRow
    <3>2. CASE old # NoLink
      <4>1. row = [old EXCEPT !.nick = w.nick] /\ old \in MailTelegramLink
        BY <2>4, <2>6, <3>2
      <4>2. QED
        BY <1>2, <3>2, <4>1 DEF MailTelegramLink, VisitRow
    <3>3. QED
      BY <3>1, <3>2
  <2>8. QED
    BY <1>1, <1>2, <1>3, <1>5, <2>3, <2>5, <2>7 DEF Linked
<1>6. CASE w.person # NoPerson /\ Known(w)
  <2>1. PICK row : row = [at |-> "link", person |-> w.person, nick |-> w.nick, dead |-> FALSE]
    OBVIOUS
  <2>2. mailLinks' = [mailLinks EXCEPT ![w.chat] = row]
    BY <1>4, <1>6, <2>1 DEF bind
  <2>3. row \in MailTelegramLink /\ row.person = w.person
    BY <1>2, <2>1 DEF MailTelegramLink, VisitRow
  <2>4. QED
    BY <1>1, <1>2, <1>3, <1>6, <2>2, <2>3
<1>7. CASE w.person # NoPerson /\ ~Known(w)
  BY <1>3, <1>4, <1>7
<1>8. QED
  BY <1>5, <1>6, <1>7

\* A visit to the mail bot writes a link to somebody who is there still, or to nobody.
LEMMA FinishMailKeeps ==
  ASSUME LinksInv, NEW v \in Visitors, FinishMail(v)
  PROVE  LinksInv'
<1>1. Leave(v) /\ UNCHANGED <<knowledge, smsLinks>>
  BY DEF FinishMail
<1>2. mailLinks \in [Chats -> MailTelegramLink \cup {NoLink}]
  BY DEF LinksInv, LinkTables
<1>3. \A z \in Chats : mailLinks'[z] \in MailTelegramLink \cup {NoLink}
  BY <1>2, MailWrites
<1>4. LinkTables'
  <2>1. visit[v].chat \in Chats
    BY VisitShape DEF FinishMail
  <2>2. mailLinks' = [y \in Chats |-> mailLinks'[y]]
    BY <2>1, MailWrites
  <2>3. QED
    BY <1>1, <1>3, <2>2 DEF LinksInv, LinkTables
<1>5. NamesSomebody(mailLinks', {NoPerson})
  <2>1. SUFFICES ASSUME NEW z \in Chats, mailLinks'[z] # NoLink
                 PROVE  mailLinks'[z].person \in Registered \cup {NoPerson}
    BY DEF NamesSomebody, Linked
  <2>2. Linked(mailLinks, z) => mailLinks[z].person \in Registered \cup {NoPerson}
    BY DEF LinksInv, NamesSomebody
  <2>3. QED
    BY <2>1, <2>2, MailWrites DEF Linked, Known
<1>6. QED
  BY <1>1, <1>4, <1>5, LeaveKeeps DEF LinksInv, CastOK

\* A visit to the SMS bot writes a link to somebody who is there, or revives the link.
LEMMA FinishSmsKeeps ==
  ASSUME LinksInv, NEW v \in Visitors, FinishSms(v)
  PROVE  LinksInv'
<1>1. PICK w : w = visit[v]
  OBVIOUS
<1>2. w \in VisitRow /\ w.chat \in Chats /\ Leave(v) /\ UNCHANGED <<knowledge, mailLinks>>
  BY <1>1, VisitShape DEF FinishSms
<1>3. PICK row : row = [at |-> "link", person |-> w.person, dead |-> FALSE]
  OBVIOUS
<1>4. PICK old : old = smsLinks[w.chat]
  OBVIOUS
<1>5. \/ smsLinks' = smsLinks
      \/ Known(w) /\ smsLinks' = [smsLinks EXCEPT ![w.chat] = row]
      \/ Linked(smsLinks, w.chat) /\ smsLinks' = [smsLinks EXCEPT ![w.chat] = [old EXCEPT !.dead = FALSE]]
  <2>1. smsLinks \in [Chats -> KnowledgeBotLink \cup {NoLink}]
    BY DEF LinksInv, LinkTables
  <2>2. CASE w.at = "sms" /\ Known(w)
    BY <1>1, <1>3, <2>2 DEF FinishSms
  <2>3. CASE w.at = "revive" /\ Linked(smsLinks, w.chat)
    <3>1. smsLinks' = [smsLinks EXCEPT ![w.chat].dead = FALSE]
      BY <1>1, <2>3 DEF FinishSms
    <3>2. smsLinks' = [smsLinks EXCEPT ![w.chat] = [old EXCEPT !.dead = FALSE]]
      BY <1>4, <3>1
    <3>3. QED
      BY <2>3, <3>2
  <2>4. CASE ~(w.at = "sms" /\ Known(w)) /\ ~(w.at = "revive" /\ Linked(smsLinks, w.chat))
    BY <1>1, <2>4 DEF FinishSms
  <2>5. QED
    BY <2>2, <2>3, <2>4
<1>6. Known(w) => row \in KnowledgeBotLink /\ row.person \in Registered
  BY <1>3, LinkedPeople DEF Known, KnowledgeBotLink
<1>7. Linked(smsLinks, w.chat) =>
        [old EXCEPT !.dead = FALSE] \in KnowledgeBotLink /\ [old EXCEPT !.dead = FALSE].person \in Registered
  <2>1. SUFFICES ASSUME Linked(smsLinks, w.chat)
                 PROVE  [old EXCEPT !.dead = FALSE] \in KnowledgeBotLink
                          /\ [old EXCEPT !.dead = FALSE].person \in Registered
    OBVIOUS
  <2>2. old \in KnowledgeBotLink /\ old.person \in Registered
    BY <1>2, <1>4, <2>1, LinkedPeople DEF Linked, LinksInv, NamesSomebody
  <2>3. QED
    BY <2>2 DEF KnowledgeBotLink
<1>8. LinkTables'
  BY <1>2, <1>5, <1>6, <1>7 DEF LinksInv, LinkTables
<1>9. NamesSomebody(smsLinks', {})
  BY <1>2, <1>5, <1>6, <1>7 DEF LinksInv, LinkTables, NamesSomebody, Linked
<1>10. QED
  BY <1>2, <1>8, <1>9, LeaveKeeps DEF LinksInv, CastOK

\* A change of one person's row that leaves its username his own.
LEMMA PersonChanges ==
  ASSUME LinksInv, NEW p \in People, NEW row \in User, Change(p, row),
         row.here => \A q \in Registered \ {p} : people[q].nick # row.nick
  PROVE  /\ PeopleOK' /\ VisitsOK' /\ cast' = cast
         /\ Registered' = IF row.here THEN Registered \cup {p} ELSE Registered \ {p}
<1>1. people' = [people EXCEPT ![p] = row] /\ UNCHANGED <<visit, cast>>
  BY DEF Change
<1>2. people \in [People -> User] /\ IsFiniteSet(Registered)
  BY DEF LinksInv, PeopleOK
<1>3. people' \in [People -> User]
      /\ \A q \in People : people'[q] = IF q = p THEN row ELSE people[q]
  BY <1>1, <1>2
<1>4. Registered' = IF row.here THEN Registered \cup {p} ELSE Registered \ {p}
  BY <1>3 DEF Registered
<1>5. IsFiniteSet(Registered')
  BY <1>2, <1>4, FS_AddElement, FS_RemoveElement
<1>6. ASSUME NEW q \in Registered', NEW r \in Registered', people'[q].nick = people'[r].nick
      PROVE  q = r
  <2>1. \A s \in Registered' : s \in People /\ (s # p => s \in Registered /\ people'[s] = people[s])
                               /\ (s = p => row.here /\ people'[s] = row)
    BY <1>3, <1>4, LinkedPeople
  <2>2. CASE q # p /\ r # p
    BY <1>6, <2>1, <2>2 DEF LinksInv, PeopleOK
  <2>3. CASE q = p /\ r # p
    BY <1>6, <2>1, <2>3
  <2>4. CASE q # p /\ r = p
    BY <1>6, <2>1, <2>4
  <2>5. QED
    BY <2>2, <2>3, <2>4
<1>7. PeopleOK'
  BY <1>3, <1>5, <1>6 DEF PeopleOK
<1>8. VisitsOK'
  BY <1>1 DEF LinksInv, VisitsOK
<1>9. QED
  BY <1>1, <1>4, <1>7, <1>8

\* Somebody comes or changes, and the tables follow: nobody else's link goes.
LEMMA ChangeKeeps ==
  ASSUME LinksInv, NEW p \in People, NEW row \in User, Change(p, row), row.here,
         \A q \in Registered \ {p} : people[q].nick # row.nick,
         UNCHANGED <<knowledge, smsLinks>>,
         \/ UNCHANGED mailLinks /\ p \in Registered
         \/ \E nick \in Nicks : bind_orphans_for_user(p, nick)
  PROVE  LinksInv'
<1>1. PeopleOK' /\ VisitsOK' /\ cast' = cast /\ Registered' = Registered \cup {p}
  BY PersonChanges
<1>2. \A z \in Chats : \/ mailLinks'[z] = mailLinks[z]
                       \/ mailLinks'[z] \in MailTelegramLink /\ mailLinks'[z].person = p
  <2>1. CASE UNCHANGED mailLinks
    BY <2>1
  <2>2. ASSUME NEW nick \in Nicks, bind_orphans_for_user(p, nick), NEW z \in Chats
        PROVE  \/ mailLinks'[z] = mailLinks[z]
               \/ mailLinks'[z] \in MailTelegramLink /\ mailLinks'[z].person = p
    <3>1. mailLinks'[z] = mailLinks[z] \/
            (Linked(mailLinks, z) /\ mailLinks'[z] = [mailLinks[z] EXCEPT !.person = p])
      BY <2>2 DEF bind_orphans_for_user
    <3>2. Linked(mailLinks, z) => mailLinks[z] \in MailTelegramLink
      BY LinkedPeople DEF Linked
    <3>3. mailLinks[z] \in MailTelegramLink =>
            [mailLinks[z] EXCEPT !.person = p] \in MailTelegramLink /\ [mailLinks[z] EXCEPT !.person = p].person = p
      BY DEF MailTelegramLink
    <3>4. QED
      BY <3>1, <3>2, <3>3
  <2>3. QED
    BY <2>1, <2>2
<1>3. LinkTables'
  <2>1. mailLinks' = mailLinks \/ mailLinks' = [z \in Chats |-> mailLinks'[z]]
    BY DEF bind_orphans_for_user
  <2>2. mailLinks' \in [Chats -> MailTelegramLink \cup {NoLink}]
    BY <1>2, <2>1 DEF LinksInv, LinkTables
  <2>3. QED
    BY <2>2 DEF LinksInv, LinkTables
<1>4. CastOK'
  BY <1>1 DEF LinksInv, CastOK, Alive, Linked
<1>5. NamesSomebody(knowledge, {})' /\ NamesSomebody(smsLinks, {})'
  BY <1>1 DEF LinksInv, NamesSomebody, Linked
<1>6. NamesSomebody(mailLinks, {NoPerson})'
  BY <1>1, <1>2 DEF LinksInv, NamesSomebody, Linked
<1>7. QED
  BY <1>1, <1>3, <1>4, <1>5, <1>6 DEF LinksInv

\* A new person takes over the chats that wait for the name.
LEMMA CreatePersonKeeps ==
  ASSUME LinksInv, NEW p \in People, CreatePerson(p)
  PROVE  LinksInv'
<1>1. PICK nick \in Nicks, k \in BotRoles :
        /\ get_by_telegram(nick) = NoPerson
        /\ Change(p, [here |-> TRUE, active |-> TRUE, nick |-> nick, roles |-> {k}])
        /\ bind_orphans_for_user(p, nick)
  BY DEF CreatePerson
<1>2. PICK rs \in SUBSET BotRoles : rs = {k}
  OBVIOUS
<1>3. PICK row : row = [here |-> TRUE, active |-> TRUE, nick |-> nick, roles |-> rs]
  OBVIOUS
<1>4. row \in User /\ row.here /\ row.nick = nick
  BY <1>3 DEF User
<1>5. \A q \in Registered \ {p} : people[q].nick # row.nick
  BY <1>1, <1>4, NickNames
<1>6. UNCHANGED <<knowledge, smsLinks>> /\ Change(p, row)
  BY <1>1, <1>2, <1>3 DEF CreatePerson
<1>7. QED
  BY <1>1, <1>4, <1>5, <1>6, ChangeKeeps

\* Somebody renamed keeps the chats, and takes over those that wait for the new name.
LEMMA RenamePersonKeeps ==
  ASSUME LinksInv, NEW p \in People, RenamePerson(p)
  PROVE  LinksInv'
<1>1. PICK nick \in Nicks :
        /\ get_by_telegram(nick) = NoPerson
        /\ Change(p, [people[p] EXCEPT !.nick = nick]) /\ bind_orphans_for_user(p, nick)
  BY DEF RenamePerson
<1>2. PICK row : row = [people[p] EXCEPT !.nick = nick]
  OBVIOUS
<1>3. people[p] \in User /\ people[p].here
  BY DEF RenamePerson, Registered, LinksInv, PeopleOK
<1>4. row \in User /\ row.here /\ row.nick = nick
  BY <1>2, <1>3 DEF User
<1>5. \A q \in Registered \ {p} : people[q].nick # row.nick
  BY <1>1, <1>4, NickNames
<1>6. UNCHANGED <<knowledge, smsLinks>> /\ Change(p, row)
  BY <1>1, <1>2 DEF RenamePerson
<1>7. QED
  BY <1>1, <1>4, <1>5, <1>6, ChangeKeeps

\* Somebody switched off or on keeps the chats.
LEMMA SwitchPersonKeeps ==
  ASSUME LinksInv, NEW p \in People, SwitchPerson(p)
  PROVE  LinksInv'
<1>1. PICK row : row = [people[p] EXCEPT !.active = ~@]
  OBVIOUS
<1>2. p \in Registered /\ Change(p, row) /\ UNCHANGED <<knowledge, smsLinks, mailLinks>>
  BY <1>1 DEF SwitchPerson
<1>3. people[p] \in User /\ people[p].here
  BY <1>2 DEF Registered, LinksInv, PeopleOK
<1>4. row \in User /\ row.here /\ row.nick = people[p].nick
  BY <1>1, <1>3 DEF User
<1>5. \A q \in Registered \ {p} : people[q].nick # row.nick
  BY <1>2, <1>4 DEF LinksInv, PeopleOK
<1>6. QED
  BY <1>2, <1>4, <1>5, ChangeKeeps

\* A person goes, and with him the links that name him.
LEMMA DeletePersonKeeps ==
  ASSUME LinksInv, NEW p \in People, DeletePerson(p)
  PROVE  LinksInv'
<1>1. Change(p, Absent) /\ \A z \in cast.marks : knowledge[z].person # p
  BY DEF DeletePerson
<1>2. PeopleOK' /\ VisitsOK' /\ cast' = cast /\ Registered' = Registered \ {p}
  BY <1>1, LinkShapes, PersonChanges
<1>3. /\ knowledge' = [z \in Chats |-> IF Linked(knowledge, z) /\ knowledge[z].person = p THEN NoLink ELSE knowledge[z]]
      /\ smsLinks' = [z \in Chats |-> IF Linked(smsLinks, z) /\ smsLinks[z].person = p THEN NoLink ELSE smsLinks[z]]
      /\ mailLinks' = [z \in Chats |-> IF Linked(mailLinks, z) /\ mailLinks[z].person = p THEN NoLink ELSE mailLinks[z]]
  BY DEF DeletePerson, Unlinked
<1>4. LinkTables'
  BY <1>3 DEF LinksInv, LinkTables
<1>5. CastOK'
  <2>1. \A z \in cast.marks : z \in Chats /\ knowledge'[z] = knowledge[z]
    BY <1>1, <1>3 DEF LinksInv, CastOK, CastRow
  <2>2. QED
    BY <1>2, <2>1 DEF LinksInv, CastOK, Alive, Linked
<1>6. NamesSomebody(knowledge, {})'
  BY <1>2, <1>3 DEF LinksInv, NamesSomebody, Linked
<1>7. NamesSomebody(smsLinks, {})'
  BY <1>2, <1>3 DEF LinksInv, NamesSomebody, Linked
<1>8. NamesSomebody(mailLinks, {NoPerson})'
  BY <1>2, <1>3 DEF LinksInv, NamesSomebody, Linked
<1>9. QED
  BY <1>2, <1>4, <1>5, <1>6, <1>7, <1>8 DEF LinksInv

\* The mail bot's table alone changes, row by row, among rows; refused messages and
\* the tick that gives orphans their person do that.
LEMMA MailTableKeeps ==
  ASSUME LinksInv, UNCHANGED <<people, knowledge, smsLinks, visit, cast>>,
         mailLinks' \in [Chats -> MailTelegramLink \cup {NoLink}],
         NamesSomebody(mailLinks', {NoPerson})
  PROVE  LinksInv'
BY DEF LinksInv, PeopleOK, Registered, LinkTables, VisitsOK, CastOK, Alive, Linked, NamesSomebody

\* A pass over the orphans binds a chat to the one person of its name.
LEMMA ReconcileKeeps ==
  ASSUME LinksInv, reconcile_orphans
  PROVE  LinksInv'
<1>1. UNCHANGED <<people, knowledge, smsLinks, visit, cast>>
  BY DEF reconcile_orphans
<1>2. ASSUME NEW z \in Chats
      PROVE  \/ mailLinks'[z] = mailLinks[z]
             \/ mailLinks'[z] \in MailTelegramLink /\ mailLinks'[z].person \in Registered \cup {NoPerson}
  <2>1. PICK q : q = get_by_telegram(mailLinks[z].nick)
    OBVIOUS
  <2>2. q \in Registered \cup {NoPerson} /\ q \in People \cup {NoPerson}
    BY <2>1, NickNames, LinkedPeople
  <2>3. \/ mailLinks'[z] = mailLinks[z]
        \/ Linked(mailLinks, z) /\ mailLinks'[z] = [mailLinks[z] EXCEPT !.person = q]
    BY <2>1 DEF reconcile_orphans
  <2>4. Linked(mailLinks, z) => mailLinks[z] \in MailTelegramLink
    BY LinkedPeople DEF Linked
  <2>5. mailLinks[z] \in MailTelegramLink =>
          [mailLinks[z] EXCEPT !.person = q] \in MailTelegramLink /\ [mailLinks[z] EXCEPT !.person = q].person = q
    BY <2>2 DEF MailTelegramLink
  <2>6. QED
    BY <2>2, <2>3, <2>4, <2>5
<1>3. mailLinks' = [z \in Chats |-> mailLinks'[z]]
  BY DEF reconcile_orphans
<1>4. mailLinks' \in [Chats -> MailTelegramLink \cup {NoLink}]
  BY <1>2, <1>3 DEF LinksInv, LinkTables
<1>5. NamesSomebody(mailLinks', {NoPerson})
  BY <1>2 DEF LinksInv, NamesSomebody, Linked
<1>6. QED
  BY <1>1, <1>4, <1>5, MailTableKeeps

\* A refused message kills a link and leaves it its person.
LEMMA RefuseKeeps ==
  ASSUME LinksInv, NEW z \in Chats, RefuseMail(z) \/ RefuseSms(z)
  PROVE  LinksInv'
<1>1. CASE RefuseMail(z)
  <2>1. PICK row : row = [mailLinks[z] EXCEPT !.dead = TRUE]
    OBVIOUS
  <2>2. mailLinks[z] \in MailTelegramLink /\ mailLinks[z].person \in Registered \cup {NoPerson}
    BY <1>1, LinkedPeople DEF RefuseMail, Alive, Linked, LinksInv, NamesSomebody
  <2>3. row \in MailTelegramLink /\ row.person = mailLinks[z].person
    BY <2>1, <2>2 DEF MailTelegramLink
  <2>4. mailLinks \in [Chats -> MailTelegramLink \cup {NoLink}]
    BY DEF LinksInv, LinkTables
  <2>5. mailLinks' = [mailLinks EXCEPT ![z] = row]
    BY <1>1, <2>1, <2>4 DEF RefuseMail
  <2>6. mailLinks' \in [Chats -> MailTelegramLink \cup {NoLink}]
    BY <2>3, <2>4, <2>5
  <2>7. NamesSomebody(mailLinks', {NoPerson})
    BY <2>2, <2>3, <2>4, <2>5 DEF LinksInv, NamesSomebody, Linked
  <2>8. UNCHANGED <<people, knowledge, smsLinks, visit, cast>>
    BY <1>1 DEF RefuseMail
  <2>9. QED
    BY <2>6, <2>7, <2>8, MailTableKeeps
<1>2. CASE RefuseSms(z)
  <2>1. PICK row : row = [smsLinks[z] EXCEPT !.dead = TRUE]
    OBVIOUS
  <2>2. smsLinks[z] \in KnowledgeBotLink /\ smsLinks[z].person \in Registered
    BY <1>2, LinkedPeople DEF RefuseSms, Alive, Linked, LinksInv, NamesSomebody
  <2>3. row \in KnowledgeBotLink /\ row.person = smsLinks[z].person
    BY <2>1, <2>2 DEF KnowledgeBotLink
  <2>4. smsLinks \in [Chats -> KnowledgeBotLink \cup {NoLink}]
    BY DEF LinksInv, LinkTables
  <2>5. smsLinks' = [smsLinks EXCEPT ![z] = row]
    BY <1>2, <2>1, <2>4 DEF RefuseSms
  <2>6. smsLinks' \in [Chats -> KnowledgeBotLink \cup {NoLink}]
    BY <2>3, <2>4, <2>5
  <2>7. \A y \in Chats : Linked(smsLinks', y) => smsLinks'[y].person \in Registered
    BY <2>2, <2>3, <2>4, <2>5 DEF LinksInv, NamesSomebody, Linked
  <2>8. UNCHANGED <<people, knowledge, mailLinks, visit, cast>>
    BY <1>2 DEF RefuseSms
  <2>9. QED
    BY <2>6, <2>7, <2>8
       DEF LinksInv, PeopleOK, Registered, LinkTables, VisitsOK, CastOK, Alive, Linked, NamesSomebody
<1>3. QED
  BY <1>1, <1>2

\* What a broadcast does before it ends changes nothing but the broadcast; it marks
\* live links only.
LEMMA CastKeeps ==
  ASSUME LinksInv, \/ BeginCast \/ MarkCast
                   \/ \E z \in Chats : SendCast(z)
  PROVE  LinksInv'
<1>1. UNCHANGED <<people, knowledge, smsLinks, mailLinks, visit>>
  BY DEF BeginCast, MarkCast, SendCast
<1>2. cast \in CastRow /\ cast.marks \subseteq Chats /\ \A z \in cast.marks : Alive(knowledge, z)
  BY DEF LinksInv, CastOK, CastRow
<1>3. CASE BeginCast
  <2>1. PICK a \in Audiences :
          cast' = [at |-> "sending", todo |-> recipients_for_roles(a).chats, marks |-> {}]
    BY <1>3 DEF BeginCast
  <2>2. PICK todo \in SUBSET Chats : todo = recipients_for_roles(a).chats
    BY DEF recipients_for_roles, Reached
  <2>3. PICK none \in SUBSET Chats : none = {}
    OBVIOUS
  <2>4. cast' = [at |-> "sending", todo |-> todo, marks |-> none]
    BY <2>1, <2>2, <2>3
  <2>5. cast' \in CastRow /\ cast'.marks = {}
    BY <2>3, <2>4 DEF CastRow
  <2>6. QED
    BY <1>1, <2>5 DEF LinksInv, PeopleOK, Registered, LinkTables, VisitsOK, CastOK, NamesSomebody, Linked
<1>4. CASE MarkCast
  <2>1. PICK locked \in SUBSET Chats :
          locked = cast.marks \cup {z \in Chats : z = cast.chat /\ Alive(knowledge, z)}
    BY <1>2
  <2>2. cast' = [at |-> "sending", todo |-> cast.todo, marks |-> locked]
    BY <1>4, <2>1 DEF MarkCast
  <2>3. cast' \in CastRow /\ cast'.marks = locked
    BY <1>2, <2>2 DEF CastRow
  <2>4. \A z \in locked : Alive(knowledge, z)
    BY <1>2, <2>1
  <2>5. CastOK'
    BY <1>1, <2>3, <2>4 DEF CastOK, Alive, Linked
  <2>6. QED
    BY <1>1, <2>5 DEF LinksInv, PeopleOK, Registered, LinkTables, VisitsOK, NamesSomebody, Linked
<1>5. ASSUME NEW z \in Chats, SendCast(z) PROVE LinksInv'
  <2>1. PICK todo \in SUBSET Chats : todo = cast.todo \ {z}
    BY <1>2 DEF CastRow
  <2>2. \/ cast' = [cast EXCEPT !.todo = todo]
        \/ cast' = [at |-> "refused", chat |-> z, todo |-> todo, marks |-> cast.marks]
    BY <1>5, <2>1 DEF SendCast
  <2>3. cast' \in CastRow /\ cast'.marks = cast.marks
    BY <1>2, <2>1, <2>2 DEF CastRow
  <2>4. CastOK'
    BY <1>1, <1>2, <2>3 DEF CastOK, Alive, Linked
  <2>5. QED
    BY <1>1, <2>4 DEF LinksInv, PeopleOK, Registered, LinkTables, VisitsOK, NamesSomebody, Linked
<1>6. QED
  BY <1>3, <1>4, <1>5

\* The end of a broadcast, its marks written or lost.
LEMMA EndCastRows ==
  ASSUME LinksInv, EndCast, NEW z \in Chats
  PROVE  /\ Linked(knowledge', z) <=> Linked(knowledge, z)
         /\ Linked(knowledge, z) => knowledge'[z] \in KnowledgeBotLink
                                      /\ knowledge'[z].person = knowledge[z].person
         /\ knowledge' = knowledge \/ knowledge' = [y \in Chats |-> knowledge'[y]]
<1>1. PICK row : row = [knowledge[z] EXCEPT !.dead = TRUE]
  OBVIOUS
<1>2. knowledge'[z] = knowledge[z] \/ (z \in cast.marks /\ knowledge'[z] = row)
  BY <1>1 DEF EndCast
<1>3. z \in cast.marks => Linked(knowledge, z)
  BY DEF LinksInv, CastOK, Alive
<1>4. Linked(knowledge, z) => knowledge[z] \in KnowledgeBotLink
  BY LinkedPeople DEF Linked
<1>5. knowledge[z] \in KnowledgeBotLink => row \in KnowledgeBotLink /\ row.person = knowledge[z].person
  BY <1>1 DEF KnowledgeBotLink
<1>6. knowledge' = knowledge \/ knowledge' = [y \in Chats |-> knowledge'[y]]
  BY DEF EndCast
<1>7. QED
  BY <1>2, <1>3, <1>4, <1>5, <1>6, LinkShapes DEF Linked

\* A broadcast ends with its dead chats written down, or forgets them.
LEMMA EndCastKeeps ==
  ASSUME LinksInv, EndCast
  PROVE  LinksInv'
<1>1. UNCHANGED <<people, smsLinks, mailLinks, visit>>
  BY DEF EndCast
<1>2. cast' \in CastRow /\ cast'.marks = {}
  <2>1. PICK none \in SUBSET Chats : none = {}
    OBVIOUS
  <2>2. cast' = [at |-> "idle", todo |-> none, marks |-> none]
    BY <2>1 DEF EndCast
  <2>3. QED
    BY <2>1, <2>2 DEF CastRow
<1>3. \A z \in Chats : knowledge'[z] \in KnowledgeBotLink \cup {NoLink}
  BY EndCastRows DEF Linked
<1>4. knowledge \in [Chats -> KnowledgeBotLink \cup {NoLink}]
  BY DEF LinksInv, LinkTables
<1>5. knowledge' = knowledge \/ knowledge' = [y \in Chats |-> knowledge'[y]]
  BY DEF EndCast
<1>6. knowledge' \in [Chats -> KnowledgeBotLink \cup {NoLink}]
  BY <1>3, <1>4, <1>5
<1>7. \A z \in Chats : Linked(knowledge', z) => knowledge'[z].person \in Registered
  BY EndCastRows DEF LinksInv, NamesSomebody
<1>8. QED
  BY <1>1, <1>2, <1>6, <1>7
     DEF LinksInv, PeopleOK, Registered, LinkTables, VisitsOK, CastOK, NamesSomebody, Linked

\* Every step keeps it.
LEMMA LinksStep == LinksInv /\ [LinksNext]_linksVars => LinksInv'
<1> SUFFICES ASSUME LinksInv, [LinksNext]_linksVars PROVE LinksInv'
  OBVIOUS
<1>1. CASE UNCHANGED linksVars
  BY <1>1 DEF linksVars, LinksInv, PeopleOK, Registered, LinkTables, VisitsOK, CastOK, Alive, Linked,
              NamesSomebody
<1>2. ASSUME NEW v \in Visitors, Visit(v) PROVE LinksInv'
  BY <1>2, VisitKnowledgeKeeps, VisitMailKeeps, VisitSmsKeeps, upsertKeeps, FinishMailKeeps,
     FinishSmsKeeps DEF Visit
<1>3. ASSUME NEW p \in People,
             CreatePerson(p) \/ RenamePerson(p) \/ SwitchPerson(p) \/ DeletePerson(p)
      PROVE  LinksInv'
  BY <1>3, CreatePersonKeeps, RenamePersonKeeps, SwitchPersonKeeps, DeletePersonKeeps
<1>4. ASSUME NEW z \in Chats, RefuseMail(z) \/ RefuseSms(z) \/ SendCast(z) PROVE LinksInv'
  BY <1>4, RefuseKeeps, CastKeeps
<1>5. CASE reconcile_orphans \/ BeginCast \/ MarkCast \/ EndCast
  BY <1>5, ReconcileKeeps, CastKeeps, EndCastKeeps
<1>6. QED
  BY <1>1, <1>2, <1>3, <1>4, <1>5 DEF LinksNext

\* A chat passes from an active person to another only by the end of a visit that
\* did not read that the chat was his.
LEMMA ChatStays ==
  ASSUME LinksInv, LinksNext, NEW z \in Chats, Passes(mailLinks, z) \/ Passes(knowledge, z)
  PROVE  \E v \in Visitors : /\ visit[v] # NoVisit /\ visit'[v] = NoVisit /\ visit[v].chat = z
                             /\ visit[v].held # IF visit[v].at = "mail" THEN mailLinks[z].person
                                                ELSE knowledge[z].person
<1> DEFINE Left(v) == /\ visit[v] # NoVisit /\ visit'[v] = NoVisit /\ visit[v].chat = z
                      /\ visit[v].held # IF visit[v].at = "mail" THEN mailLinks[z].person
                                         ELSE knowledge[z].person
<1>1. /\ mailLinks \in [Chats -> MailTelegramLink \cup {NoLink}]
      /\ knowledge \in [Chats -> KnowledgeBotLink \cup {NoLink}]
      /\ visit \in [Visitors -> VisitRow \cup {NoVisit}]
  BY DEF LinksInv, LinkTables, VisitsOK
<1>2. /\ knowledge' = knowledge => ~Passes(knowledge, z)
      /\ mailLinks' = mailLinks => ~Passes(mailLinks, z)
  BY DEF Passes
<1>3. ASSUME NEW v \in Visitors, upsert(v) PROVE Left(v)
  <2>1. PICK w : w = visit[v]
    OBVIOUS
  <2>2. w.at = "knowledge" /\ w \in VisitRow /\ w # NoVisit /\ mailLinks' = mailLinks
    BY <1>3, <2>1, VisitShape DEF upsert
  <2>3. Passes(knowledge, z)
    BY <2>2 DEF Passes
  <2>4. PICK row : row = [at |-> "link", person |-> w.person, dead |-> FALSE]
    OBVIOUS
  <2>5. knowledge' = IF Known(w) THEN [knowledge EXCEPT ![w.chat] = row] ELSE knowledge
    BY <1>3, <2>1, <2>4 DEF upsert
  <2>6. w.chat = z /\ w.person # knowledge[z].person /\ w.person # NoPerson
    BY <1>1, <2>3, <2>4, <2>5, LinkedPeople DEF Passes, Known
  <2>7. w.held # knowledge[z].person
    <3>1. w.held # NoPerson => w.person = w.held
      BY <2>1, <2>2 DEF LinksInv, VisitsOK
    <3>2. knowledge[z].person # NoPerson
      BY <2>3, LinkedPeople DEF Passes
    <3>3. QED
      BY <2>6, <3>1, <3>2
  <2>8. visit'[v] = NoVisit
    BY <1>1, <1>3 DEF upsert, Leave
  <2>9. QED
    BY <2>1, <2>2, <2>6, <2>7, <2>8
<1>4. ASSUME NEW v \in Visitors, FinishMail(v) PROVE Left(v)
  <2>1. PICK w : w = visit[v]
    OBVIOUS
  <2>2. w.at = "mail" /\ w \in VisitRow /\ w # NoVisit /\ knowledge' = knowledge
    BY <1>4, <2>1, VisitShape DEF FinishMail
  <2>3. Passes(mailLinks, z)
    BY <2>2 DEF Passes
  <2>4. /\ Linked(mailLinks, z) /\ mailLinks'[z].person # mailLinks[z].person
        /\ mailLinks[z].person # NoPerson
    BY <2>3, LinkedPeople DEF Passes
  <2>5. w.chat = z /\ w.person # mailLinks[z].person
    <3>1. \/ mailLinks'[z] = mailLinks[z]
          \/ z = w.chat /\ Known(w) /\ mailLinks'[z].person = w.person
          \/ mailLinks'[z].person = mailLinks[z].person
      BY <1>4, <2>1, <2>4, MailWrites
    <3>2. QED
      BY <2>4, <3>1
  <2>6. w.held # NoPerson => w.person = w.held
    BY <2>1, <2>2 DEF LinksInv, VisitsOK
  <2>7. w.held # mailLinks[z].person
    BY <2>4, <2>5, <2>6
  <2>8. visit'[v] = NoVisit
    BY <1>1, <1>4 DEF FinishMail, Leave
  <2>9. QED
    BY <2>1, <2>2, <2>5, <2>7, <2>8
<1>5. ASSUME NEW v \in Visitors, Visit(v), ~upsert(v), ~FinishMail(v) PROVE FALSE
  <2>1. UNCHANGED <<knowledge, mailLinks>>
    BY <1>5 DEF Visit, VisitKnowledge, VisitMail, VisitSms, VisitSmsOwn, Turn, FinishSms
  <2>2. QED
    BY <1>2, <2>1
<1>6. ASSUME NEW p \in People,
             CreatePerson(p) \/ RenamePerson(p) \/ SwitchPerson(p) \/ DeletePerson(p)
      PROVE  FALSE
  <2>1. CASE DeletePerson(p)
    <3>1. (knowledge'[z] = knowledge[z] \/ ~Linked(knowledge', z)) /\ (mailLinks'[z] = mailLinks[z] \/ ~Linked(mailLinks', z))
      BY <2>1 DEF DeletePerson, Unlinked, Linked
    <3>2. QED
      BY <3>1 DEF Passes
  <2>2. CASE SwitchPerson(p)
    BY <1>2, <2>2 DEF SwitchPerson
  <2>3. CASE CreatePerson(p) \/ RenamePerson(p)
    <3>1. knowledge' = knowledge
      BY <2>3 DEF CreatePerson, RenamePerson
    <3>2. mailLinks'[z] = mailLinks[z] \/ mailLinks[z].person = NoPerson
      BY <2>3 DEF CreatePerson, RenamePerson, bind_orphans_for_user
    <3>3. QED
      BY <1>2, <3>1, <3>2, LinkedPeople DEF Passes
  <2>4. QED
    BY <1>6, <2>1, <2>2, <2>3
<1>7. CASE reconcile_orphans
  <2>1. knowledge' = knowledge /\ (mailLinks'[z] = mailLinks[z] \/ mailLinks[z].person = NoPerson)
    BY <1>7 DEF reconcile_orphans
  <2>2. QED
    BY <1>2, <2>1, LinkedPeople DEF Passes
<1>8. ASSUME NEW y \in Chats, RefuseMail(y) \/ RefuseSms(y) \/ SendCast(y) PROVE FALSE
  <2>1. CASE RefuseMail(y)
    <3>1. knowledge' = knowledge
      BY <2>1 DEF RefuseMail
    <3>2. Passes(mailLinks, z)
      BY <3>1 DEF Passes
    <3>3. PICK row : row = [mailLinks[y] EXCEPT !.dead = TRUE]
      OBVIOUS
    <3>4. mailLinks' = [mailLinks EXCEPT ![y] = row]
      BY <1>1, <2>1, <3>3 DEF RefuseMail
    <3>5. mailLinks[y] \in MailTelegramLink
      BY <2>1, LinkedPeople DEF RefuseMail, Alive, Linked
    <3>6. row.person = mailLinks[y].person
      BY <3>3, <3>5 DEF MailTelegramLink
    <3>7. mailLinks'[z].person = mailLinks[z].person
      BY <1>1, <3>4, <3>6
    <3>8. QED
      BY <3>2, <3>7 DEF Passes
  <2>2. CASE RefuseSms(y) \/ SendCast(y)
    BY <1>2, <2>2 DEF RefuseSms, SendCast
  <2>3. QED
    BY <1>8, <2>1, <2>2
<1>9. CASE BeginCast \/ MarkCast
  BY <1>2, <1>9 DEF BeginCast, MarkCast
<1>10. CASE EndCast
  <2>1. mailLinks' = mailLinks /\ (Linked(knowledge, z) => knowledge'[z].person = knowledge[z].person)
    BY <1>10, EndCastRows DEF EndCast
  <2>2. QED
    BY <2>1 DEF Passes
<1>11. QED
  BY <1>3, <1>4, <1>5, <1>6, <1>7, <1>8, <1>9, <1>10 DEF LinksNext

\* A link names somebody who is there, in every table and through every deletion,
\* late write and broken broadcast, and the page of broadcasts counts the people a
\* broadcast reaches and skips, for everybody and for each role (audience_totals,
\* audience_by_role, recipients_for_roles).
THEOREM LinksCorrect == LinksSpec => []TelegramLinksHold
<1> QED
  BY LinksInitInv, LinksStep, TelegramLinksInvHolds, PTL DEF LinksSpec

\* Elsewhere the tables stay as they are.
LEMMA LinksOfCatalogues ==
  /\ CataloguesInit => LinksInv
  /\ [CataloguesNext]_cataloguesVars => [LinksNext]_linksVars
  /\ LinksInv /\ [CataloguesNext]_cataloguesVars => LinksInv'
<1>1. CataloguesInit => LinksInv
  BY LinksInitInv DEF CataloguesInit
<1>2. [CataloguesNext]_cataloguesVars => [LinksNext]_linksVars
  BY DEF CataloguesNext, cataloguesVars
<1>3. QED
  BY <1>1, <1>2, LinksStep

\* The same of the catalogues as a whole.
THEOREM CatalogueLinks == CataloguesSpec => []LinksHold
<1>1. LinksInv => LinksHold
  BY TelegramLinksInvHolds DEF LinksHold
<1>2. QED
  BY <1>1, LinksOfCatalogues, PTL DEF CataloguesSpec

\* Over every interleaving of visits, renamed, disabled and deleted people, refused
\* messages and broadcasts, a chat of an active person passes to another one only by
\* a visit that had not read it to be his (_resolve_user, _lookup_user, bind,
\* bind_orphans_for_user, reconcile_orphans).
THEOREM CatalogueChatsStay == CataloguesSpec => ChatStaysWithPerson
<1>1. LinksInv /\ [CataloguesNext]_cataloguesVars =>
        [\A z \in Chats : Passes(mailLinks, z) \/ Passes(knowledge, z) =>
           \E v \in Visitors : /\ visit[v] # NoVisit /\ visit'[v] = NoVisit /\ visit[v].chat = z
                               /\ visit[v].held # IF visit[v].at = "mail" THEN mailLinks[z].person
                                                  ELSE knowledge[z].person]_linksVars
  BY LinksOfCatalogues, ChatStays
<1>2. QED
  BY <1>1, LinksOfCatalogues, PTL DEF CataloguesSpec, ChatStaysWithPerson

----------------------------------------------------------------------------
(***************************************************************************)
(* Tags of mail.                                                           *)
(***************************************************************************)

\* A letter that is there, committed or not.
PostRow == [at : {"arriving", "stored"}, words : SUBSET Terms, found : SUBSET Tags,
            torn : SUBSET Tags, due : SUBSET Tags, told : {"waiting", "told", "passed"}]

\* Tags that were created; one that has gone does not come back.
Created == {t \in Tags : tags[t] # None}

\* Rows, and letters with the tags that were found for them.
TagRows ==
  /\ tags \in [Tags -> MailTag \cup {None, Removed}]
  /\ post \in [Post -> PostRow \cup {None, Removed}]
  /\ tagged \subseteq Stored \X Existing /\ complete \subseteq Existing
  /\ tagSteps \in 0 .. MaxTagSteps

\* A letter being pushed has found the tags that match it, but for those changed since.
ArrivingOK(m) ==
  post[m].at = "arriving" =>
    /\ post[m].told = "waiting" /\ post[m].found \subseteq Created
    /\ post[m].found # {} => post[m].words # {}
    /\ \A t \in Tags \ post[m].torn :
         t \in post[m].found <=> t \in Existing /\ Matches(tags[t], post[m].words)

\* A stored letter has all the tags found for it while none of them has gone.
StoredOK(m) ==
  post[m].at = "stored" =>
    /\ post[m].due \subseteq Created
    /\ post[m].due \subseteq Existing => \A t \in post[m].due : <<m, t>> \in tagged

\* What an apply-to-existing has found: still so of the letters it has seen, and
\* those stored since have the tag if it matches them, unless the tag was changed.
ApplyingRow == [at : {"matched"}, tag : Tags, torn : BOOLEAN, seen : SUBSET Post,
                found : SUBSET Post]

ApplyingOK ==
  applying # None =>
    /\ applying \in ApplyingRow /\ applying.found \subseteq applying.seen
    /\ \A m \in applying.seen : post[m].at \in {"stored", "removed"}
    /\ \A m \in applying.found \cap Stored : post[m].words # {}
    /\ applying.torn => applying.tag \notin complete
    /\ ~applying.torn => applying.tag \in Existing
    /\ ~applying.torn => \A m \in applying.seen \cap Stored :
         m \in applying.found <=> Matches(tags[applying.tag], post[m].words)
    /\ ~applying.torn => \A m \in Stored \ applying.seen :
         Matches(tags[applying.tag], post[m].words) /\ applying.tag \notin post[m].torn
           => <<m, applying.tag>> \in tagged

\* A letter the dispatcher has read without tags was pushed without, or has lost one.
TurnOK ==
  turn # None =>
    /\ turn.id \in Post /\ post[turn.id].at \in {"stored", "removed"}
    /\ turn.id \in Stored /\ turn.names = {} =>
         post[turn.id].due = {} \/ ~(post[turn.id].due \subseteq Existing)

\* The inductive invariant of letters and their tags.
TagsInv ==
  /\ TagRows /\ AppliedIsComplete /\ TaggedIsTold /\ NoTagByChance
  /\ \A m \in Post : ArrivingOK(m) /\ StoredOK(m)
  /\ ApplyingOK /\ TurnOK

\* What a rule finds has a term.
LEMMA MatchHasWords == \A tag \in MailTag, words \in SUBSET Terms : Matches(tag, words) => words # {}
BY DEF Matches, MailTag

\* A tag matches by what its row says.
LEMMA RowsAreApart ==
  /\ \A tag \in MailTag : tag # None /\ tag # Removed /\ tag.at = "row"
  /\ None.at = "none" /\ Removed.at = "removed" /\ None # Removed
  /\ \A p \in PostRow : p # None /\ p # Removed
BY DEF MailTag, None, Removed, PostRow

\* A tag is there when its row is one.
LEMMA ExistingIsRow ==
  ASSUME TagRows
  PROVE  \A t \in Tags : /\ t \in Existing <=> tags[t] \in MailTag
                         /\ t \in Existing => t \in Created
BY RowsAreApart DEF TagRows, Existing, Created

\* A change of one tag: a row more, a row changed, or a row that goes with its links.
LEMMA ChangedKeeps ==
  ASSUME TagsInv, NEW t \in Tags, Changed(t), UNCHANGED turn, TagStep,
         NEW new \in MailTag \cup {Removed}, tags' = [tags EXCEPT ![t] = new],
         tags[t] # Removed, new = Removed => t \in Existing,
         tagged' = IF new = Removed THEN {link \in tagged : link[2] # t} ELSE tagged
  PROVE  TagsInv'
<1>1. TagRows /\ tags \in [Tags -> MailTag \cup {None, Removed}]
      /\ post \in [Post -> PostRow \cup {None, Removed}]
  BY DEF TagsInv, TagRows
<1>2. \A s \in Tags : tags'[s] = IF s = t THEN new ELSE tags[s]
  BY <1>1
<1>3. complete' = complete \ {t}
  BY DEF Changed
<1>4. ASSUME NEW m \in Post
      PROVE  /\ post[m].at = "arriving" => post'[m] = [post[m] EXCEPT !.torn = post[m].torn \cup {t}]
             /\ post[m].at # "arriving" => post'[m] = post[m]
  BY DEF Changed
<1>5. ASSUME NEW m \in Post, post[m].at = "arriving"
      PROVE  /\ post'[m] \in PostRow /\ post'[m].at = "arriving" /\ post'[m].words = post[m].words
             /\ post'[m].found = post[m].found /\ post'[m].torn = post[m].torn \cup {t}
             /\ post'[m].told = post[m].told
  <2>1. post[m] \in PostRow
    BY <1>1, <1>5, RowsAreApart
  <2>2. PICK more \in SUBSET Tags : more = post[m].torn \cup {t}
    BY <2>1 DEF PostRow
  <2>3. post'[m] = [post[m] EXCEPT !.torn = more]
    BY <1>4, <1>5, <2>2
  <2>4. QED
    BY <1>5, <2>1, <2>2, <2>3 DEF PostRow
<1>6. Stored' = Stored /\ \A m \in Stored : post'[m] = post[m]
  BY <1>4, <1>5 DEF Stored
<1>7. /\ Existing' = IF new = Removed THEN Existing \ {t} ELSE Existing \cup {t}
      /\ Created' = Created \cup {t} /\ (t \in Created => t \in Existing)
      /\ Existing \subseteq Tags
  BY <1>1, <1>2, RowsAreApart DEF Existing, Created
<1>8. tagged' \subseteq tagged /\ \A m \in Stored, s \in Tags :
        <<m, s>> \in tagged /\ (s # t \/ new # Removed) => <<m, s>> \in tagged'
  OBVIOUS
<1>9. \A link \in tagged : link = <<link[1], link[2]>> /\ link[1] \in Stored /\ link[2] \in Existing
  BY DEF TagsInv, TagRows
<1>10. \A link \in tagged' : link \in tagged /\ link[2] \in Existing'
  BY <1>7, <1>8, <1>9
<1>11. TagRows'
  <2>1. tags' \in [Tags -> MailTag \cup {None, Removed}]
    BY <1>1
  <2>2. post' \in [Post -> PostRow \cup {None, Removed}]
    <3>1. post' = [m \in Post |-> post'[m]]
      BY DEF Changed
    <3>2. \A m \in Post : post'[m] \in PostRow \cup {None, Removed}
      BY <1>1, <1>4, <1>5
    <3>3. QED
      BY <3>1, <3>2
  <2>3. tagged' \subseteq Stored' \X Existing'
    BY <1>6, <1>9, <1>10
  <2>4. complete' \subseteq Existing'
    BY <1>3, <1>7 DEF TagsInv, TagRows
  <2>5. tagSteps' \in 0 .. MaxTagSteps
    BY MailTagsAssumption DEF TagsInv, TagRows, TagStep
  <2>6. QED
    BY <2>1, <2>2, <2>3, <2>4, <2>5 DEF TagRows
<1>12. AppliedIsComplete'
  <2>1. SUFFICES ASSUME NEW s \in complete', NEW m \in Stored', Matches(tags'[s], post'[m].words),
                        s \notin post'[m].torn
                 PROVE  <<m, s>> \in tagged'
    BY DEF AppliedIsComplete, Matches
  <2>2. s \in complete /\ s # t /\ s \in Tags /\ m \in Stored /\ post'[m] = post[m]
    BY <1>3, <1>6, <1>7, <2>1 DEF TagsInv, TagRows
  <2>3. <<m, s>> \in tagged
    BY <1>2, <2>1, <2>2 DEF TagsInv, AppliedIsComplete
  <2>4. QED
    BY <1>8, <2>2, <2>3
<1>13. TaggedIsTold'
  <2>1. SUFFICES ASSUME NEW m \in Stored, post[m].told = "passed"
                 PROVE  post[m].due = {} \/ ~(post[m].due \subseteq Existing')
    BY <1>6 DEF TaggedIsTold
  <2>2. post[m].due = {} \/ ~(post[m].due \subseteq Existing)
    BY <2>1 DEF TagsInv, TaggedIsTold
  <2>3. post[m].due \subseteq Created
    BY DEF TagsInv, StoredOK, Stored
  <2>4. QED
    BY <1>7, <2>2, <2>3
<1>14. NoTagByChance'
  BY <1>6, <1>9, <1>10 DEF TagsInv, NoTagByChance
<1>15. ASSUME NEW m \in Post PROVE ArrivingOK(m)'
  <2>1. SUFFICES ASSUME post[m].at = "arriving" PROVE ArrivingOK(m)'
    BY <1>4 DEF ArrivingOK
  <2>2. /\ post[m].told = "waiting" /\ post[m].found \subseteq Created
        /\ post[m].found # {} => post[m].words # {}
        /\ \A s \in Tags \ post[m].torn :
             s \in post[m].found <=> s \in Existing /\ Matches(tags[s], post[m].words)
    BY <2>1 DEF TagsInv, ArrivingOK
  <2>3. \A s \in Tags \ post'[m].torn :
          /\ s \in Tags \ post[m].torn /\ tags'[s] = tags[s]
          /\ s \in Existing' <=> s \in Existing
    BY <1>2, <1>5, <1>7, <2>1
  <2>4. \A s \in Tags \ post'[m].torn :
          s \in post'[m].found <=> s \in Existing' /\ Matches(tags'[s], post'[m].words)
    BY <1>5, <2>1, <2>2, <2>3
  <2>5. QED
    BY <1>5, <1>7, <2>1, <2>2, <2>4 DEF ArrivingOK, Matches
<1>16. ASSUME NEW m \in Post PROVE StoredOK(m)'
  <2>1. SUFFICES ASSUME post[m].at = "stored" PROVE StoredOK(m)'
    BY <1>4, <1>5 DEF StoredOK
  <2>2. post'[m] = post[m] /\ m \in Stored
    BY <1>4, <2>1 DEF Stored
  <2>3. /\ post[m].due \subseteq Created
        /\ post[m].due \subseteq Existing => \A s \in post[m].due : <<m, s>> \in tagged
    BY <2>1 DEF TagsInv, StoredOK
  <2>4. ASSUME post[m].due \subseteq Existing', NEW s \in post[m].due PROVE <<m, s>> \in tagged'
    <3>1. s \in Tags /\ (s # t \/ new # Removed)
      BY <1>7, <2>4
    <3>2. post[m].due \subseteq Existing
      BY <1>7, <2>3, <2>4
    <3>3. QED
      BY <1>8, <2>2, <2>3, <3>1, <3>2
  <2>5. QED
    BY <1>7, <2>2, <2>3, <2>4 DEF StoredOK
<1>17. ApplyingOK'
  <2>1. SUFFICES ASSUME applying' # None PROVE ApplyingOK'
    BY DEF ApplyingOK
  <2>2. applying # None
    BY <2>1, RowsAreApart DEF Changed
  <2>3. PICK a : a = applying
    OBVIOUS
  <2>4. /\ a \in ApplyingRow /\ a.found \subseteq a.seen
        /\ \A m \in a.seen : post[m].at \in {"stored", "removed"}
        /\ \A m \in a.found \cap Stored : post[m].words # {}
        /\ a.torn => a.tag \notin complete
    BY <2>2, <2>3 DEF TagsInv, ApplyingOK
  <2>5. \A m \in a.seen : post'[m] = post[m] /\ m \in Post
    BY <1>4, <2>4 DEF ApplyingRow
  <2>6. CASE a.tag = t
    <3>1. applying' = [a EXCEPT !.torn = TRUE]
      BY <2>3, <2>4, <2>6 DEF Changed, ApplyingRow
    <3>2. /\ applying' \in ApplyingRow /\ applying'.torn /\ applying'.tag = t
          /\ applying'.found = a.found /\ applying'.seen = a.seen
      BY <2>4, <2>6, <3>1 DEF ApplyingRow
    <3>3. QED
      BY <1>3, <1>6, <2>4, <2>5, <3>2 DEF ApplyingOK
  <2>7. CASE a.tag # t
    <3>1. applying' = a
      BY <2>3, <2>7 DEF Changed
    <3>2. a.tag \in Tags /\ tags'[a.tag] = tags[a.tag]
      BY <1>2, <2>4, <2>7 DEF ApplyingRow
    <3>3. a.tag \in Existing => a.tag \in Existing'
      BY <1>7, <2>7
    <3>4. a.torn => a.tag \notin complete'
      BY <1>3, <2>4
    <3>5. ~a.torn =>
            /\ a.tag \in Existing
            /\ \A m \in a.seen \cap Stored : m \in a.found <=> Matches(tags[a.tag], post[m].words)
            /\ \A m \in Stored \ a.seen :
                 Matches(tags[a.tag], post[m].words) /\ a.tag \notin post[m].torn
                   => <<m, a.tag>> \in tagged
      BY <2>2, <2>3 DEF TagsInv, ApplyingOK
    <3>6. ~a.torn => \A m \in a.seen \cap Stored' :
            m \in a.found <=> Matches(tags'[a.tag], post'[m].words)
      BY <1>6, <3>2, <3>5
    <3>7. ~a.torn => \A m \in Stored' \ a.seen :
            Matches(tags'[a.tag], post'[m].words) /\ a.tag \notin post'[m].torn
              => <<m, a.tag>> \in tagged'
      BY <1>6, <1>8, <2>7, <3>2, <3>5
    <3>8. QED
      BY <1>6, <2>4, <2>5, <3>1, <3>3, <3>4, <3>5, <3>6, <3>7 DEF ApplyingOK, Matches
  <2>8. QED
    BY <2>6, <2>7
<1>18. TurnOK'
  <2>1. SUFFICES ASSUME turn # None PROVE TurnOK'
    BY DEF TurnOK
  <2>2. post'[turn.id].at \in {"stored", "removed"} /\ turn.id \in Post
    BY <1>4, <2>1 DEF TagsInv, TurnOK
  <2>3. ASSUME turn.id \in Stored, turn.names = {}
        PROVE  post[turn.id].due = {} \/ ~(post[turn.id].due \subseteq Existing')
    <3>1. post[turn.id].due = {} \/ ~(post[turn.id].due \subseteq Existing)
      BY <2>1, <2>3 DEF TagsInv, TurnOK
    <3>2. post[turn.id].due \subseteq Created
      BY <2>3 DEF TagsInv, StoredOK, Stored
    <3>3. QED
      BY <1>7, <3>1, <3>2
  <2>4. QED
    BY <1>6, <2>2, <2>3 DEF TurnOK
<1>19. QED
  BY <1>11, <1>12, <1>13, <1>14, <1>15, <1>16, <1>17, <1>18 DEF TagsInv

\* The requests that change a tag.
LEMMA TagRequestsKeep ==
  ASSUME TagsInv, NEW t \in Tags,
         \/ create_tag(t) \/ update_tag(t) \/ delete_tag(t)
         \/ \E term \in Terms : create_tag_rule(t, term) \/ delete_tag_rule(t, term)
  PROVE  TagsInv'
<1>1. TagRows /\ tags \in [Tags -> MailTag \cup {None, Removed}]
  BY DEF TagsInv, TagRows
<1>2. t \in Existing => tags[t] \in MailTag /\ tags[t] # Removed
  BY <1>1, ExistingIsRow, RowsAreApart
<1>3. CASE create_tag(t)
  <2>1. PICK mode \in {"any", "all"} :
          tags' = [tags EXCEPT ![t] = [at |-> "row", match_mode |-> mode, rules |-> {}]]
    BY <1>3 DEF create_tag
  <2>2. PICK none \in SUBSET Terms : none = {}
    OBVIOUS
  <2>3. PICK row : row = [at |-> "row", match_mode |-> mode, rules |-> none]
    OBVIOUS
  <2>4. row \in MailTag /\ row # Removed
    BY <2>3, RowsAreApart DEF MailTag
  <2>5. tags' = [tags EXCEPT ![t] = row] /\ tags[t] # Removed
    BY <1>3, <2>1, <2>2, <2>3, RowsAreApart DEF create_tag
  <2>6. Changed(t) /\ UNCHANGED <<tagged, turn>> /\ TagStep
    BY <1>3 DEF create_tag
  <2>7. QED
    BY <2>4, <2>5, <2>6, ChangedKeeps
<1>4. CASE delete_tag(t)
  BY <1>2, <1>4, ChangedKeeps DEF delete_tag
<1>5. CASE update_tag(t)
  <2>1. PICK mode \in {"any", "all"} : tags' = [tags EXCEPT ![t].match_mode = mode]
    BY <1>5 DEF update_tag
  <2>2. PICK row : row = [tags[t] EXCEPT !.match_mode = mode]
    OBVIOUS
  <2>3. t \in Existing /\ Changed(t) /\ UNCHANGED <<tagged, turn>> /\ TagStep
    BY <1>5 DEF update_tag
  <2>4. row \in MailTag /\ row # Removed
    BY <1>2, <2>2, <2>3, RowsAreApart DEF MailTag
  <2>5. tags' = [tags EXCEPT ![t] = row]
    BY <1>1, <2>1, <2>2
  <2>6. QED
    BY <1>2, <2>3, <2>4, <2>5, ChangedKeeps
<1>6. ASSUME NEW term \in Terms, create_tag_rule(t, term) \/ delete_tag_rule(t, term)
      PROVE  TagsInv'
  <2>1. t \in Existing /\ Changed(t) /\ UNCHANGED <<tagged, turn>> /\ TagStep
    BY <1>6 DEF create_tag_rule, delete_tag_rule
  <2>2. PICK rules \in SUBSET Terms : tags' = [tags EXCEPT ![t].rules = rules]
    <3>1. tags[t].rules \in SUBSET Terms
      BY <1>2, <2>1 DEF MailTag
    <3>2. CASE create_tag_rule(t, term)
      <4>1. tags' = [tags EXCEPT ![t].rules = tags[t].rules \cup {term}]
        BY <1>1, <3>2 DEF create_tag_rule
      <4>2. QED
        BY <3>1, <4>1
    <3>3. CASE delete_tag_rule(t, term)
      <4>1. tags' = [tags EXCEPT ![t].rules = tags[t].rules \ {term}]
        BY <1>1, <3>3 DEF delete_tag_rule
      <4>2. QED
        BY <3>1, <4>1
    <3>4. QED
      BY <1>6, <3>2, <3>3
  <2>3. PICK row : row = [tags[t] EXCEPT !.rules = rules]
    OBVIOUS
  <2>4. row \in MailTag /\ row # Removed
    BY <1>2, <2>1, <2>3, RowsAreApart DEF MailTag
  <2>5. tags' = [tags EXCEPT ![t] = row]
    BY <1>1, <2>2, <2>3
  <2>6. QED
    BY <1>2, <2>1, <2>4, <2>5, ChangedKeeps
<1>7. QED
  BY <1>3, <1>4, <1>5, <1>6

\* The statement of an apply-to-existing finds what matches now.
LEMMA ApplyKeeps ==
  ASSUME TagsInv, NEW t \in Tags, apply_tag_to_existing(t)
  PROVE  TagsInv'
<1>1. t \in Existing /\ TagStep /\ UNCHANGED <<tags, post, tagged, turn, complete>>
  BY DEF apply_tag_to_existing
<1>2. Stored' = Stored /\ Existing' = Existing /\ Created' = Created /\ Stored \subseteq Post
  BY <1>1 DEF Stored, Existing, Created
<1>3. PICK seen \in SUBSET Post : seen = Stored
  BY <1>2
<1>4. PICK found \in SUBSET Post : found = {m \in Stored : Matches(tags[t], post[m].words)}
  BY <1>2
<1>5. applying' = [at |-> "matched", tag |-> t, torn |-> FALSE, seen |-> seen, found |-> found]
  BY <1>3, <1>4 DEF apply_tag_to_existing
<1>6. applying' \in ApplyingRow
  BY <1>5 DEF ApplyingRow
<1>7. ASSUME NEW m \in found PROVE post[m].words # {}
  <2>1. tags[t] \in MailTag
    BY <1>1, ExistingIsRow DEF TagsInv
  <2>2. post[m] \in PostRow
    BY <1>4, <1>7, RowsAreApart DEF TagsInv, TagRows, Stored
  <2>3. Matches(tags[t], post[m].words)
    BY <1>4
  <2>4. QED
    BY <2>1, <2>2, <2>3, MatchHasWords DEF PostRow
<1>8. ApplyingOK'
  <2>1. found \subseteq seen /\ \A m \in seen : post[m].at = "stored"
    BY <1>3, <1>4 DEF Stored
  <2>2. \A m \in Stored : m \in found <=> Matches(tags[t], post[m].words)
    BY <1>4
  <2>3. QED
    BY <1>1, <1>2, <1>3, <1>5, <1>6, <1>7, <2>1, <2>2 DEF ApplyingOK, Matches
<1>9. TagRows'
  BY <1>1, <1>2, MailTagsAssumption DEF TagsInv, TagRows, TagStep
<1>10. QED
  BY <1>1, <1>2, <1>8, <1>9
     DEF TagsInv, AppliedIsComplete, TaggedIsTold, NoTagByChance, ArrivingOK, StoredOK, TurnOK, Matches

\* Its commit: the tag is now on every letter it has seen, and on those stored since.
LEMMA CommitApplyKeeps ==
  ASSUME TagsInv, CommitApply
  PROVE  TagsInv'
<1>1. PICK a : a = applying
  OBVIOUS
<1>2. PICK t : t = a.tag
  OBVIOUS
<1>3. PICK holds \in BOOLEAN : holds <=> t \in Existing /\ a.found \subseteq Stored
  OBVIOUS
<1>4. /\ a # None /\ applying' = None /\ UNCHANGED <<tags, turn, tagSteps>>
      /\ tagged' = IF holds THEN tagged \cup (a.found \X {t}) ELSE tagged
      /\ complete' = IF holds /\ ~a.torn THEN complete \cup {t} ELSE complete
      /\ post' = [m \in Post |-> IF holds /\ m \in a.seen \cap Stored
                                 THEN [post[m] EXCEPT !.torn = @ \ {t}] ELSE post[m]]
  BY <1>1, <1>2, <1>3 DEF CommitApply
<1>5. /\ a \in ApplyingRow /\ a.found \subseteq a.seen
      /\ \A m \in a.found \cap Stored : post[m].words # {}
      /\ a.torn => t \notin complete
      /\ ~a.torn => \A m \in a.seen \cap Stored : m \in a.found <=> Matches(tags[t], post[m].words)
      /\ ~a.torn => \A m \in Stored \ a.seen :
           Matches(tags[t], post[m].words) /\ t \notin post[m].torn => <<m, t>> \in tagged
  BY <1>1, <1>2, <1>4 DEF TagsInv, ApplyingOK
<1>6. /\ tags \in [Tags -> MailTag \cup {None, Removed}]
      /\ post \in [Post -> PostRow \cup {None, Removed}]
      /\ tagged \subseteq Stored \X Existing /\ complete \subseteq Existing
      /\ tagSteps \in 0 .. MaxTagSteps
  BY DEF TagsInv, TagRows
<1>7. ASSUME NEW m \in Post
      PROVE  \/ post'[m] = post[m]
             \/ /\ holds /\ m \in a.seen \cap Stored /\ post'[m] \in PostRow
                /\ post'[m].at = "stored" /\ post[m].at = "stored"
                /\ post'[m].words = post[m].words /\ post'[m].due = post[m].due
                /\ post'[m].told = post[m].told /\ post'[m].torn = post[m].torn \ {t}
  <2>1. CASE holds /\ m \in a.seen \cap Stored
    <3>1. post[m] \in PostRow /\ post[m].at = "stored"
      BY <1>6, <2>1, RowsAreApart DEF Stored
    <3>2. PICK left \in SUBSET Tags : left = post[m].torn \ {t}
      BY <3>1 DEF PostRow
    <3>3. post'[m] = [post[m] EXCEPT !.torn = left]
      BY <1>4, <2>1, <3>2
    <3>4. QED
      BY <2>1, <3>1, <3>2, <3>3 DEF PostRow
  <2>2. CASE ~(holds /\ m \in a.seen \cap Stored)
    BY <1>4, <2>2
  <2>3. QED
    BY <2>1, <2>2
<1>8. /\ Stored' = Stored /\ Existing' = Existing /\ Created' = Created /\ Existing \subseteq Tags
      /\ Stored \subseteq Post
  BY <1>4, <1>7 DEF Stored, Existing, Created
<1>9. \A m \in Stored : /\ post'[m].words = post[m].words /\ post'[m].due = post[m].due
                        /\ post'[m].told = post[m].told /\ post'[m].at = post[m].at
                        /\ \A s \in Tags : s \notin post'[m].torn /\ s # t => s \notin post[m].torn
                        /\ ~(holds /\ m \in a.seen) => post'[m].torn = post[m].torn
  BY <1>7, <1>8
<1>10. \A m \in Post : post[m].at # "stored" => post'[m] = post[m]
  BY <1>7
<1>11. tagged \subseteq tagged' /\ \A link \in tagged' : link \in tagged \/
          (holds /\ link[1] \in a.found /\ link[2] = t /\ link = <<link[1], t>>)
  BY <1>4
<1>12. TagRows'
  <2>1. \A link \in tagged' : link \in Stored \X Existing
    BY <1>3, <1>6, <1>11
  <2>2. complete' \subseteq Existing
    BY <1>3, <1>4, <1>6
  <2>3. post' \in [Post -> PostRow \cup {None, Removed}]
    <3>1. \A m \in Post : post'[m] \in PostRow \cup {None, Removed}
      BY <1>6, <1>7
    <3>2. QED
      BY <1>4, <3>1
  <2>4. QED
    BY <1>4, <1>6, <1>8, <2>1, <2>2, <2>3 DEF TagRows
<1>13. AppliedIsComplete'
  <2>1. SUFFICES ASSUME NEW s \in complete', NEW m \in Stored, Matches(tags[s], post'[m].words),
                        s \notin post'[m].torn
                 PROVE  <<m, s>> \in tagged'
    BY <1>4, <1>8 DEF AppliedIsComplete, Matches
  <2>2. Matches(tags[s], post[m].words) /\ s \in Tags
    BY <1>8, <1>9, <1>12, <2>1 DEF TagRows
  <2>3. CASE s = t /\ holds /\ ~a.torn
    <3>1. CASE m \in a.seen
      <4>1. m \in a.found
        BY <1>5, <2>2, <2>3, <3>1
      <4>2. QED
        BY <1>4, <2>3, <4>1
    <3>2. CASE m \notin a.seen
      <4>1. t \notin post[m].torn
        BY <1>9, <2>1, <2>3, <3>2
      <4>2. <<m, t>> \in tagged
        BY <1>5, <2>2, <2>3, <3>2, <4>1
      <4>3. QED
        BY <1>11, <2>3, <4>2
    <3>3. QED
      BY <3>1, <3>2
  <2>4. CASE ~(s = t /\ holds /\ ~a.torn)
    <3>1. s \in complete
      BY <1>4, <2>1, <2>4
    <3>2. s \notin post[m].torn
      <4>1. CASE s # t
        BY <1>9, <2>1, <2>2, <4>1
      <4>2. CASE s = t
        <5>1. ~holds
          BY <1>5, <2>4, <3>1, <4>2
        <5>2. QED
          BY <1>9, <2>1, <5>1
      <4>3. QED
        BY <4>1, <4>2
    <3>3. <<m, s>> \in tagged
      BY <2>2, <3>1, <3>2 DEF TagsInv, AppliedIsComplete
    <3>4. QED
      BY <1>11, <3>3
  <2>5. QED
    BY <2>3, <2>4
<1>14. TaggedIsTold'
  BY <1>8, <1>9 DEF TagsInv, TaggedIsTold
<1>15. NoTagByChance'
  <2>1. SUFFICES ASSUME NEW link \in tagged' PROVE post'[link[1]].words # {}
    BY DEF NoTagByChance
  <2>2. link[1] \in Stored /\ post[link[1]].words # {}
    BY <1>3, <1>5, <1>6, <1>11, <2>1 DEF TagsInv, NoTagByChance
  <2>3. QED
    BY <1>9, <2>2
<1>16. ASSUME NEW m \in Post PROVE ArrivingOK(m)' /\ StoredOK(m)'
  <2>1. CASE post[m].at = "stored"
    <3>1. m \in Stored
      BY <2>1 DEF Stored
    <3>2. /\ post'[m].at = "stored" /\ post'[m].due = post[m].due
          /\ post[m].due \subseteq Created
          /\ post[m].due \subseteq Existing => \A s \in post[m].due : <<m, s>> \in tagged
      BY <1>9, <2>1, <3>1 DEF TagsInv, StoredOK
    <3>3. QED
      BY <1>8, <1>11, <3>2 DEF ArrivingOK, StoredOK
  <2>2. CASE post[m].at # "stored"
    <3>1. post'[m] = post[m] /\ ArrivingOK(m) /\ tags' = tags
      BY <1>4, <1>10, <2>2 DEF TagsInv
    <3>2. ArrivingOK(m)'
      BY <1>8, <3>1 DEF ArrivingOK, Matches
    <3>3. StoredOK(m)'
      BY <2>2, <3>1 DEF StoredOK
    <3>4. QED
      BY <3>2, <3>3
  <2>3. QED
    BY <2>1, <2>2
<1>17. TurnOK'
  <2>1. SUFFICES ASSUME turn # None PROVE TurnOK'
    BY <1>4 DEF TurnOK
  <2>2. /\ turn.id \in Post /\ post[turn.id].at \in {"stored", "removed"}
        /\ turn.id \in Stored /\ turn.names = {} =>
             post[turn.id].due = {} \/ ~(post[turn.id].due \subseteq Existing)
    BY <2>1 DEF TagsInv, TurnOK
  <2>3. post'[turn.id].at = post[turn.id].at
    BY <1>7, <2>2
  <2>4. QED
    BY <1>4, <1>8, <1>9, <2>2, <2>3 DEF TurnOK
<1>18. ApplyingOK'
  BY <1>4 DEF ApplyingOK
<1>19. QED
  BY <1>12, <1>13, <1>14, <1>15, <1>16, <1>17, <1>18 DEF TagsInv

\* A step that touches one letter and its links leaves the rest of the invariant.
LEMMA OtherLetters ==
  ASSUME TagsInv, NEW m \in Post, NEW row, post' = [post EXCEPT ![m] = row],
         UNCHANGED <<tags, applying, complete>>,
         tagged' \subseteq tagged \cup ({m} \X Tags), \A link \in tagged : link[1] # m => link \in tagged',
         NEW k \in Post, k # m
  PROVE  /\ post'[k] = post[k] /\ (k \in Stored' <=> k \in Stored)
         /\ Existing' = Existing /\ Created' = Created /\ Existing \subseteq Tags
         /\ ArrivingOK(k)' /\ StoredOK(k)'
         /\ \A s \in Tags : <<k, s>> \in tagged <=> <<k, s>> \in tagged'
         /\ \A s \in complete : Matches(tags[s], post[k].words) /\ s \notin post[k].torn /\ k \in Stored
              => <<k, s>> \in tagged
         /\ k \in Stored /\ post[k].told = "passed" => post[k].due = {} \/ ~(post[k].due \subseteq Existing)
<1>1. post'[k] = post[k]
  BY DEF TagsInv, TagRows
<1>2. (k \in Stored' <=> k \in Stored) /\ Existing' = Existing /\ Created' = Created /\ Existing \subseteq Tags
  BY <1>1 DEF Stored, Existing, Created
<1>3. \A s \in Tags : <<k, s>> \in tagged <=> <<k, s>> \in tagged'
  OBVIOUS
<1>4. ArrivingOK(k) /\ StoredOK(k)
  BY DEF TagsInv
<1>5. ArrivingOK(k)'
  BY <1>1, <1>2, <1>4 DEF ArrivingOK, Matches
<1>6. StoredOK(k)'
  BY <1>1, <1>2, <1>3, <1>4 DEF StoredOK
<1>7. \A s \in complete : Matches(tags[s], post[k].words) /\ s \notin post[k].torn /\ k \in Stored
        => <<k, s>> \in tagged
  BY DEF TagsInv, AppliedIsComplete
<1>8. k \in Stored /\ post[k].told = "passed" => post[k].due = {} \/ ~(post[k].due \subseteq Existing)
  BY DEF TagsInv, TaggedIsTold
<1>9. QED
  BY <1>1, <1>2, <1>3, <1>5, <1>6, <1>7, <1>8

\* A letter comes, committed or not, is marked, or goes: what is left to show of it.
LEMMA LetterKeeps ==
  ASSUME TagsInv, NEW m \in Post, NEW row \in PostRow \cup {Removed}, post' = [post EXCEPT ![m] = row],
         UNCHANGED <<tags, applying, complete>>, tagSteps' \in 0 .. MaxTagSteps,
         tagged' \subseteq tagged \cup ({m} \X Existing),
         \A link \in tagged : link[1] # m => link \in tagged',
         row.at # "stored" => \A s \in Existing : <<m, s>> \notin tagged',
         (\E s \in Existing : <<m, s>> \in tagged') => row.words # {},
         row.at = "stored" => \A s \in complete :
           Matches(tags[s], row.words) /\ s \notin row.torn => <<m, s>> \in tagged',
         row.at = "stored" /\ row.told = "passed" => row.due = {} \/ ~(row.due \subseteq Existing),
         ArrivingOK(m)', StoredOK(m)', ApplyingOK', TurnOK'
  PROVE  TagsInv'
<1>1. /\ post \in [Post -> PostRow \cup {None, Removed}] /\ tagged \subseteq Stored \X Existing
      /\ tags \in [Tags -> MailTag \cup {None, Removed}] /\ complete \subseteq Existing
  BY DEF TagsInv, TagRows
<1>2. post'[m] = row
  BY <1>1
<1>3. Existing' = Existing /\ Existing \subseteq Tags
  BY DEF Existing
<1>4. tagged' \subseteq tagged \cup ({m} \X Tags)
  BY <1>3
<1>5. ASSUME NEW k \in Post, k # m
      PROVE  /\ post'[k] = post[k] /\ (k \in Stored' <=> k \in Stored)
             /\ ArrivingOK(k)' /\ StoredOK(k)'
             /\ \A s \in Tags : <<k, s>> \in tagged <=> <<k, s>> \in tagged'
             /\ \A s \in complete : Matches(tags[s], post[k].words) /\ s \notin post[k].torn /\ k \in Stored
                  => <<k, s>> \in tagged
             /\ k \in Stored /\ post[k].told = "passed" => post[k].due = {} \/ ~(post[k].due \subseteq Existing)
  BY <1>4, <1>5, OtherLetters
<1>6. \A link \in tagged' : /\ link = <<link[1], link[2]>> /\ link[1] \in Post /\ link[2] \in Existing
                            /\ link[1] # m => link \in tagged
  BY <1>1 DEF Stored
<1>7. TagRows'
  <2>1. \A link \in tagged' : link \in Stored' \X Existing'
    <3>1. ASSUME NEW link \in tagged' PROVE link[1] \in Stored'
      <4>1. CASE link[1] = m
        BY <1>2, <1>6, <3>1, <4>1 DEF Stored
      <4>2. CASE link[1] # m
        BY <1>1, <1>5, <1>6, <3>1, <4>2
      <4>3. QED
        BY <4>1, <4>2
    <3>2. QED
      BY <1>3, <1>6, <3>1
  <2>2. QED
    BY <1>1, <1>3, <2>1 DEF TagRows
<1>8. AppliedIsComplete'
  <2>1. SUFFICES ASSUME NEW s \in complete, NEW k \in Stored', Matches(tags[s], post'[k].words),
                        s \notin post'[k].torn
                 PROVE  <<k, s>> \in tagged'
    BY DEF AppliedIsComplete, Matches
  <2>2. k \in Post /\ s \in Tags
    BY <1>1, <1>3 DEF Stored
  <2>3. CASE k = m
    BY <1>2, <2>1, <2>3 DEF Stored
  <2>4. CASE k # m
    BY <1>5, <2>1, <2>2, <2>4
  <2>5. QED
    BY <2>3, <2>4
<1>9. TaggedIsTold'
  <2>1. SUFFICES ASSUME NEW k \in Stored', post'[k].told = "passed"
                 PROVE  post'[k].due = {} \/ ~(post'[k].due \subseteq Existing)
    BY <1>3 DEF TaggedIsTold
  <2>2. k \in Post
    BY DEF Stored
  <2>3. CASE k = m
    BY <1>2, <2>1, <2>3 DEF Stored
  <2>4. CASE k # m
    BY <1>5, <2>1, <2>2, <2>4
  <2>5. QED
    BY <2>3, <2>4
<1>10. NoTagByChance'
  <2>1. SUFFICES ASSUME NEW link \in tagged' PROVE post'[link[1]].words # {}
    BY DEF NoTagByChance
  <2>2. CASE link[1] = m
    BY <1>2, <1>6, <2>1, <2>2
  <2>3. CASE link[1] # m
    BY <1>5, <1>6, <2>1, <2>3 DEF TagsInv, NoTagByChance
  <2>4. QED
    BY <2>2, <2>3
<1>11. \A k \in Post : ArrivingOK(k)' /\ StoredOK(k)'
  BY <1>5
<1>12. QED
  BY <1>7, <1>8, <1>9, <1>10, <1>11 DEF TagsInv

\* What an apply-to-existing under way is owed, when one letter changes.
LEMMA ApplyingStays ==
  ASSUME TagsInv, NEW m \in Post, NEW row, post' = [post EXCEPT ![m] = row],
         UNCHANGED <<tags, applying, complete>>,
         \A link \in tagged : link[1] # m => link \in tagged',
         post[m].at \in {"stored", "removed"} => row.at \in {"stored", "removed"},
         row.at = "stored" /\ post[m].at = "stored" =>
           row.words = post[m].words /\ row.torn = post[m].torn
             /\ \A s \in Tags : <<m, s>> \in tagged => <<m, s>> \in tagged',
         row.at = "stored" /\ post[m].at # "stored" => post[m].at = "arriving" /\ \A s \in Existing :
           Matches(tags[s], row.words) /\ s \notin row.torn => <<m, s>> \in tagged'
  PROVE  ApplyingOK'
<1>1. SUFFICES ASSUME applying # None PROVE ApplyingOK'
  BY DEF ApplyingOK
<1>2. PICK a : a = applying
  OBVIOUS
<1>3. /\ a \in ApplyingRow /\ a.found \subseteq a.seen /\ a.seen \subseteq Post /\ a.tag \in Tags
      /\ \A k \in a.seen : post[k].at \in {"stored", "removed"}
      /\ \A k \in a.found \cap Stored : post[k].words # {}
      /\ a.torn => a.tag \notin complete
      /\ ~a.torn => a.tag \in Existing
      /\ ~a.torn => \A k \in a.seen \cap Stored : k \in a.found <=> Matches(tags[a.tag], post[k].words)
      /\ ~a.torn => \A k \in Stored \ a.seen :
           Matches(tags[a.tag], post[k].words) /\ a.tag \notin post[k].torn => <<k, a.tag>> \in tagged
  BY <1>1, <1>2 DEF TagsInv, ApplyingOK, ApplyingRow
<1>4. \A k \in Post : post'[k] = IF k = m THEN row ELSE post[k]
  BY DEF TagsInv, TagRows
<1>5. \A k \in Stored' : k \in Post /\ (k # m => k \in Stored /\ post'[k] = post[k])
                         /\ (k = m => row.at = "stored" /\ post'[k] = row)
  BY <1>4 DEF Stored
<1>6. ASSUME NEW k \in a.seen \cap Stored'
      PROVE  k \in Stored /\ post'[k].words = post[k].words
  <2>1. k = m => post[m].at = "stored"
    BY <1>3, <1>5, <1>6
  <2>2. QED
    BY <1>5, <1>6, <2>1 DEF Stored
<1>7. ASSUME ~a.torn, NEW k \in Stored' \ a.seen, Matches(tags[a.tag], post'[k].words),
             a.tag \notin post'[k].torn
      PROVE  <<k, a.tag>> \in tagged'
  <2>1. CASE k # m
    <3>1. <<k, a.tag>> \in tagged
      BY <1>3, <1>5, <1>7, <2>1
    <3>2. QED
      BY <2>1, <3>1
  <2>2. CASE k = m /\ post[m].at = "stored"
    <3>1. k \in Stored /\ row.words = post[k].words /\ row.torn = post[k].torn
      BY <1>5, <1>7, <2>2 DEF Stored
    <3>2. <<k, a.tag>> \in tagged
      BY <1>3, <1>5, <1>7, <2>2, <3>1
    <3>3. QED
      BY <1>3, <1>5, <2>2, <3>2
  <2>3. CASE k = m /\ post[m].at # "stored"
    BY <1>3, <1>5, <1>7, <2>3
  <2>4. QED
    BY <2>1, <2>2, <2>3
<1>8. \A k \in a.seen : post'[k].at \in {"stored", "removed"}
  BY <1>3, <1>4
<1>9. Existing' = Existing
  BY DEF Existing
<1>10. QED
  BY <1>2, <1>3, <1>6, <1>7, <1>8, <1>9 DEF ApplyingOK, Matches

\* The letter the dispatcher has read is still as it was, when another one changes.
LEMMA TurnStays ==
  ASSUME TagsInv, NEW m \in Post, NEW row, post' = [post EXCEPT ![m] = row], UNCHANGED <<tags, turn>>,
         post[m].at \in {"stored", "removed"} => row.at = "removed"
  PROVE  TurnOK'
<1>1. SUFFICES ASSUME turn # None PROVE TurnOK'
  BY DEF TurnOK
<1>2. /\ turn.id \in Post /\ post[turn.id].at \in {"stored", "removed"}
      /\ turn.id \in Stored /\ turn.names = {} =>
           post[turn.id].due = {} \/ ~(post[turn.id].due \subseteq Existing)
  BY <1>1 DEF TagsInv, TurnOK
<1>3. \A k \in Post : post'[k] = IF k = m THEN row ELSE post[k]
  BY DEF TagsInv, TagRows
<1>4. Existing' = Existing
  BY DEF Existing
<1>5. post'[turn.id].at \in {"stored", "removed"}
  BY <1>2, <1>3
<1>6. turn.id \in Stored' => turn.id # m /\ turn.id \in Stored
  BY <1>2, <1>3 DEF Stored
<1>7. QED
  BY <1>2, <1>3, <1>4, <1>5, <1>6 DEF TurnOK

\* A letter is pushed.
LEMMA IngestKeeps ==
  ASSUME TagsInv, NEW m \in Post, ingest(m)
  PROVE  TagsInv'
<1>1. PICK words \in SUBSET Terms :
        post' = [post EXCEPT ![m] = [at |-> "arriving", words |-> words, found |-> Matching(words),
                                     torn |-> {}, due |-> {}, told |-> "waiting"]]
  BY DEF ingest
<1>2. /\ post[m] = None /\ UNCHANGED <<tags, tagged, applying, turn, complete, tagSteps>>
  BY DEF ingest
<1>3. PICK none \in SUBSET Tags : none = {}
  OBVIOUS
<1>4. PICK found \in SUBSET Tags : found = Matching(words)
  BY DEF Matching, Existing
<1>5. PICK row : row = [at |-> "arriving", words |-> words, found |-> found, torn |-> none,
                        due |-> none, told |-> "waiting"]
  OBVIOUS
<1>6. row \in PostRow /\ row.at = "arriving" /\ row.words = words /\ row.found = found
      /\ row.torn = {} /\ row.told = "waiting"
  BY <1>3, <1>5 DEF PostRow
<1>7. post' = [post EXCEPT ![m] = row]
  BY <1>1, <1>3, <1>4, <1>5
<1>8. /\ post'[m] = row /\ Existing' = Existing /\ Created' = Created
      /\ tagged \subseteq Stored \X Existing /\ tagSteps \in 0 .. MaxTagSteps /\ TagRows
  BY <1>2, <1>7 DEF TagsInv, TagRows, Existing, Created
<1>9. post[m].at = "none"
  BY <1>2, RowsAreApart
<1>10. \A s \in Existing : <<m, s>> \notin tagged
  BY <1>8, <1>9 DEF Stored
<1>11. ArrivingOK(m)'
  <2>1. \A s \in Tags : s \in found <=> s \in Existing /\ Matches(tags[s], words)
    BY <1>4 DEF Matching, Existing
  <2>2. found \subseteq Created
    BY <1>8, <2>1, ExistingIsRow
  <2>3. ASSUME NEW s \in found PROVE words # {}
    <3>1. tags[s] \in MailTag /\ Matches(tags[s], words)
      BY <1>8, <2>1, ExistingIsRow
    <3>2. QED
      BY <3>1, MatchHasWords
  <2>4. QED
    BY <1>2, <1>6, <1>8, <2>1, <2>2, <2>3 DEF ArrivingOK, Matches
<1>12. StoredOK(m)'
  BY <1>6, <1>8 DEF StoredOK
<1>13. ApplyingOK'
  BY <1>2, <1>6, <1>7, <1>9, ApplyingStays
<1>14. TurnOK'
  BY <1>2, <1>7, <1>9, TurnStays
<1>15. QED
  BY <1>2, <1>6, <1>7, <1>8, <1>10, <1>11, <1>12, <1>13, <1>14, LetterKeeps

\* Its tags are checked and it is committed, with all of them or with none.
LEMMA ApplyTagsKeeps ==
  ASSUME TagsInv, NEW m \in Post, apply_tags_to_message(m)
  PROVE  TagsInv'
<1>1. PICK old : old = post[m]
  OBVIOUS
<1>2. PICK holds \in BOOLEAN : holds <=> old.found \subseteq Existing
  OBVIOUS
<1>3. /\ old.at = "arriving" /\ UNCHANGED <<tags, applying, turn, complete, tagSteps>>
      /\ tagged' = IF holds THEN tagged \cup ({m} \X old.found) ELSE tagged
  BY <1>1, <1>2 DEF apply_tags_to_message
<1>4. old \in PostRow
  BY <1>1, <1>3, RowsAreApart DEF TagsInv, TagRows
<1>5. PICK torn \in SUBSET Tags : torn = IF holds THEN old.torn ELSE Tags
  BY <1>4 DEF PostRow
<1>6. PICK row : row = [old EXCEPT !.at = "stored", !.due = old.found, !.torn = torn]
  OBVIOUS
<1>7. post' = [post EXCEPT ![m] = row]
  <2>1. post' = [post EXCEPT ![m] = [old EXCEPT !.at = "stored", !.due = old.found,
                                                !.torn = IF holds THEN old.torn ELSE Tags]]
    <3>1. post' = [post EXCEPT ![m].at = "stored", ![m].due = old.found,
                               ![m].torn = IF holds THEN @ ELSE Tags]
      BY <1>1, <1>2 DEF apply_tags_to_message
    <3>2. post \in [Post -> PostRow \cup {None, Removed}]
      BY DEF TagsInv, TagRows
    <3>3. QED
      BY <1>1, <1>4, <3>1, <3>2 DEF PostRow
  <2>2. QED
    BY <1>5, <1>6, <2>1
<1>8. /\ row \in PostRow /\ row.at = "stored" /\ row.words = old.words /\ row.found = old.found
      /\ row.due = old.found /\ row.torn = torn /\ row.told = old.told
  BY <1>4, <1>6 DEF PostRow
<1>9. /\ old.told = "waiting" /\ old.found \subseteq Created
      /\ old.found # {} => old.words # {}
      /\ \A t \in Tags \ old.torn : t \in old.found <=> t \in Existing /\ Matches(tags[t], old.words)
  BY <1>1, <1>3 DEF TagsInv, ArrivingOK
<1>10. /\ post'[m] = row /\ Existing' = Existing /\ Created' = Created /\ Existing \subseteq Tags
       /\ tagged \subseteq Stored \X Existing /\ tagSteps \in 0 .. MaxTagSteps
       /\ complete \subseteq Existing /\ m \notin Stored
  BY <1>1, <1>3, <1>7 DEF TagsInv, TagRows, Existing, Created, Stored
<1>11. \A s \in Existing : Matches(tags[s], row.words) /\ s \notin row.torn => <<m, s>> \in tagged'
  <2>1. SUFFICES ASSUME NEW s \in Existing, Matches(tags[s], row.words), s \notin row.torn
                 PROVE  <<m, s>> \in tagged'
    OBVIOUS
  <2>2. holds /\ s \in Tags \ old.torn
    BY <1>5, <1>8, <1>10, <2>1
  <2>3. s \in old.found
    BY <1>8, <1>9, <2>1, <2>2
  <2>4. QED
    BY <1>3, <2>2, <2>3
<1>12. /\ tagged' \subseteq tagged \cup ({m} \X Existing)
       /\ \A link \in tagged : link \in tagged'
  BY <1>2, <1>3
<1>13. ASSUME NEW s \in Existing, <<m, s>> \in tagged' PROVE row.words # {}
  <2>1. <<m, s>> \notin tagged
    BY <1>10
  <2>2. s \in old.found
    BY <1>3, <1>13, <2>1
  <2>3. QED
    BY <1>8, <1>9, <2>2
<1>14. ArrivingOK(m)'
  BY <1>8, <1>10 DEF ArrivingOK
<1>15. StoredOK(m)'
  BY <1>2, <1>3, <1>8, <1>9, <1>10 DEF StoredOK
<1>16. ApplyingOK'
  BY <1>1, <1>3, <1>7, <1>8, <1>11, <1>12, ApplyingStays
<1>17. TurnOK'
  BY <1>1, <1>3, <1>7, TurnStays
<1>18. \A s \in complete : Matches(tags[s], row.words) /\ s \notin row.torn => <<m, s>> \in tagged'
  BY <1>10, <1>11
<1>19. row.told # "passed" /\ (row.at = "stored")
  BY <1>8, <1>9
<1>20. QED
  BY <1>3, <1>7, <1>8, <1>10, <1>12, <1>13, <1>14, <1>15, <1>16, <1>17, <1>18, <1>19, LetterKeeps

\* A letter goes with its mailbox.
LEMMA DropLetterKeeps ==
  ASSUME TagsInv, NEW m \in Post, DropLetter(m)
  PROVE  TagsInv'
<1>1. /\ m \in Stored /\ TagStep /\ post' = [post EXCEPT ![m] = Removed]
      /\ tagged' = {link \in tagged : link[1] # m} /\ UNCHANGED <<tags, applying, turn, complete>>
  BY DEF DropLetter
<1>2. tagSteps' \in 0 .. MaxTagSteps
  BY <1>1, MailTagsAssumption DEF TagsInv, TagRows, TagStep
<1>3. post'[m] = Removed /\ Removed.at = "removed"
  BY <1>1, RowsAreApart DEF TagsInv, TagRows
<1>4. ArrivingOK(m)' /\ StoredOK(m)'
  BY <1>3 DEF ArrivingOK, StoredOK
<1>5. \A s \in Existing : <<m, s>> \notin tagged'
  BY <1>1
<1>6. ApplyingOK'
  BY <1>1, <1>3, ApplyingStays
<1>7. TurnOK'
  BY <1>1, <1>3, TurnStays
<1>8. QED
  BY <1>1, <1>2, <1>3, <1>4, <1>5, <1>6, <1>7, LetterKeeps

\* The dispatcher reads the names of a letter's tags.
LEMMA ReadNamesKeeps ==
  ASSUME TagsInv, NEW m \in Post, tag_names_for_message(m)
  PROVE  TagsInv'
<1>1. /\ m \in Stored /\ turn'.id = m /\ turn'.names = {t \in Tags : <<m, t>> \in tagged}
      /\ UNCHANGED <<tags, post, tagged, applying, complete, tagSteps>>
  BY DEF tag_names_for_message
<1>2. Existing' = Existing /\ Stored' = Stored /\ Created' = Created /\ Existing \subseteq Tags
  BY <1>1 DEF Existing, Stored, Created
<1>3. ASSUME turn'.names = {} PROVE post[m].due = {} \/ ~(post[m].due \subseteq Existing)
  <2>1. post[m].due \subseteq Existing => \A t \in post[m].due : <<m, t>> \in tagged
    BY <1>1 DEF TagsInv, StoredOK, Stored
  <2>2. QED
    BY <1>1, <1>2, <1>3, <2>1
<1>4. TurnOK'
  BY <1>1, <1>2, <1>3 DEF TurnOK, Stored
<1>5. QED
  BY <1>1, <1>2, <1>4 DEF TagsInv, TagRows, AppliedIsComplete, TaggedIsTold, NoTagByChance, ArrivingOK,
     StoredOK, ApplyingOK, Matches

\* It marks the letter, or finds it gone.
LEMMA MarkNotifiedKeeps ==
  ASSUME TagsInv, mark_notified
  PROVE  TagsInv'
<1>1. turn # None /\ turn' = None /\ UNCHANGED <<tags, tagged, applying, complete, tagSteps>>
  BY DEF mark_notified
<1>2. TurnOK'
  BY <1>1 DEF TurnOK
<1>3. CASE turn.id \notin Stored
  <2>1. post' = post
    BY <1>3 DEF mark_notified
  <2>2. QED
    BY <1>1, <1>2, <2>1 DEF TagsInv, TagRows, AppliedIsComplete, TaggedIsTold, NoTagByChance,
       ArrivingOK, StoredOK, ApplyingOK, Matches, Existing, Stored, Created
<1>4. CASE turn.id \in Stored
  <2>1. PICK m \in Post : m = turn.id /\ post[m].at = "stored" /\ m \in Stored
    BY <1>4 DEF Stored
  <2>2. PICK mark \in {"passed", "told"} : mark = IF turn.names = {} THEN "passed" ELSE "told"
    OBVIOUS
  <2>3. PICK old : old = post[m]
    OBVIOUS
  <2>4. PICK row : row = [old EXCEPT !.told = mark]
    OBVIOUS
  <2>5. old \in PostRow
    BY <2>1, <2>3, RowsAreApart DEF TagsInv, TagRows
  <2>6. post' = [post EXCEPT ![m] = row]
    <3>1. post \in [Post -> PostRow \cup {None, Removed}]
      BY DEF TagsInv, TagRows
    <3>2. post' = [post EXCEPT ![m].told = mark]
      BY <1>4, <2>1, <2>2 DEF mark_notified
    <3>3. QED
      BY <2>3, <2>4, <3>1, <3>2
  <2>7. /\ row \in PostRow /\ row.at = "stored" /\ row.words = old.words /\ row.due = old.due
        /\ row.torn = old.torn /\ row.told = mark
    BY <2>1, <2>2, <2>3, <2>4, <2>5 DEF PostRow
  <2>8. post'[m] = row /\ Existing' = Existing /\ Created' = Created /\ Existing \subseteq Tags
        /\ tagSteps \in 0 .. MaxTagSteps /\ tagged \subseteq Stored \X Existing
        /\ complete \subseteq Existing
    BY <1>1, <2>6 DEF TagsInv, TagRows, Existing, Created
  <2>9. ArrivingOK(m)' /\ StoredOK(m)'
    <3>1. StoredOK(m)
      BY DEF TagsInv
    <3>2. QED
      BY <1>1, <2>1, <2>3, <2>7, <2>8, <3>1 DEF ArrivingOK, StoredOK
  <2>10. ApplyingOK'
    BY <1>1, <2>1, <2>3, <2>6, <2>7, ApplyingStays
  <2>11. mark = "passed" => row.due = {} \/ ~(row.due \subseteq Existing)
    BY <1>1, <2>1, <2>2, <2>3, <2>7 DEF TagsInv, TurnOK
  <2>12. \A s \in complete : Matches(tags[s], row.words) /\ s \notin row.torn => <<m, s>> \in tagged
    BY <2>1, <2>3, <2>7 DEF TagsInv, AppliedIsComplete
  <2>13. (\E s \in Existing : <<m, s>> \in tagged) => row.words # {}
    <3>1. ASSUME NEW s \in Existing, <<m, s>> \in tagged PROVE old.words # {}
      <4>1. PICK link \in tagged : link = <<m, s>>
        BY <3>1
      <4>2. post[link[1]].words # {} /\ link[1] = m
        BY <4>1 DEF TagsInv, NoTagByChance
      <4>3. QED
        BY <2>3, <4>2
    <3>2. QED
      BY <2>7, <3>1
  <2>14. QED
    BY <1>1, <1>2, <2>6, <2>7, <2>8, <2>9, <2>10, <2>11, <2>12, <2>13, LetterKeeps
<1>5. QED
  BY <1>3, <1>4

\* It begins so: no letter, no link.
LEMMA TagsInitInv == TagsInit => TagsInv
<1> SUFFICES ASSUME TagsInit PROVE TagsInv
  OBVIOUS
<1>1. PICK there \in {Tags, Tags \ {FirstTag}} :
        tags = [t \in Tags |-> IF t \in there THEN [at |-> "row", match_mode |-> "any", rules |-> {}]
                               ELSE None]
  BY DEF TagsInit
<1>2. PICK none \in SUBSET Terms : none = {}
  OBVIOUS
<1>3. [at |-> "row", match_mode |-> "any", rules |-> none] \in MailTag
  BY DEF MailTag
<1>4. tags \in [Tags -> MailTag \cup {None, Removed}]
  BY <1>1, <1>2, <1>3
<1>5. \A m \in Post : post[m] = None
  BY DEF TagsInit
<1>6. Stored = {}
  BY <1>5, RowsAreApart DEF Stored
<1>7. TagRows
  BY <1>4, MailTagsAssumption DEF TagRows, TagsInit
<1>8. \A m \in Post : ArrivingOK(m) /\ StoredOK(m)
  BY <1>5, RowsAreApart DEF ArrivingOK, StoredOK
<1>9. QED
  BY <1>6, <1>7, <1>8
     DEF TagsInit, TagsInv, ApplyingOK, TurnOK, AppliedIsComplete, TaggedIsTold, NoTagByChance

\* Every step keeps it.
LEMMA TagsStep == TagsInv /\ [TagsNext]_tagsVars => TagsInv'
<1> SUFFICES ASSUME TagsInv, [TagsNext]_tagsVars PROVE TagsInv'
  OBVIOUS
<1>1. CASE UNCHANGED tagsVars
  BY <1>1 DEF tagsVars, TagsInv, TagRows, AppliedIsComplete, TaggedIsTold, NoTagByChance, ArrivingOK,
              StoredOK, ApplyingOK, TurnOK, Matches, Existing, Stored, Created
<1>2. ASSUME NEW t \in Tags,
             \/ create_tag(t) \/ update_tag(t) \/ delete_tag(t) \/ apply_tag_to_existing(t)
             \/ \E term \in Terms : create_tag_rule(t, term) \/ delete_tag_rule(t, term)
      PROVE  TagsInv'
  BY <1>2, TagRequestsKeep, ApplyKeeps
<1>3. ASSUME NEW m \in Post, \/ ingest(m) \/ apply_tags_to_message(m) \/ DropLetter(m)
                             \/ tag_names_for_message(m)
      PROVE  TagsInv'
  BY <1>3, IngestKeeps, ApplyTagsKeeps, DropLetterKeeps, ReadNamesKeeps
<1>4. CASE RestartDispatcher
  <2>1. tagSteps' \in 0 .. MaxTagSteps
    BY <1>4, MailTagsAssumption DEF RestartDispatcher, TagStep, TagsInv, TagRows
  <2>2. turn' = None /\ UNCHANGED <<tags, post, tagged, applying, complete>>
    BY <1>4 DEF RestartDispatcher
  <2>3. QED
    BY <2>1, <2>2 DEF TagsInv, TagRows, AppliedIsComplete, TaggedIsTold, NoTagByChance, ArrivingOK,
                      StoredOK, ApplyingOK, TurnOK, Matches, Existing, Stored, Created
<1>5. QED
  BY <1>1, <1>2, <1>3, <1>4, CommitApplyKeeps, MarkNotifiedKeeps DEF TagsNext

\* The invariant says what is asked of tags.
LEMMA TagsInvHolds == TagsInv => TagsHold
<1> SUFFICES ASSUME TagsInv PROVE TagsHold
  OBVIOUS
<1>1. \A m \in Stored : post[m] \in PostRow
  BY RowsAreApart DEF TagsInv, TagRows, Stored
<1>2. TagsTypeOK
  BY <1>1 DEF TagsInv, TagRows, TagsTypeOK, PostRow
<1>3. QED
  BY <1>2 DEF TagsInv, TagsHold

\* A tag applied to the existing letters is on every letter it matches, a letter is
\* passed over in silence only when nothing matched it or a tag of it was deleted, and
\* no letter without a term has a tag: through tags and rules changed while letters are
\* pushed, applied to and told (apply_tags_to_message, apply_tag_to_existing,
\* mail_dispatcher_service.py with MAIL_NOTIFY_ALL off).
THEOREM TagsCorrect == TagsSpec => []TagsHold
<1> QED
  BY TagsInitInv, TagsStep, TagsInvHolds, PTL DEF TagsSpec

\* Elsewhere the tags stay as they are.
LEMMA TagsOfCatalogues ==
  /\ CataloguesInit => TagsInv
  /\ TagsInv /\ [CataloguesNext]_cataloguesVars => TagsInv'
<1>1. CataloguesInit => TagsInv
  BY TagsInitInv DEF CataloguesInit
<1>2. [CataloguesNext]_cataloguesVars => [TagsNext]_tagsVars
  BY DEF CataloguesNext, cataloguesVars
<1>3. QED
  BY <1>1, <1>2, TagsStep

----------------------------------------------------------------------------
(***************************************************************************)
(* The feed of the Mini App.                                               *)
(***************************************************************************)

\* A finite set in a strict order of all its members has a first one: else each of
\* its n members had a rank, the number of those before it, between 1 and n - 1, and
\* two of them had the same.
LEMMA FirstInOrder ==
  ASSUME NEW S, IsFiniteSet(S), S # {}, NEW R,
         \A x \in S : <<x, x>> \notin R,
         \A x, y, z \in S : <<x, y>> \in R /\ <<y, z>> \in R => <<x, z>> \in R,
         \A x, y \in S : x # y => <<x, y>> \in R \/ <<y, x>> \in R
  PROVE  \E x \in S : \A y \in S \ {x} : <<x, y>> \in R
<1> DEFINE Before(n) == {m \in S : <<m, n>> \in R}
           size == Cardinality(S)
           rank == [n \in S |-> Cardinality(Before(n))]
<1>1. size \in Nat /\ size # 0
  BY FS_CardinalityType, FS_EmptySet
<1>2. SUFFICES ASSUME \A x \in S : \E y \in S \ {x} : <<x, y>> \notin R PROVE FALSE
  OBVIOUS
<1>3. ASSUME NEW x \in S, NEW y \in S, <<x, y>> \in R
      PROVE  rank[x] < rank[y] /\ rank[x] \in Nat /\ rank[y] \in Nat
  <2>1. Before(x) \in SUBSET Before(y) /\ x \in Before(y) /\ x \notin Before(x)
    BY <1>3
  <2>2. IsFiniteSet(Before(x)) /\ IsFiniteSet(Before(y))
    BY FS_Subset
  <2>3. Cardinality(Before(x)) <= Cardinality(Before(y)) /\ Cardinality(Before(x)) # Cardinality(Before(y))
    BY <2>1, <2>2, FS_Subset
  <2>4. Cardinality(Before(x)) \in Nat /\ Cardinality(Before(y)) \in Nat
    BY <2>2, FS_CardinalityType
  <2>5. QED
    BY <2>3, <2>4
<1>4. ASSUME NEW x \in S PROVE rank[x] \in 1 .. size - 1
  <2>1. PICK y \in S \ {x} : <<x, y>> \notin R
    BY <1>2
  <2>2. <<y, x>> \in R
    BY <2>1
  <2>3. Before(x) \in SUBSET S /\ Before(x) # {} /\ x \notin Before(x)
    BY <2>2
  <2>4. IsFiniteSet(Before(x)) /\ Cardinality(Before(x)) <= size /\ Cardinality(Before(x)) # size
    BY <2>3, FS_Subset
  <2>5. Cardinality(Before(x)) \in Nat /\ Cardinality(Before(x)) # 0
    BY <2>3, <2>4, FS_CardinalityType, FS_EmptySet
  <2>6. rank[x] = Cardinality(Before(x))
    OBVIOUS
  <2>7. QED
    BY <1>1, <2>4, <2>5, <2>6
<1>5. rank \in [S -> 1 .. size - 1]
  BY <1>4
<1>6. IsFiniteSet(1 .. size - 1) /\ Cardinality(1 .. size - 1) < size
  <2>1. 1 \in Int /\ size - 1 \in Int
    BY <1>1
  <2>2. IsFiniteSet(1 .. size - 1) /\ Cardinality(1 .. size - 1) = IF 1 > size - 1 THEN 0 ELSE size - 1 - 1 + 1
    BY <2>1, FS_Interval
  <2>3. QED
    BY <1>1, <2>2
<1> HIDE DEF rank
<1>7. PICK x \in S, y \in S : x # y /\ rank[x] = rank[y]
  <2>1. PICK T : T = 1 .. size - 1
    OBVIOUS
  <2>2. IsFiniteSet(T) /\ Cardinality(T) < Cardinality(S) /\ rank \in [S -> T]
    BY <1>5, <1>6, <2>1
  <2>3. QED
    BY <2>2, FS_PigeonHole
<1>8. <<x, y>> \in R \/ <<y, x>> \in R
  BY <1>7
<1>9. QED
  BY <1>3, <1>7, <1>8

\* Letters in the store, and their mailboxes and marks.
LetterRow == [at : {"stored"}, box : FeedBoxes, date : Nat]
GoneLetter == [at |-> Gone]

FeedRows ==
  /\ scope \in MailScopes /\ boxTeam \in [FeedBoxes -> FeedTeams \cup {Pool, Gone}]
  /\ letter \in [Letters -> LetterRow \cup {Nothing, GoneLetter}]
  /\ marks \in [Letters -> Marks \cup {Unfiled}] /\ asked \in [Letters -> Marks]
  /\ crossing \subseteq Letters
  /\ \A m \in Arrived : letter[m].box \in Here
  /\ \A m \in Letters \ Arrived : marks[m] = Unfiled
  /\ \A m \in Letters : letter[m] = Nothing => asked[m] = Clear

\* What a mark is, of a letter with a row or without.
MarkOf(m) == IF marks[m] = Unfiled THEN Clear ELSE marks[m]

\* The marks are those last answered, and an unmark_read writes over what it read.
MarksOK ==
  /\ \A m \in Arrived \ crossing : MarkOf(m) = asked[m]
  /\ unmarking # Nothing =>
       /\ unmarking.id \in Letters /\ letter[unmarking.id] # Nothing
       /\ unmarking.id \in Arrived \ crossing => unmarking.row = marks[unmarking.id]

\* A walk has shown what is not below its cursor, and what was in the folder all the
\* while it has shown or is to come to.
Cursor == [at : {"cursor"}, date : Nat, id : Letters]
WalkRow == [at : {"reading", "done"}, folder : Folders, cursor : Cursor \cup {Nothing},
            shown : SUBSET Letters, repeated : {FALSE}, steady : SUBSET Letters]

WalkShows ==
  walk # Nothing =>
    /\ walk \in WalkRow
    /\ walk.at = "reading" =>
         /\ walk.cursor = Nothing => walk.shown = {}
         /\ \A m \in walk.shown : letter[m] # Nothing
         /\ \A m \in walk.shown \cap Arrived : ~BelowCursor(m, walk.cursor)
         /\ walk.steady \subseteq Selected(walk.folder)
         /\ \A m \in walk.steady \ walk.shown : walk.cursor # Nothing => BelowCursor(m, walk.cursor)
    /\ walk.at = "done" => walk.steady \subseteq walk.shown

\* The inductive invariant of the feed.
FeedInv == FeedRows /\ MarksOK /\ WalkShows

\* What tells rows apart.
LEMMA FeedShapes ==
  /\ Nothing.at = "none" /\ GoneLetter.at = "gone" /\ Clear \in Marks
  /\ \A row \in LetterRow : row.at = "stored" /\ row # Nothing /\ row # GoneLetter
  /\ GoneLetter # Nothing
  /\ \A row \in Marks : row # Unfiled
  /\ \A w \in WalkRow : w # Nothing
  /\ \A x \in Cursor : x # Nothing
<1>1. \A row \in Marks : DOMAIN row = {"read", "archived", "deleted"}
  BY DEF Marks
<1>2. DOMAIN Unfiled = {"row"}
  BY DEF Unfiled
<1>3. \A row \in Marks : row # Unfiled
  BY <1>1, <1>2
<1>4. Clear \in Marks
  BY DEF Clear, Marks
<1>5. Nothing.at = "none" /\ GoneLetter.at = "gone"
  BY DEF Nothing, GoneLetter, Gone
<1>6. \A row \in LetterRow : row.at = "stored"
  BY DEF LetterRow
<1>7. \A w \in WalkRow : w.at \in {"reading", "done"}
  BY DEF WalkRow
<1>8. \A x \in Cursor : x.at = "cursor"
  BY DEF Cursor
<1>9. QED
  BY <1>3, <1>4, <1>5, <1>6, <1>7, <1>8

\* Letters and folders are finite, and a stored letter is a row.
LEMMA FeedSets ==
  ASSUME FeedRows
  PROVE  /\ IsFiniteSet(Letters) /\ IsFiniteSet(Arrived) /\ Arrived \subseteq Letters
         /\ \A m \in Letters : m \in Arrived <=> letter[m] \in LetterRow
         /\ \A m \in Arrived : m \in Nat /\ letter[m].date \in Nat /\ letter[m].box \in Here
                               /\ letter[m].box \in FeedBoxes
         /\ Here \subseteq FeedBoxes
<1>1. IsFiniteSet(Letters)
  <2>1. 1 \in Int /\ MaxLetters \in Int
    BY MailFeedAssumption
  <2>2. QED
    BY <2>1, FS_Interval DEF Letters
<1>2. Arrived \subseteq Letters
  BY DEF Arrived
<1>3. \A m \in Letters : m \in Arrived <=> letter[m] \in LetterRow
  BY FeedShapes DEF FeedRows, Arrived
<1>4. \A m \in Letters : m \in Nat
  BY MailFeedAssumption DEF Letters
<1>5. QED
  BY <1>1, <1>2, <1>3, <1>4, FS_Subset DEF FeedRows, LetterRow, Here

\* The feed is in a strict order.
LEMMA FeedOrder ==
  ASSUME FeedRows, NEW found, found \subseteq Arrived, found # {}
  PROVE  /\ IsFiniteSet(found)
         /\ \E m \in found : \A k \in found \ {m} : Newer(m, k)
         /\ \E m \in found : \A k \in found \ {m} : Newer(k, m)
         /\ \A m \in found : ~Newer(m, m)
         /\ \A m, k, n \in found : Newer(m, k) /\ Newer(k, n) => Newer(m, n)
         /\ \A m, k \in found : m # k => Newer(m, k) \/ Newer(k, m)
<1>1. \A m \in found : m \in Nat /\ letter[m].date \in Nat
  BY FeedSets
<1>2. \A m \in found : ~Newer(m, m)
  BY <1>1 DEF Newer
<1>3. \A m, k, n \in found : Newer(m, k) /\ Newer(k, n) => Newer(m, n)
  BY <1>1 DEF Newer
<1>4. \A m, k \in found : m # k => Newer(m, k) \/ Newer(k, m)
  BY <1>1 DEF Newer
<1>5. IsFiniteSet(found)
  BY FeedSets, FS_Subset
<1>6. \E m \in found : \A k \in found \ {m} : Newer(m, k)
  <2> DEFINE R == {pair \in found \X found : Newer(pair[1], pair[2])}
  <2>1. \A m, k \in found : <<m, k>> \in R <=> Newer(m, k)
    OBVIOUS
  <2> HIDE DEF R
  <2>2. \E m \in found : \A k \in found \ {m} : <<m, k>> \in R
    BY <1>2, <1>3, <1>4, <1>5, <2>1, FirstInOrder
  <2>3. QED
    BY <2>1, <2>2
<1>7. \E m \in found : \A k \in found \ {m} : Newer(k, m)
  <2> DEFINE R == {pair \in found \X found : Newer(pair[2], pair[1])}
  <2>1. \A m, k \in found : <<m, k>> \in R <=> Newer(k, m)
    OBVIOUS
  <2> HIDE DEF R
  <2>2. \E m \in found : \A k \in found \ {m} : <<m, k>> \in R
    BY <1>2, <1>3, <1>4, <1>5, <2>1, FirstInOrder
  <2>3. QED
    BY <2>1, <2>2
<1>8. QED
  BY <1>2, <1>3, <1>4, <1>5, <1>6, <1>7

\* A page holds the newest letters of a selection: the last of them is older than
\* the others and newer than what is left.
LEMMA PageIsFirst ==
  ASSUME FeedRows, NEW found, found \subseteq Arrived, found # FirstPage(found)
  PROVE  /\ Oldest(FirstPage(found)) \in FirstPage(found)
         /\ \A k \in FirstPage(found) : k # Oldest(FirstPage(found)) => Newer(k, Oldest(FirstPage(found)))
         /\ \A k \in found \ FirstPage(found) : Newer(Oldest(FirstPage(found)), k)
<1>1. found # {} /\ FirstPage(found) \subseteq found
  BY DEF FirstPage
<1>2. PICK top \in found : \A k \in found \ {top} : Newer(top, k)
  BY <1>1, FeedOrder
<1>3. top \in FirstPage(found)
  <2>1. {k \in found : Newer(k, top)} = {}
    <3>1. ASSUME NEW k \in found, Newer(k, top) PROVE FALSE
      <4>1. k # top /\ Newer(top, k)
        BY <1>1, <1>2, <3>1, FeedOrder
      <4>2. QED
        BY <1>1, <3>1, <4>1, FeedOrder
    <3>2. QED
      BY <3>1
  <2>2. Cardinality({k \in found : Newer(k, top)}) = 0
    BY <2>1, FS_EmptySet
  <2>3. QED
    BY <2>2, MailFeedAssumption DEF FirstPage
<1>4. PICK last \in FirstPage(found) : \A k \in FirstPage(found) \ {last} : Newer(k, last)
  BY <1>1, <1>3, FeedOrder
<1>5. /\ Oldest(FirstPage(found)) \in FirstPage(found)
      /\ \A k \in FirstPage(found) \ {Oldest(FirstPage(found))} : Newer(k, Oldest(FirstPage(found)))
  BY <1>4 DEF Oldest
<1>6. PICK old : old = Oldest(FirstPage(found))
  OBVIOUS
<1>7. ASSUME NEW k \in found \ FirstPage(found) PROVE Newer(old, k)
  <2> DEFINE Ahead(m) == {n \in found : Newer(n, m)}
  <2>1. old \in found /\ old # k /\ old \in FirstPage(found)
    BY <1>1, <1>5, <1>6
  <2>2. SUFFICES ASSUME Newer(k, old) PROVE FALSE
    BY <1>1, <2>1, FeedOrder
  <2>3. Ahead(k) \subseteq Ahead(old)
    BY <1>1, <2>1, <2>2, FeedOrder
  <2>4. IsFiniteSet(Ahead(old)) /\ IsFiniteSet(Ahead(k))
    BY <1>1, FeedOrder, FS_Subset
  <2>5. Cardinality(Ahead(k)) <= Cardinality(Ahead(old))
    BY <2>3, <2>4, FS_Subset
  <2>6. Cardinality(Ahead(k)) \in Nat /\ Cardinality(Ahead(old)) \in Nat
    BY <2>4, FS_CardinalityType
  <2>7. Cardinality(Ahead(old)) < PageSize /\ ~(Cardinality(Ahead(k)) < PageSize)
    BY <2>1 DEF FirstPage
  <2>8. QED
    BY <2>5, <2>6, <2>7, MailFeedAssumption
<1>8. QED
  BY <1>5, <1>6, <1>7

\* A mailbox is visible by SQL exactly when the user's scope matches its team.
LEMMA VisibleBoxes ==
  ASSUME FeedRows, NEW b \in FeedBoxes
  PROVE  /\ b \in _resolve_visible_accounts <=> b \in Here /\ matches(boxTeam[b])
         /\ b \in list_mailboxes <=> b \in Here /\ matches(boxTeam[b])
         /\ _resolve_visible_accounts \subseteq Here
<1>1. Pool \notin scope.team_ids
  <2>1. scope.team_ids = {} \/ scope.team_ids \in {{t} : t \in FeedTeams}
    <3>1. scope \in {[sees_all_teams |-> TRUE, team_ids |-> {}, includes_unassigned |-> FALSE]}
          \/ scope \in [sees_all_teams : {FALSE}, team_ids : {{t} : t \in FeedTeams},
                        includes_unassigned : BOOLEAN]
      BY DEF FeedRows, MailScopes
    <3>2. CASE scope \in {[sees_all_teams |-> TRUE, team_ids |-> {}, includes_unassigned |-> FALSE]}
      <4>1. scope = [sees_all_teams |-> TRUE, team_ids |-> {}, includes_unassigned |-> FALSE]
        BY <3>2
      <4>2. QED
        BY <4>1
    <3>3. CASE scope \in [sees_all_teams : {FALSE}, team_ids : {{t} : t \in FeedTeams},
                          includes_unassigned : BOOLEAN]
      BY <3>3
    <3>4. QED
      BY <3>1, <3>2, <3>3
  <2>2. QED
    BY <2>1, MailFeedAssumption
<1>2. _scope_predicate(b) <=> (IF boxTeam[b] = Pool THEN scope.includes_unassigned
                               ELSE boxTeam[b] \in scope.team_ids)
  BY <1>1 DEF _scope_predicate
<1>3. CASE scope.sees_all_teams
  BY <1>3 DEF _resolve_visible_accounts, list_mailboxes, matches
<1>4. CASE ~scope.sees_all_teams
  BY <1>2, <1>4 DEF _resolve_visible_accounts, list_mailboxes, matches
<1>5. QED
  BY <1>3, <1>4

\* A letter is in one folder, by its marks.
FolderOf(m) ==
  IF Is(m, "deleted") THEN "deleted" ELSE IF Is(m, "archived") THEN "archived" ELSE "inbox"

\* A letter is in one folder.
LEMMA OneFolder ==
  ASSUME NEW m, NEW folder \in Folders
  PROVE  InFolder(m, folder) <=> folder = FolderOf(m)
<1>1. folder = "inbox" \/ folder = "archived" \/ folder = "deleted"
  BY DEF Folders
<1>2. CASE folder = "inbox"
  BY <1>2 DEF InFolder, FolderOf
<1>3. CASE folder = "archived"
  BY <1>3 DEF InFolder, FolderOf
<1>4. CASE folder = "deleted"
  BY <1>4 DEF InFolder, FolderOf
<1>5. QED
  BY <1>1, <1>2, <1>3, <1>4

\* The letters SQL selects for a folder are those the check of one letter admits.
LEMMA SelectedIs ==
  ASSUME FeedRows, NEW folder \in Folders
  PROVE  /\ Selected(folder) \subseteq Arrived
         /\ \A m \in Letters : m \in Selected(folder)
              <=> _load_message_in_scope(m) /\ folder = FolderOf(m)
<1>1. \A m \in Arrived : letter[m].box \in _resolve_visible_accounts <=> matches(boxTeam[letter[m].box])
  BY FeedSets, VisibleBoxes
<1>2. \A m \in Arrived : InFolder(m, folder) <=> folder = FolderOf(m)
  BY OneFolder
<1>3. QED
  BY <1>1, <1>2 DEF Selected, _load_message_in_scope

\* The columns of a mark.
LEMMA MarkColumns ==
  ASSUME FeedRows, NEW m \in Letters
  PROVE  /\ Is(m, "read") <=> MarkOf(m).read
         /\ Is(m, "archived") <=> MarkOf(m).archived
         /\ Is(m, "deleted") <=> MarkOf(m).deleted
         /\ MarkOf(m) \in Marks
<1>1. marks[m] \in Marks \/ marks[m] = Unfiled
  BY DEF FeedRows
<1>2. CASE marks[m] = Unfiled
  BY <1>2, FeedShapes DEF Is, MarkOf, Clear
<1>3. CASE marks[m] # Unfiled
  BY <1>1, <1>3 DEF Is, MarkOf
<1>4. QED
  BY <1>2, <1>3

\* The invariant says what is asked of the user's views.
LEMMA FeedInvHolds == FeedInv => FeedHolds
<1> SUFFICES ASSUME FeedInv PROVE FeedHolds
  OBVIOUS
<1> USE DEF FeedInv
<1>1. FeedTypeOK
  BY DEF FeedTypeOK, FeedRows
<1>2. FoldersCoverScope(Filed)
  <2>1. ASSUME NEW m \in Letters
        PROVE  Cardinality({folder \in Folders : m \in Filed[folder]})
                 = IF _load_message_in_scope(m) THEN 1 ELSE 0
    <3>1. \A folder \in Folders : m \in Filed[folder] <=> _load_message_in_scope(m) /\ folder = FolderOf(m)
      BY SelectedIs DEF Filed
    <3>2. FolderOf(m) \in Folders
      BY DEF FolderOf, Folders
    <3>3. CASE _load_message_in_scope(m)
      <4>1. {folder \in Folders : m \in Filed[folder]} = {FolderOf(m)}
        BY <3>1, <3>2, <3>3
      <4>2. QED
        BY <3>3, <4>1, FS_Singleton
    <3>4. CASE ~_load_message_in_scope(m)
      <4>1. {folder \in Folders : m \in Filed[folder]} = {}
        BY <3>1, <3>4
      <4>2. QED
        BY <3>4, <4>1, FS_EmptySet
    <3>5. QED
      BY <3>3, <3>4
  <2>2. QED
    BY <2>1 DEF FoldersCoverScope
<1>3. \A b \in FeedBoxes : b \in list_mailboxes <=> _load_account_in_scope(b)
  BY VisibleBoxes DEF _load_account_in_scope
<1>4. count_unread_inbox = Cardinality({m \in Filed["inbox"] : ~Is(m, "read")})
  <2>1. Filed["inbox"] = Selected("inbox")
    BY DEF Filed, Folders
  <2>2. \A m : InFolder(m, "inbox") <=> ~(Is(m, "archived") \/ Is(m, "deleted"))
    BY DEF InFolder
  <2>3. {m \in Selected("inbox") : ~Is(m, "read")}
          = {m \in Arrived : /\ letter[m].box \in _resolve_visible_accounts
                             /\ ~(Is(m, "archived") \/ Is(m, "deleted"))
                             /\ ~Is(m, "read")}
    BY <2>2 DEF Selected
  <2>4. QED
    BY <2>1, <2>3 DEF count_unread_inbox
<1>5. FeedShowsEachOnce
  BY DEF FeedShowsEachOnce, WalkShows, WalkRow
<1>6. MarksAreAsAnswered
  <2>1. SUFFICES ASSUME NEW m \in Arrived \ crossing, NEW column \in DOMAIN Clear
                 PROVE  Is(m, column) = asked[m][column]
    BY DEF MarksAreAsAnswered
  <2>2. column \in {"read", "archived", "deleted"}
    BY DEF Clear
  <2>3. MarkOf(m) = asked[m] /\ m \in Letters
    BY DEF MarksOK, Arrived
  <2>4. asked[m] \in Marks
    BY <2>3 DEF FeedRows
  <2>5. Is(m, column) \in BOOLEAN /\ asked[m][column] \in BOOLEAN /\ (Is(m, column) <=> asked[m][column])
    <3>1. CASE column = "read"
      BY <2>3, <2>4, <3>1, MarkColumns DEF Marks, Is
    <3>2. CASE column = "archived"
      BY <2>3, <2>4, <3>2, MarkColumns DEF Marks, Is
    <3>3. CASE column = "deleted"
      BY <2>3, <2>4, <3>3, MarkColumns DEF Marks, Is
    <3>4. QED
      BY <2>2, <3>1, <3>2, <3>3
  <2>6. QED
    BY <2>5
<1>7. QED
  BY <1>1, <1>2, <1>3, <1>4, <1>5, <1>6 DEF ViewsAgree, FeedHolds

\* It begins so, whatever the scope.
LEMMA FeedInitInv == FeedInit => FeedInv
<1> SUFFICES ASSUME FeedInit PROVE FeedInv
  OBVIOUS
<1>1. FirstBox \in FeedBoxes /\ FirstTeam \in FeedTeams /\ FirstTeam # Gone
  BY MailFeedAssumption DEF FirstBox, FirstTeam, Gone
<1>2. [at |-> "stored", box |-> FirstBox, date |-> 1] \in LetterRow
  BY <1>1 DEF LetterRow
<1>3. letter \in [Letters -> LetterRow \cup {Nothing, GoneLetter}]
      /\ \A m \in Arrived : letter[m].box = FirstBox
  BY <1>2, FeedShapes DEF FeedInit, Arrived
<1>4. FirstBox \in Here
  BY <1>1 DEF FeedInit, Here
<1>5. FeedRows
  BY <1>1, <1>3, <1>4, FeedShapes DEF FeedInit, FeedRows
<1>6. MarksOK
  BY DEF FeedInit, MarksOK, MarkOf, Arrived
<1>7. QED
  BY <1>5, <1>6 DEF FeedInit, FeedInv, WalkShows

\* A walk begins.
LEMMA StartWalkKeeps ==
  ASSUME FeedInv, NEW folder \in Folders, StartWalk(folder)
  PROVE  FeedInv'
<1>1. UNCHANGED <<scope, boxTeam, letter, marks, unmarking, feedSteps, asked, crossing>>
  BY DEF StartWalk
<1>2. PICK there \in SUBSET Letters : there = Selected(folder)
  BY SelectedIs, FeedSets DEF FeedInv
<1>3. PICK none \in SUBSET Letters : none = {}
  OBVIOUS
<1>4. walk' = [at |-> "reading", folder |-> folder, cursor |-> Nothing, shown |-> none,
               repeated |-> FALSE, steady |-> there]
  BY <1>2, <1>3 DEF StartWalk
<1>5. walk' \in WalkRow
  BY <1>4 DEF WalkRow
<1>6. Selected(folder)' = Selected(folder)
  BY <1>1 DEF Selected, Arrived, _resolve_visible_accounts, Here, _scope_predicate, InFolder, Is
<1>7. WalkShows'
  BY <1>2, <1>3, <1>4, <1>5, <1>6 DEF WalkShows
<1>8. FeedRows' /\ MarksOK'
  BY <1>1 DEF FeedInv, FeedRows, MarksOK, MarkOf, Arrived, Here
<1>9. QED
  BY <1>7, <1>8 DEF FeedInv

\* A page is read, and the cursor moves to its last letter.
LEMMA ListMessagesKeeps ==
  ASSUME FeedInv, list_messages
  PROVE  FeedInv'
<1>1. /\ walk.at = "reading"
      /\ UNCHANGED <<scope, boxTeam, letter, marks, unmarking, feedSteps, asked, crossing>>
  BY DEF list_messages
<1>2. FeedRows' /\ MarksOK'
  BY <1>1 DEF FeedInv, FeedRows, MarksOK, MarkOf, Arrived, Here
<1>3. PICK w : w = walk
  OBVIOUS
<1>4. /\ w \in WalkRow /\ w # Nothing /\ w.cursor \in Cursor \cup {Nothing}
      /\ w.cursor = Nothing => w.shown = {}
      /\ \A m \in w.shown : letter[m] # Nothing
      /\ \A m \in w.shown \cap Arrived : ~BelowCursor(m, w.cursor)
      /\ w.steady \subseteq Selected(w.folder) /\ w.folder \in Folders
      /\ \A m \in w.steady \ w.shown : w.cursor # Nothing => BelowCursor(m, w.cursor)
      /\ w.shown \subseteq Letters /\ w.steady \subseteq Letters /\ w.repeated = FALSE
  BY <1>1, <1>3, FeedShapes DEF FeedInv, WalkShows, WalkRow
<1>5. PICK found : found = list_feed(w.folder, w.cursor)
  OBVIOUS
<1>6. PICK page : page = FirstPage(found)
  OBVIOUS
<1>7. PICK last : last = Oldest(page)
  OBVIOUS
<1>8. /\ found \subseteq Arrived /\ page \subseteq found /\ found \subseteq Letters
      /\ \A m \in found : w.cursor # Nothing => BelowCursor(m, w.cursor)
      /\ \A m \in Selected(w.folder) : (w.cursor # Nothing => BelowCursor(m, w.cursor)) => m \in found
  BY <1>4, <1>5, <1>6, SelectedIs, FeedSets DEF FeedInv, list_feed, FirstPage
<1>9. page \cap w.shown = {}
  BY <1>4, <1>8
<1>10. \A m \in w.steady : m \in w.shown \/ m \in found
  BY <1>4, <1>8
<1>11. PICK shown \in SUBSET Letters : shown = w.shown \cup page
  BY <1>4, <1>8
<1>12. Selected(w.folder)' = Selected(w.folder) /\ Arrived' = Arrived
  BY <1>1 DEF Selected, Arrived, _resolve_visible_accounts, Here, _scope_predicate, InFolder, Is
<1>13. CASE found = page
  <2>1. walk' = [w EXCEPT !.shown = shown, !.repeated = FALSE, !.at = "done", !.cursor = w.cursor]
    BY <1>3, <1>4, <1>5, <1>6, <1>9, <1>11, <1>13 DEF list_messages
  <2>2. /\ walk' \in WalkRow /\ walk'.at = "done" /\ walk'.shown = shown /\ walk'.steady = w.steady
        /\ walk'.cursor = w.cursor
    BY <1>4, <1>11, <2>1 DEF WalkRow
  <2>3. w.steady \subseteq shown
    BY <1>10, <1>11, <1>13
  <2>4. QED
    BY <1>2, <2>2, <2>3 DEF FeedInv, WalkShows
<1>14. CASE found # page
  <2>1. /\ last \in page
        /\ \A k \in page : k # last => Newer(k, last)
        /\ \A k \in found \ page : Newer(last, k)
    BY <1>6, <1>7, <1>8, <1>14, PageIsFirst DEF FeedInv
  <2>2. PICK cursor : cursor = [at |-> "cursor", date |-> letter[last].date, id |-> last]
    OBVIOUS
  <2>3. /\ cursor \in Cursor /\ cursor.date = letter[last].date /\ cursor.id = last /\ cursor # Nothing
        /\ last \in Nat /\ letter[last].date \in Nat
    BY <1>8, <2>1, <2>2, FeedSets, FeedShapes DEF FeedInv, Cursor
  <2>4. walk' = [w EXCEPT !.shown = shown, !.repeated = FALSE, !.at = "reading", !.cursor = cursor]
    BY <1>3, <1>4, <1>5, <1>6, <1>7, <1>9, <1>11, <1>14, <2>2 DEF list_messages
  <2>5. /\ walk' \in WalkRow /\ walk'.at = "reading" /\ walk'.shown = shown /\ walk'.steady = w.steady
        /\ walk'.cursor = cursor /\ walk'.folder = w.folder
    BY <1>4, <1>11, <2>3, <2>4 DEF WalkRow
  <2>6. \A m \in Arrived : m \in Nat /\ letter[m].date \in Nat
    BY FeedSets DEF FeedInv
  <2>there. \A m \in shown : letter[m] # Nothing
    BY <1>4, <1>8, <1>11, FeedSets, FeedShapes DEF FeedInv
  <2>7. ASSUME NEW m \in shown \cap Arrived PROVE ~BelowCursor(m, cursor)
    <3>1. CASE m \in page
      BY <2>1, <2>3, <2>6, <2>7, <3>1 DEF BelowCursor, Newer
    <3>2. CASE m \in w.shown
      <4>1. w.cursor \in Cursor
        BY <1>4, <3>2
      <4>2. ~BelowCursor(m, w.cursor) /\ BelowCursor(last, w.cursor)
        BY <1>4, <1>8, <2>1, <2>7, <3>2, <4>1, FeedShapes
      <4>3. w.cursor.date \in Nat /\ w.cursor.id \in Nat
        BY <4>1, MailFeedAssumption DEF Cursor, Letters
      <4>4. QED
        BY <2>3, <2>6, <2>7, <4>2, <4>3 DEF BelowCursor
    <3>3. QED
      BY <1>11, <2>7, <3>1, <3>2
  <2>8. ASSUME NEW m \in w.steady \ shown PROVE BelowCursor(m, cursor)
    <3>1. m \in found \ page
      BY <1>10, <1>11, <2>8
    <3>2. QED
      BY <1>8, <2>1, <2>3, <2>6, <3>1 DEF BelowCursor, Newer
  <2>9. WalkShows'
    BY <1>1, <1>4, <1>12, <2>3, <2>5, <2>7, <2>8, <2>there DEF WalkShows, BelowCursor
  <2>10. QED
    BY <1>2, <2>9 DEF FeedInv
<1>15. QED
  BY <1>13, <1>14

\* What else happens leaves the walk what it has shown; the letters it takes out of
\* the folder are not steady any more.
LEMMA SteadyKept ==
  ASSUME FeedInv, KeepSteady, FeedRows',
         \A m \in Arrived' : m \in Arrived => letter'[m] = letter[m],
         \A m \in Letters : m \notin Arrived /\ m \in Arrived' => letter[m] = Nothing,
         \A m \in Letters : letter[m] # Nothing => letter'[m] # Nothing
  PROVE  WalkShows'
<1>1. CASE walk = Nothing
  BY <1>1, FeedShapes DEF KeepSteady, WalkShows
<1>2. CASE walk # Nothing /\ walk.at # "reading"
  BY <1>2 DEF FeedInv, KeepSteady, WalkShows, WalkRow
<1>3. CASE walk # Nothing /\ walk.at = "reading"
  <2>1. PICK w : w = walk
    OBVIOUS
  <2>2. /\ w \in WalkRow /\ w.cursor \in Cursor \cup {Nothing}
        /\ w.cursor = Nothing => w.shown = {}
        /\ \A m \in w.shown : letter[m] # Nothing /\ letter'[m] # Nothing
        /\ \A m \in w.shown \cap Arrived : ~BelowCursor(m, w.cursor)
        /\ \A m \in w.steady \ w.shown : w.cursor # Nothing => BelowCursor(m, w.cursor)
        /\ w.steady \subseteq Selected(w.folder) /\ w.folder \in Folders
        /\ w.steady \subseteq Letters /\ w.shown \subseteq Letters
    BY <1>3, <2>1 DEF FeedInv, WalkShows, WalkRow
  <2>3. PICK now : now = Filed'[w.folder]
    OBVIOUS
  <2>4. now = Selected(w.folder)'
    BY <2>2, <2>3 DEF Filed
  <2>5. PICK steady \in SUBSET Letters : steady = w.steady \cap now
    BY <2>2
  <2>6. walk' = [w EXCEPT !.steady = steady]
    BY <1>3, <2>1, <2>3, <2>5 DEF KeepSteady
  <2>7. /\ walk' \in WalkRow /\ walk'.at = "reading" /\ walk'.shown = w.shown /\ walk'.steady = steady
        /\ walk'.cursor = w.cursor /\ walk'.folder = w.folder
    BY <1>3, <2>1, <2>2, <2>6 DEF WalkRow
  <2>8. now \subseteq Arrived'
    BY <2>4 DEF Selected
  <2>9. \A m \in w.shown \cap Arrived' : ~BelowCursor(m, w.cursor)'
    <3>1. SUFFICES ASSUME NEW m \in w.shown \cap Arrived' PROVE ~BelowCursor(m, w.cursor)'
      OBVIOUS
    <3>2. m \in Arrived /\ letter'[m] = letter[m]
      BY <1>3, <2>1, <2>2, <3>1
    <3>3. QED
      BY <2>2, <3>1, <3>2 DEF BelowCursor
  <2>10. \A m \in steady \ w.shown : w.cursor # Nothing => BelowCursor(m, w.cursor)'
    <3>1. SUFFICES ASSUME NEW m \in steady \ w.shown, w.cursor # Nothing
                   PROVE  BelowCursor(m, w.cursor)'
      OBVIOUS
    <3>2. m \in w.steady /\ m \in Arrived /\ m \in Arrived'
      BY <2>2, <2>5, <2>8, SelectedIs DEF FeedInv
    <3>3. BelowCursor(m, w.cursor) /\ letter'[m] = letter[m]
      BY <2>2, <3>1, <3>2
    <3>4. QED
      BY <3>3 DEF BelowCursor
  <2>11. QED
    BY <2>2, <2>4, <2>5, <2>7, <2>9, <2>10 DEF WalkShows, BelowCursor
<1>4. QED
  BY <1>1, <1>2, <1>3

\* A step that changes no letter and no team of a mailbox.
LEMMA SameLetters ==
  ASSUME FeedInv, UNCHANGED <<scope, boxTeam, letter>>, KeepSteady,
         marks' \in [Letters -> Marks \cup {Unfiled}], asked' \in [Letters -> Marks],
         crossing' \subseteq Letters, \A m \in Letters \ Arrived : marks'[m] = Unfiled,
         \A m \in Letters : letter[m] = Nothing => asked'[m] = Clear, MarksOK'
  PROVE  FeedInv'
<1>1. Arrived' = Arrived /\ Here' = Here
  BY DEF Arrived, Here
<1>2. FeedRows'
  BY <1>1 DEF FeedInv, FeedRows
<1>3. WalkShows'
  BY <1>1, <1>2, SteadyKept
<1>4. QED
  BY <1>2, <1>3 DEF FeedInv

\* A letter arrives: it is newer than nothing that was there under its id.
LEMMA ArriveKeeps ==
  ASSUME FeedInv, NEW b \in FeedBoxes, Arrive(b)
  PROVE  FeedInv'
<1>1. PICK m \in Letters, d \in Dates :
        letter[m] = Nothing /\ letter' = [letter EXCEPT ![m] = [at |-> "stored", box |-> b, date |-> d]]
  BY DEF Arrive
<1>2. boxTeam[b] # Gone /\ UNCHANGED <<scope, boxTeam, marks, unmarking, asked, crossing>> /\ KeepSteady
  BY DEF Arrive, FeedStep
<1>3. PICK row : row = [at |-> "stored", box |-> b, date |-> d]
  OBVIOUS
<1>4. row \in LetterRow /\ row.box = b /\ row # Nothing
  BY <1>3, MailFeedAssumption, FeedShapes DEF LetterRow
<1>5. \A k \in Letters : letter'[k] = IF k = m THEN row ELSE letter[k]
  BY <1>1, <1>3 DEF FeedInv, FeedRows
<1>6. /\ Here' = Here /\ b \in Here /\ letter' \in [Letters -> LetterRow \cup {Nothing, GoneLetter}]
      /\ Arrived' = Arrived \cup {m} /\ m \notin Arrived
  BY <1>1, <1>2, <1>3, <1>4, <1>5, FeedShapes DEF FeedInv, FeedRows, Here, Arrived
<1>7. marks[m] = Unfiled /\ asked[m] = Clear
  BY <1>1, <1>6 DEF FeedInv, FeedRows
<1>8. FeedRows'
  <2>1. \A k \in Arrived' : letter'[k].box \in Here'
    BY <1>1, <1>4, <1>5, <1>6 DEF FeedInv, FeedRows, Arrived
  <2>2. \A k \in Letters \ Arrived' : marks'[k] = Unfiled
    BY <1>2, <1>6 DEF FeedInv, FeedRows
  <2>3. \A k \in Letters : letter'[k] = Nothing => asked'[k] = Clear
    BY <1>2, <1>4, <1>5 DEF FeedInv, FeedRows
  <2>4. /\ scope' \in MailScopes /\ boxTeam' \in [FeedBoxes -> FeedTeams \cup {Pool, Gone}]
        /\ marks' \in [Letters -> Marks \cup {Unfiled}] /\ asked' \in [Letters -> Marks]
        /\ crossing' \subseteq Letters
    BY <1>2 DEF FeedInv, FeedRows
  <2>5. QED
    BY <1>6, <2>1, <2>2, <2>3, <2>4 DEF FeedRows
<1>9. MarksOK'
  BY <1>1, <1>2, <1>4, <1>5, <1>6, <1>7 DEF FeedInv, MarksOK, MarkOf
<1>10. WalkShows'
  BY <1>1, <1>2, <1>4, <1>5, <1>6, <1>8, SteadyKept
<1>11. QED
  BY <1>8, <1>9, <1>10 DEF FeedInv

\* A mailbox changes hands.
LEMMA MoveBoxKeeps ==
  ASSUME FeedInv, NEW b \in FeedBoxes, MoveBox(b)
  PROVE  FeedInv'
<1>1. PICK t \in FeedTeams \cup {Pool} : boxTeam' = [boxTeam EXCEPT ![b] = t]
  BY DEF MoveBox
<1>2. boxTeam[b] # Gone /\ UNCHANGED <<scope, letter, marks, unmarking, asked, crossing>> /\ KeepSteady
  BY DEF MoveBox, FeedStep
<1>3. t # Gone
  BY MailFeedAssumption DEF Gone
<1>4. Here' = Here /\ Arrived' = Arrived
  BY <1>1, <1>2, <1>3 DEF FeedInv, FeedRows, Here, Arrived
<1>5. FeedRows'
  BY <1>1, <1>2, <1>4 DEF FeedInv, FeedRows
<1>6. MarksOK'
  BY <1>2, <1>4 DEF FeedInv, MarksOK, MarkOf
<1>7. WalkShows'
  BY <1>2, <1>4, <1>5, SteadyKept
<1>8. QED
  BY <1>5, <1>6, <1>7 DEF FeedInv

\* A mailbox goes, its letters with it and their marks.
LEMMA DropBoxKeeps ==
  ASSUME FeedInv, NEW b \in FeedBoxes, DropBox(b)
  PROVE  FeedInv'
<1>1. PICK lost : lost = {m \in Arrived : letter[m].box = b}
  OBVIOUS
<1>2. /\ boxTeam' = [boxTeam EXCEPT ![b] = Gone]
      /\ letter' = [m \in Letters |-> IF m \in lost THEN GoneLetter ELSE letter[m]]
      /\ marks' = [m \in Letters |-> IF m \in lost THEN Unfiled ELSE marks[m]]
      /\ asked' = [m \in Letters |-> IF m \in lost THEN Clear ELSE asked[m]]
      /\ UNCHANGED <<scope, unmarking, crossing>> /\ KeepSteady
  BY <1>1 DEF DropBox, FeedStep, GoneLetter
<1>3. lost \subseteq Arrived /\ Arrived \subseteq Letters
  BY <1>1 DEF Arrived
<1>4. /\ Arrived' = Arrived \ lost /\ \A m \in Arrived' : letter'[m] = letter[m]
      /\ \A m \in Letters : letter'[m] = Nothing <=> letter[m] = Nothing
  BY <1>2, <1>3, FeedShapes DEF Arrived, Gone
<1>5. Here' = Here \ {b}
  BY <1>2 DEF FeedInv, FeedRows, Here
<1>6. \A m \in Arrived' : letter'[m].box \in Here'
  BY <1>1, <1>4, <1>5 DEF FeedInv, FeedRows
<1>7. letter' \in [Letters -> LetterRow \cup {Nothing, GoneLetter}]
      /\ boxTeam' \in [FeedBoxes -> FeedTeams \cup {Pool, Gone}]
      /\ marks' \in [Letters -> Marks \cup {Unfiled}] /\ asked' \in [Letters -> Marks]
  BY <1>2, FeedShapes DEF FeedInv, FeedRows
<1>8. /\ \A m \in Letters \ Arrived' : marks'[m] = Unfiled
      /\ \A m \in Letters : letter'[m] = Nothing => asked'[m] = Clear
  BY <1>2, <1>4 DEF FeedInv, FeedRows
<1>9. FeedRows'
  BY <1>2, <1>6, <1>7, <1>8 DEF FeedInv, FeedRows
<1>10. MarksOK'
  <2>1. \A m \in Arrived' : marks'[m] = marks[m] /\ asked'[m] = asked[m] /\ m \in Arrived
    BY <1>2, <1>3, <1>4
  <2>2. QED
    BY <1>2, <1>4, <2>1 DEF FeedInv, MarksOK, MarkOf
<1>11. WalkShows'
  BY <1>2, <1>3, <1>4, <1>9, SteadyKept
<1>12. QED
  BY <1>9, <1>10, <1>11 DEF FeedInv

\* A batch is marked and its answer says so: the marks of a letter in scope and what
\* was answered change alike.
LEMMA MarkedKeeps ==
  ASSUME FeedInv, NEW ms \in SUBSET Arrived, NEW after, NEW answer, Marked(ms, after, answer),
         \A m \in Letters : /\ after[m] \in Marks \cup {Unfiled} /\ answer[m] \in Marks
                            /\ MarkOf(m) = asked[m] =>
                                 answer[m] = IF after[m] = Unfiled THEN Clear ELSE after[m]
  PROVE  FeedInv'
<1>1. PICK found : found = _filter_message_ids_in_scope(ms)
  OBVIOUS
<1>2. /\ marks' = [m \in Letters |-> IF m \in found THEN after[m] ELSE marks[m]]
      /\ asked' = [m \in Letters |-> IF m \in found THEN answer[m] ELSE asked[m]]
      /\ crossing' = IF unmarking # Nothing /\ unmarking.id \in found
                     THEN crossing \cup {unmarking.id} ELSE crossing
      /\ UNCHANGED <<scope, boxTeam, letter, unmarking>> /\ KeepSteady
  BY <1>1 DEF Marked, FeedStep
<1>3. found \subseteq Arrived /\ Arrived' = Arrived /\ Arrived \subseteq Letters
      /\ \A m \in Arrived : letter[m] # Nothing
  BY <1>1, <1>2, FeedSets, FeedShapes
     DEF FeedInv, _filter_message_ids_in_scope, _load_message_in_scope, Arrived
<1>4. marks' \in [Letters -> Marks \cup {Unfiled}] /\ asked' \in [Letters -> Marks]
  BY <1>2 DEF FeedInv, FeedRows
<1>5. crossing' \subseteq Letters /\ crossing \subseteq crossing'
  BY <1>2, <1>3 DEF FeedInv, FeedRows
<1>6. \A m \in Letters \ Arrived : marks'[m] = Unfiled
  BY <1>2, <1>3 DEF FeedInv, FeedRows
<1>7. \A m \in Letters : letter[m] = Nothing => asked'[m] = Clear
  BY <1>2, <1>3 DEF FeedInv, FeedRows
<1>8. ASSUME NEW m \in Arrived' \ crossing' PROVE MarkOf(m)' = asked'[m]
  <2>1. MarkOf(m) = asked[m] /\ m \in Letters
    BY <1>3, <1>5, <1>8 DEF FeedInv, MarksOK
  <2>2. QED
    BY <1>2, <2>1 DEF MarkOf
<1>9. ASSUME unmarking # Nothing, unmarking.id \in Arrived \ crossing'
      PROVE  unmarking.row = marks'[unmarking.id]
  <2>1. unmarking.row = marks[unmarking.id] /\ unmarking.id \in Letters
    BY <1>3, <1>5, <1>9 DEF FeedInv, MarksOK
  <2>2. unmarking.id \notin found
    BY <1>2, <1>9
  <2>3. QED
    BY <1>2, <2>1, <2>2
<1>10. MarksOK'
  BY <1>2, <1>3, <1>8, <1>9 DEF FeedInv, MarksOK
<1>11. QED
  BY <1>2, <1>4, <1>5, <1>6, <1>7, <1>10, SameLetters

\* A row and the answer before it, and both after: they agree if they agreed.
Agree(row, was, after, answer) ==
  /\ after \in Marks \cup {Unfiled} /\ answer \in Marks
  /\ was = (IF row = Unfiled THEN Clear ELSE row) =>
       answer = (IF after = Unfiled THEN Clear ELSE after)

\* A mark that is not set stays so when it is taken off.
LEMMA ClearStays ==
  /\ [Clear EXCEPT !.read = FALSE] = Clear
  /\ [Clear EXCEPT !.archived = FALSE] = Clear
  /\ [Clear EXCEPT !.deleted = FALSE] = Clear
<1>1. \A r \in Marks : /\ ~r.read => [r EXCEPT !.read = FALSE] = r
                       /\ ~r.archived => [r EXCEPT !.archived = FALSE] = r
                       /\ ~r.deleted => [r EXCEPT !.deleted = FALSE] = r
  BY DEF Marks
<1>2. ~Clear.read /\ ~Clear.archived /\ ~Clear.deleted
  BY DEF Clear
<1>3. Clear \in Marks
  BY FeedShapes
<1>4. QED
  BY <1>1, <1>2, <1>3

\* What the five batches do to one row, and to what was answered of it.
LEMMA RowMarks ==
  ASSUME NEW row \in Marks \cup {Unfiled}, NEW was \in Marks
  PROVE  /\ Agree(row, was, mark_read(row), [was EXCEPT !.read = TRUE])
         /\ Agree(row, was, mark_archived(row), [was EXCEPT !.archived = TRUE, !.deleted = FALSE])
         /\ Agree(row, was, mark_deleted(row), [was EXCEPT !.deleted = TRUE])
         /\ Agree(row, was, mark_unarchived(row), [was EXCEPT !.archived = FALSE])
         /\ Agree(row, was, mark_restored(row), [was EXCEPT !.deleted = FALSE])
<1>1. PICK old : old = Inserted(row)
  OBVIOUS
<1>2. old \in Marks /\ Clear \in Marks /\ \A r \in Marks : r # Unfiled
  BY <1>1, FeedShapes DEF Inserted
<1>3. old = IF row = Unfiled THEN Clear ELSE row
  BY <1>1 DEF Inserted
<1>4. Agree(row, was, mark_read(row), [was EXCEPT !.read = TRUE])
  <2>1. mark_read(row) = [old EXCEPT !.read = TRUE]
    BY <1>1 DEF mark_read
  <2>2. [old EXCEPT !.read = TRUE] \in Marks /\ [was EXCEPT !.read = TRUE] \in Marks
    BY <1>2 DEF Marks
  <2>3. QED
    BY <1>2, <1>3, <2>1, <2>2 DEF Agree
<1>5. Agree(row, was, mark_archived(row), [was EXCEPT !.archived = TRUE, !.deleted = FALSE])
  <2>1. mark_archived(row) = [old EXCEPT !.archived = TRUE, !.deleted = FALSE]
    BY <1>1 DEF mark_archived
  <2>2. /\ [old EXCEPT !.archived = TRUE, !.deleted = FALSE] \in Marks
        /\ [was EXCEPT !.archived = TRUE, !.deleted = FALSE] \in Marks
    BY <1>2 DEF Marks
  <2>3. QED
    BY <1>2, <1>3, <2>1, <2>2 DEF Agree
<1>6. Agree(row, was, mark_deleted(row), [was EXCEPT !.deleted = TRUE])
  <2>1. mark_deleted(row) = [old EXCEPT !.deleted = TRUE]
    BY <1>1 DEF mark_deleted
  <2>2. [old EXCEPT !.deleted = TRUE] \in Marks /\ [was EXCEPT !.deleted = TRUE] \in Marks
    BY <1>2 DEF Marks
  <2>3. QED
    BY <1>2, <1>3, <2>1, <2>2 DEF Agree
<1>7. Agree(row, was, mark_unarchived(row), [was EXCEPT !.archived = FALSE])
  <2>1. mark_unarchived(row) = IF row = Unfiled THEN row ELSE [row EXCEPT !.archived = FALSE]
    BY DEF mark_unarchived
  <2>2. /\ row \in Marks => [row EXCEPT !.archived = FALSE] \in Marks
        /\ [was EXCEPT !.archived = FALSE] \in Marks
    BY DEF Marks
  <2>3. QED
    BY <1>2, <2>1, <2>2, ClearStays DEF Agree
<1>8. Agree(row, was, mark_restored(row), [was EXCEPT !.deleted = FALSE])
  <2>1. mark_restored(row) = IF row = Unfiled THEN row ELSE [row EXCEPT !.deleted = FALSE]
    BY DEF mark_restored
  <2>2. /\ row \in Marks => [row EXCEPT !.deleted = FALSE] \in Marks
        /\ [was EXCEPT !.deleted = FALSE] \in Marks
    BY DEF Marks
  <2>3. QED
    BY <1>2, <2>1, <2>2, ClearStays DEF Agree
<1>9. QED
  BY <1>4, <1>5, <1>6, <1>7, <1>8

\* The batches.
LEMMA BatchKeeps ==
  ASSUME FeedInv, NEW ms \in SUBSET Arrived,
         \/ batch_read(ms) \/ batch_archive(ms) \/ batch_delete(ms)
         \/ batch_unarchive(ms) \/ batch_restore(ms)
  PROVE  FeedInv'
<1>1. \A m \in Letters : marks[m] \in Marks \cup {Unfiled} /\ asked[m] \in Marks
  BY DEF FeedInv, FeedRows
<1>2. CASE batch_read(ms)
  <2>1. PICK after : after = [m \in Letters |-> mark_read(marks[m])]
    OBVIOUS
  <2>2. PICK answer : answer = [m \in Letters |-> [asked[m] EXCEPT !.read = TRUE]]
    OBVIOUS
  <2>3. Marked(ms, after, answer)
    BY <1>2, <2>1, <2>2 DEF batch_read
  <2>4. \A m \in Letters : /\ after[m] \in Marks \cup {Unfiled} /\ answer[m] \in Marks
                           /\ MarkOf(m) = asked[m] =>
                                answer[m] = IF after[m] = Unfiled THEN Clear ELSE after[m]
    BY <1>1, <2>1, <2>2, RowMarks DEF MarkOf, Agree
  <2>5. QED
    BY <2>3, <2>4, MarkedKeeps
<1>3. CASE batch_archive(ms)
  <2>1. PICK after : after = [m \in Letters |-> mark_archived(marks[m])]
    OBVIOUS
  <2>2. PICK answer : answer = [m \in Letters |-> [asked[m] EXCEPT !.archived = TRUE, !.deleted = FALSE]]
    OBVIOUS
  <2>3. Marked(ms, after, answer)
    BY <1>3, <2>1, <2>2 DEF batch_archive
  <2>4. \A m \in Letters : /\ after[m] \in Marks \cup {Unfiled} /\ answer[m] \in Marks
                           /\ MarkOf(m) = asked[m] =>
                                answer[m] = IF after[m] = Unfiled THEN Clear ELSE after[m]
    BY <1>1, <2>1, <2>2, RowMarks DEF MarkOf, Agree
  <2>5. QED
    BY <2>3, <2>4, MarkedKeeps
<1>4. CASE batch_delete(ms)
  <2>1. PICK after : after = [m \in Letters |-> mark_deleted(marks[m])]
    OBVIOUS
  <2>2. PICK answer : answer = [m \in Letters |-> [asked[m] EXCEPT !.deleted = TRUE]]
    OBVIOUS
  <2>3. Marked(ms, after, answer)
    BY <1>4, <2>1, <2>2 DEF batch_delete
  <2>4. \A m \in Letters : /\ after[m] \in Marks \cup {Unfiled} /\ answer[m] \in Marks
                           /\ MarkOf(m) = asked[m] =>
                                answer[m] = IF after[m] = Unfiled THEN Clear ELSE after[m]
    BY <1>1, <2>1, <2>2, RowMarks DEF MarkOf, Agree
  <2>5. QED
    BY <2>3, <2>4, MarkedKeeps
<1>5. CASE batch_unarchive(ms)
  <2>1. PICK after : after = [m \in Letters |-> mark_unarchived(marks[m])]
    OBVIOUS
  <2>2. PICK answer : answer = [m \in Letters |-> [asked[m] EXCEPT !.archived = FALSE]]
    OBVIOUS
  <2>3. Marked(ms, after, answer)
    BY <1>5, <2>1, <2>2 DEF batch_unarchive
  <2>4. \A m \in Letters : /\ after[m] \in Marks \cup {Unfiled} /\ answer[m] \in Marks
                           /\ MarkOf(m) = asked[m] =>
                                answer[m] = IF after[m] = Unfiled THEN Clear ELSE after[m]
    BY <1>1, <2>1, <2>2, RowMarks DEF MarkOf, Agree
  <2>5. QED
    BY <2>3, <2>4, MarkedKeeps
<1>6. CASE batch_restore(ms)
  <2>1. PICK after : after = [m \in Letters |-> mark_restored(marks[m])]
    OBVIOUS
  <2>2. PICK answer : answer = [m \in Letters |-> [asked[m] EXCEPT !.deleted = FALSE]]
    OBVIOUS
  <2>3. Marked(ms, after, answer)
    BY <1>6, <2>1, <2>2 DEF batch_restore
  <2>4. \A m \in Letters : /\ after[m] \in Marks \cup {Unfiled} /\ answer[m] \in Marks
                           /\ MarkOf(m) = asked[m] =>
                                answer[m] = IF after[m] = Unfiled THEN Clear ELSE after[m]
    BY <1>1, <2>1, <2>2, RowMarks DEF MarkOf, Agree
  <2>5. QED
    BY <2>3, <2>4, MarkedKeeps
<1>7. QED
  BY <1>2, <1>3, <1>4, <1>5, <1>6

\* An unmark_read reads the row ...
LEMMA BeginUnmarkKeeps ==
  ASSUME FeedInv, NEW m \in Letters, BeginUnmark(m)
  PROVE  FeedInv'
<1>1. /\ m \in Arrived /\ UNCHANGED <<scope, boxTeam, letter, marks, asked, crossing>> /\ KeepSteady
      /\ unmarking' = [at |-> "read", id |-> m, row |-> marks[m]]
  BY DEF BeginUnmark, FeedStep, _load_message_in_scope
<1>2. Arrived' = Arrived /\ letter[m] # Nothing
  BY <1>1, FeedShapes DEF Arrived
<1>3. MarksOK'
  BY <1>1, <1>2 DEF FeedInv, MarksOK, MarkOf
<1>4. QED
  BY <1>1, <1>3, SameLetters DEF FeedInv, FeedRows

\* ... and writes what it makes of it: of a letter marked meanwhile that may be wrong.
LEMMA UnmarkKeeps ==
  ASSUME FeedInv, unmark_read
  PROVE  FeedInv'
<1>1. PICK m : m = unmarking.id
  OBVIOUS
<1>2. PICK seen : seen = unmarking.row
  OBVIOUS
<1>3. PICK row : row = marks[m]
  OBVIOUS
<1>4. PICK new : new = Unmarked(seen, row)
  OBVIOUS
<1>5. PICK answer : answer = [asked[m] EXCEPT !.read = FALSE]
  OBVIOUS
<1>6. /\ unmarking # Nothing /\ m \in Letters /\ letter[m] # Nothing
      /\ m \in Arrived \ crossing => seen = row
  BY <1>1, <1>2, <1>3 DEF unmark_read, FeedInv, MarksOK
<1>7. /\ marks \in [Letters -> Marks \cup {Unfiled}] /\ asked \in [Letters -> Marks]
      /\ row \in Marks \cup {Unfiled} /\ asked[m] \in Marks
  BY <1>3, <1>6 DEF FeedInv, FeedRows
<1>8. /\ unmarking' = Nothing /\ UNCHANGED <<scope, boxTeam, letter, crossing>> /\ KeepSteady
      /\ marks' = [marks EXCEPT ![m] = new] /\ asked' = [asked EXCEPT ![m] = answer]
  BY <1>1, <1>2, <1>3, <1>4, <1>5, <1>7 DEF unmark_read
<1>9. new \in Marks \cup {Unfiled} /\ (row = Unfiled => new = Unfiled)
  BY <1>4, <1>7 DEF Unmarked, Marks
<1>10. answer \in Marks /\ (asked[m] = Clear => answer = Clear)
  <2>1. \A r \in Marks : [r EXCEPT !.read = FALSE] \in Marks
    BY DEF Marks
  <2>2. QED
    BY <1>5, <1>7, <2>1, ClearStays
<1>11. ASSUME seen = row, asked[m] = IF row = Unfiled THEN Clear ELSE row
       PROVE  answer = IF new = Unfiled THEN Clear ELSE new
  <2>1. CASE row = Unfiled
    BY <1>9, <1>10, <1>11, <2>1
  <2>2. CASE row # Unfiled
    <3>1. row \in Marks /\ asked[m] = row /\ answer = [row EXCEPT !.read = FALSE]
      BY <1>5, <1>7, <1>11, <2>2
    <3>2. CASE ~row.archived /\ ~row.deleted
      <4>1. new = Unfiled
        BY <1>4, <1>11, <3>2 DEF Unmarked
      <4>2. answer = Clear
        BY <3>1, <3>2 DEF Marks, Clear
      <4>3. QED
        BY <4>1, <4>2
    <3>3. CASE ~(~row.archived /\ ~row.deleted) /\ row.read
      <4>1. new = [row EXCEPT !.read = FALSE]
        BY <1>4, <1>11, <2>2, <3>3 DEF Unmarked
      <4>2. new \in Marks
        BY <3>1, <4>1 DEF Marks
      <4>3. QED
        BY <3>1, <4>1, <4>2, FeedShapes
    <3>4. CASE ~(~row.archived /\ ~row.deleted) /\ ~row.read
      <4>1. new = row
        BY <1>4, <1>11, <2>2, <3>4 DEF Unmarked
      <4>2. row = [row EXCEPT !.read = FALSE]
        BY <3>1, <3>4 DEF Marks
      <4>3. QED
        BY <2>2, <3>1, <4>1, <4>2
    <3>5. QED
      BY <3>2, <3>3, <3>4
  <2>3. QED
    BY <2>1, <2>2
<1>12. Arrived' = Arrived
  BY <1>8 DEF Arrived
<1>13. ASSUME NEW k \in Arrived \ crossing PROVE MarkOf(k)' = asked'[k]
  <2>1. MarkOf(k) = asked[k] /\ k \in Letters
    BY <1>13 DEF FeedInv, MarksOK, Arrived
  <2>2. CASE k # m
    BY <1>7, <1>8, <2>1, <2>2 DEF MarkOf
  <2>3. CASE k = m
    <3>1. seen = row /\ asked[m] = IF row = Unfiled THEN Clear ELSE row
      BY <1>3, <1>6, <1>13, <2>1, <2>3 DEF MarkOf
    <3>2. marks'[k] = new /\ asked'[k] = answer
      BY <1>7, <1>8, <2>1, <2>3
    <3>3. QED
      BY <1>11, <3>1, <3>2 DEF MarkOf
  <2>4. QED
    BY <2>2, <2>3
<1>14. MarksOK'
  BY <1>8, <1>12, <1>13 DEF MarksOK
<1>15. /\ marks' \in [Letters -> Marks \cup {Unfiled}] /\ asked' \in [Letters -> Marks]
       /\ \A k \in Letters \ Arrived : marks'[k] = Unfiled
       /\ \A k \in Letters : letter[k] = Nothing => asked'[k] = Clear
       /\ crossing' \subseteq Letters
  BY <1>3, <1>6, <1>7, <1>8, <1>9, <1>10 DEF FeedInv, FeedRows
<1>16. QED
  BY <1>8, <1>14, <1>15, SameLetters

\* Every step keeps it.
LEMMA FeedSteps == FeedInv /\ [FeedNext]_feedVars => FeedInv'
<1> SUFFICES ASSUME FeedInv, [FeedNext]_feedVars PROVE FeedInv'
  OBVIOUS
<1>1. CASE UNCHANGED feedVars
  <2>1. UNCHANGED <<scope, boxTeam, letter, marks, unmarking, walk, asked, crossing>>
    BY <1>1 DEF feedVars
  <2>2. Arrived' = Arrived /\ Here' = Here
    BY <2>1 DEF Arrived, Here
  <2>3. FeedRows' /\ MarksOK'
    BY <2>1, <2>2 DEF FeedInv, FeedRows, MarksOK, MarkOf
  <2>4. WalkShows'
    BY <2>1, <2>2 DEF FeedInv, WalkShows, BelowCursor, Selected, _resolve_visible_accounts, _scope_predicate,
                      InFolder, Is, Here
  <2>5. QED
    BY <2>3, <2>4 DEF FeedInv
<1>2. ASSUME NEW folder \in Folders, StartWalk(folder) PROVE FeedInv'
  BY <1>2, StartWalkKeeps
<1>3. ASSUME NEW b \in FeedBoxes, Arrive(b) \/ MoveBox(b) \/ DropBox(b) PROVE FeedInv'
  BY <1>3, ArriveKeeps, MoveBoxKeeps, DropBoxKeeps
<1>4. ASSUME NEW ms \in SUBSET Arrived,
             \/ batch_read(ms) \/ batch_archive(ms) \/ batch_delete(ms)
             \/ batch_unarchive(ms) \/ batch_restore(ms)
      PROVE  FeedInv'
  BY <1>4, BatchKeeps
<1>5. ASSUME NEW m \in Letters, BeginUnmark(m) PROVE FeedInv'
  BY <1>5, BeginUnmarkKeeps
<1>6. CASE list_messages
  BY <1>6, ListMessagesKeeps
<1>7. CASE unmark_read
  BY <1>7, UnmarkKeeps
<1>8. QED
  BY <1>1, <1>2, <1>3, <1>4, <1>5, <1>6, <1>7 DEF FeedNext

\* Lists, counters and operations agree on what a user may see, a feed read to its end
\* has shown each letter that was in the folder all the while and none twice, and a
\* letter's marks are those last answered: whatever arrives, is marked, moves or goes
\* between two pages (list_feed, MailScope, the batches, unmark_read).
THEOREM FeedCorrect == FeedSpec => []FeedHolds
<1> QED
  BY FeedInitInv, FeedSteps, FeedInvHolds, PTL DEF FeedSpec

\* Elsewhere the letters stay as they are.
LEMMA FeedOfCatalogues ==
  /\ CataloguesInit => FeedInv
  /\ FeedInv /\ [CataloguesNext]_cataloguesVars => FeedInv'
<1>1. CataloguesInit => FeedInv
  BY FeedInitInv DEF CataloguesInit
<1>2. [CataloguesNext]_cataloguesVars => [FeedNext]_feedVars
  BY DEF CataloguesNext, cataloguesVars
<1>3. QED
  BY <1>1, <1>2, FeedSteps

\* The same of the catalogues as a whole: letters in the feed, and their tags.
THEOREM CatalogueLetters == CataloguesSpec => []LettersHold
<1>1. FeedInv /\ TagsInv => LettersHold
  BY FeedInvHolds, TagsInvHolds DEF LettersHold
<1>2. QED
  BY <1>1, FeedOfCatalogues, TagsOfCatalogues, PTL DEF CataloguesSpec

----------------------------------------------------------------------------
(***************************************************************************)
(* Mailboxes and the aggregator.                                           *)
(***************************************************************************)

\* Rows, mailboxes of the aggregator, requests and consents.
MaybeNumber == Numbers \cup {NoName}
MaybeApp == Apps \cup {NoName}
MaybeTeam == MailTeams \cup {NoTeam}
Names == {<<>>} \cup {<<x>> : x \in Numbers \cup Apps} \cup {<<x, y>> : x \in Numbers, y \in Apps}
Account == [number : MaybeNumber, app : MaybeApp, name : Names, team : MaybeTeam]
BoxRow == [state : {"live", "gone"}, name : Names]
Operations == {"create", "patch", "delete", "sync", "send", "cleanup"}
Fields == {"number", "app", "team"}
RequestRow == [op : Operations, n : Requested, box : Boxes \cup {0}, at : {"call", "served"},
               tries : Nat, verdict : {"ok", "missing"}, fields : SUBSET Fields, team : MaybeTeam,
               number : MaybeNumber, app : MaybeApp, name : Names, old : Account \cup {NoBox}]
ConsentRow == [n : Requested, team : MaybeTeam, box : Boxes \cup {0}]

CatalogRows ==
  /\ boxes \in [Boxes -> BoxRow \cup {NoBox}] /\ accounts \in [Boxes -> Account \cup {NoBox}]
  /\ mailTeams \subseteq MailTeams /\ calls \in [Requested -> RequestRow \cup {Free}]
  /\ strays \subseteq RequestRow /\ consents \subseteq ConsentRow
  /\ letters \in [Requested -> {0, 1}] /\ sentRows \subseteq MailSentMessage
  /\ mailBegun \in 0 .. MaxMailCalls /\ doubtful \subseteq Boxes /\ shared \subseteq Boxes
  /\ \A b \in Boxes : IsRow(b) => accounts[b].team \in mailTeams \cup {NoTeam}

\* Requests under way: one that was begun, of a mailbox unless it is to create one.
Busy == {c \in Requested : calls[c] # Free}

CallsOK ==
  /\ \A c \in Busy : /\ calls[c].n = c /\ c <= mailBegun
                     /\ calls[c].box = 0 <=> calls[c].op = "create" /\ calls[c].at = "call"
                     /\ calls[c].op = "create" /\ calls[c].at = "served" => calls[c].verdict = "ok"
  /\ \A r \in strays : /\ r.at = "call" /\ r.n <= mailBegun /\ r.n \notin Busy
                       /\ r.box = 0 <=> r.op = "create"
                       /\ r.box # 0 => r.box \in doubtful
  /\ \A g \in consents : g.n <= mailBegun

\* A mailbox that never was has no row, and nobody works on it.
FreshOK == \A b \in Boxes : boxes[b] = NoBox => ~IsRow(b) /\ ~WorkedOn(b)

\* Nobody else works on a mailbox that is not shared.
LoneOK ==
  \A b \in Boxes \ shared :
    /\ \A c, d \in Busy : calls[c].box = b /\ calls[d].box = b => c = d
    /\ \A g, h \in consents : g.box = b /\ h.box = b => g = h
    /\ \A c \in Busy, g \in consents : ~(calls[c].box = b /\ g.box = b)

\* An edit knows the row, and derives the name it writes.
PatchRow(r) ==
  /\ r.op \in {"create", "patch"} => r.name = build_display_name(r.number, r.app)
  /\ r.op = "patch" =>
       /\ r.old # NoBox /\ r.fields # {}
       /\ r.fields = {"team"} => /\ r.at = "served" /\ r.verdict = "ok"
                                 /\ r.number = r.old.number /\ r.app = r.old.app
       /\ r.box \notin shared =>
            /\ IsRow(r.box) /\ r.old.number = accounts[r.box].number
            /\ r.old.app = accounts[r.box].app /\ r.old.name = accounts[r.box].name

PatchOK == \A c \in Busy : PatchRow(calls[c])

\* The catalogue and the aggregator agree on a mailbox.
Follows(b) == (IsRow(b) <=> AliveAt(b)) /\ (IsRow(b) => accounts[b].name = boxes[b].name)

\* What a request makes of its mailbox until it ends.
Halfway(r) ==
  CASE r.op = "cleanup" /\ r.at = "call" -> AliveAt(r.box) /\ ~IsRow(r.box)
    [] r.op = "create" -> AliveAt(r.box) /\ ~IsRow(r.box) /\ boxes[r.box].name = r.name
    [] r.op = "patch" /\ r.fields # {"team"} /\ r.at = "served" /\ r.verdict = "ok" ->
         AliveAt(r.box) /\ IsRow(r.box) /\ boxes[r.box].name = r.name
    [] r.op = "delete" /\ r.at = "served" -> ~AliveAt(r.box)
    [] r.op = "cleanup" /\ r.at = "served" -> r.verdict = "ok" => Follows(r.box)
    [] OTHER -> Follows(r.box)

HalfwayOK ==
  \A b \in Boxes \ (doubtful \cup shared) :
    /\ ~WorkedOn(b) => Follows(b)
    /\ \A c \in Busy : calls[c].box = b => Halfway(calls[c])
    /\ \A g \in consents : g.box = b =>
         AliveAt(b) /\ (IsRow(b) => accounts[b].name = boxes[b].name)

\* A letter not yet sent is still to be sent by one call only.
LettersOK ==
  /\ \A c \in Busy : calls[c].op = "send" /\ calls[c].at = "call" => letters[c] = 0
  /\ \A c \in Busy : calls[c].op = "send" /\ calls[c].at = "served" /\ calls[c].verdict = "ok"
                       => letters[c] = 1
  /\ \A r \in strays : r.op = "send" => letters[r.n] = 0
  /\ \A r, q \in strays : r.n = q.n => r = q
  /\ \A n \in Requested : n > mailBegun => letters[n] = 0
  /\ \A s \in sentRows : IsRow(s.box) /\ letters[s.n] = 1

\* The inductive invariant of the mailboxes.
CatalogInv ==
  /\ CatalogRows /\ CallsOK /\ FreshOK /\ LoneOK /\ PatchOK /\ HalfwayOK /\ LettersOK /\ NameIsDerived

\* What tells rows apart.
LEMMA CatalogShapes ==
  /\ NoBox.state = "none" /\ Free.op = "none" /\ Free.at = "none"
  /\ \A row \in Account : row # NoBox
  /\ \A row \in BoxRow : row # NoBox /\ row.state \in {"live", "gone"}
  /\ \A r \in RequestRow : r # Free
  /\ 0 \notin Boxes /\ NoBox \notin Account
  /\ \A c \in Requested : c \in Nat
<1>1. NoBox.state = "none" /\ Free.op = "none" /\ Free.at = "none"
  BY DEF NoBox, Free
<1>2. \A row \in Account : row # NoBox
  <2>1. \A row \in Account : DOMAIN row = {"number", "app", "name", "team"}
    BY DEF Account
  <2>2. DOMAIN NoBox = {"state"}
    BY DEF NoBox
  <2>3. QED
    BY <2>1, <2>2
<1>3. \A row \in BoxRow : row.state \in {"live", "gone"}
  BY DEF BoxRow
<1>4. \A r \in RequestRow : r.op \in Operations
  BY DEF RequestRow
<1>5. "none" \notin Operations
  BY DEF Operations
<1>6. 0 \notin Boxes /\ \A c \in Requested : c \in Nat
  BY MailCatalogAssumption DEF Requested
<1>7. QED
  BY <1>1, <1>2, <1>3, <1>4, <1>5, <1>6

\* A name is what its parts make of it, and its parts make it again.
LEMMA NamesAreDerived ==
  /\ \A number \in MaybeNumber, app \in MaybeApp : build_display_name(number, app) \in Names
  /\ \A name \in Names :
       /\ parse_display_name(name).number \in MaybeNumber
       /\ parse_display_name(name).app \in MaybeApp
       /\ build_display_name(parse_display_name(name).number, parse_display_name(name).app) = name
<1>1. \A number \in MaybeNumber, app \in MaybeApp : build_display_name(number, app) \in Names
  BY MailCatalogAssumption DEF MaybeNumber, MaybeApp, build_display_name, Names
<1>2. ASSUME NEW name \in Names
      PROVE  /\ parse_display_name(name).number \in MaybeNumber
             /\ parse_display_name(name).app \in MaybeApp
             /\ build_display_name(parse_display_name(name).number, parse_display_name(name).app) = name
  <2>1. CASE name = <<>>
    <3>1. parse_display_name(name) = [number |-> NoName, app |-> NoName]
      BY <2>1 DEF parse_display_name
    <3>2. QED
      BY <2>1, <3>1 DEF build_display_name, MaybeNumber, MaybeApp
  <2>2. ASSUME NEW x \in Numbers \cup Apps, name = <<x>> PROVE parse_display_name(name) =
          IF x \in Numbers THEN [number |-> x, app |-> NoName] ELSE [number |-> NoName, app |-> x]
    <3>1. name # <<>> /\ name[1] = x /\ Tail(name) = <<>> /\ x # NoName
      BY <2>2, MailCatalogAssumption
    <3>2. QED
      BY <2>2, <3>1 DEF parse_display_name
  <2>3. ASSUME NEW x \in Numbers, NEW y \in Apps, name = <<x, y>>
        PROVE  parse_display_name(name) = [number |-> x, app |-> y]
    <3>1. name # <<>> /\ name[1] = x /\ Tail(name) = <<y>> /\ x # NoName
      BY <2>3, MailCatalogAssumption
    <3>2. Tail(name) # <<>> /\ Tail(name)[1] = y
      <4>1. <<y>> # <<>> /\ <<y>>[1] = y
        OBVIOUS
      <4>2. QED
        BY <3>1, <4>1
    <3>3. QED
      BY <3>1, <3>2 DEF parse_display_name
  <2>4. CASE \E x \in Numbers \cup Apps : name = <<x>>
    <3>1. PICK x \in Numbers \cup Apps : name = <<x>>
      BY <2>4
    <3>2. CASE x \in Numbers
      <4>1. parse_display_name(name) = [number |-> x, app |-> NoName] /\ x # NoName
        BY <2>2, <3>1, <3>2, MailCatalogAssumption
      <4>2. QED
        BY <3>1, <3>2, <4>1 DEF build_display_name, MaybeNumber, MaybeApp
    <3>3. CASE x \notin Numbers
      <4>1. parse_display_name(name) = [number |-> NoName, app |-> x] /\ x # NoName /\ x \in Apps
        BY <2>2, <3>1, <3>3, MailCatalogAssumption
      <4>2. QED
        BY <3>1, <4>1 DEF build_display_name, MaybeNumber, MaybeApp
    <3>4. QED
      BY <3>2, <3>3
  <2>5. CASE \E x \in Numbers, y \in Apps : name = <<x, y>>
    <3>1. PICK x \in Numbers, y \in Apps : name = <<x, y>>
      BY <2>5
    <3>2. parse_display_name(name) = [number |-> x, app |-> y] /\ x # NoName /\ y # NoName
      BY <2>3, <3>1, MailCatalogAssumption
    <3>3. QED
      BY <3>1, <3>2 DEF build_display_name, MaybeNumber, MaybeApp
  <2>6. QED
    BY <2>1, <2>4, <2>5 DEF Names
<1>3. QED
  BY <1>1, <1>2

\* The row of a mailbox, and its name.
LEMMA AccountRows ==
  ASSUME NEW number \in MaybeNumber, NEW app \in MaybeApp, NEW team \in MaybeTeam
  PROVE  /\ AccountRow(number, app, team) \in Account
         /\ AccountRow(number, app, team).number = number /\ AccountRow(number, app, team).app = app
         /\ AccountRow(number, app, team).name = build_display_name(number, app)
         /\ AccountRow(number, app, team).team = team
<1>1. build_display_name(number, app) \in Names
  BY NamesAreDerived
<1>2. QED
  BY <1>1 DEF AccountRow, Account

\* While an identifier is left there is a next one.
LEMMA NextBoxIsFresh ==
  ASSUME \E b \in Boxes : boxes[b] = NoBox
  PROVE  NextBox \in Boxes /\ boxes[NextBox] = NoBox
<1>1. PICK top \in Boxes : boxes[top] = NoBox
  OBVIOUS
<1>2. PICK S : S = {b \in Boxes : boxes[b] = NoBox /\ b <= top}
  OBVIOUS
<1>3. S \subseteq 0 .. top /\ top \in S /\ top \in Nat
  <2>1. \A b \in Boxes : b \in Nat
    BY MailCatalogAssumption
  <2>2. top \in Nat /\ top \in S
    BY <1>1, <1>2, <2>1
  <2>3. ASSUME NEW b \in S PROVE b \in 0 .. top
    <3>1. b \in Boxes /\ b <= top
      BY <1>2
    <3>2. b \in Nat
      BY <2>1, <3>1
    <3>3. QED
      BY <2>2, <3>1, <3>2
  <2>4. QED
    BY <2>2, <2>3
<1>4. IsFiniteSet(S)
  <2>1. 0 \in Int /\ top \in Int
    BY <1>3
  <2>2. IsFiniteSet(0 .. top)
    BY <2>1, FS_Interval
  <2>3. QED
    BY <1>3, <2>2, FS_Subset
<1>5. PICK least \in S : \A b \in S \ {least} : least < b
  <2> DEFINE R == {pair \in S \X S : pair[1] < pair[2]}
  <2>1. \A m, k \in S : <<m, k>> \in R <=> m < k
    OBVIOUS
  <2>2. \A m \in S : m \in Nat
    BY <1>3
  <2> HIDE DEF R
  <2>3. \E m \in S : \A k \in S \ {m} : <<m, k>> \in R
    <3>1. \A x \in S : <<x, x>> \notin R
      BY <2>1, <2>2
    <3>2. \A x, y, z \in S : <<x, y>> \in R /\ <<y, z>> \in R => <<x, z>> \in R
      BY <2>1, <2>2
    <3>3. \A x, y \in S : x # y => <<x, y>> \in R \/ <<y, x>> \in R
      BY <2>1, <2>2
    <3>4. QED
      BY <1>3, <1>4, <3>1, <3>2, <3>3, FirstInOrder
  <2>4. QED
    BY <2>1, <2>3
<1>6. /\ least \in Boxes /\ boxes[least] = NoBox
      /\ \A a \in Boxes : a < least => boxes[a] # NoBox
  BY <1>1, <1>2, <1>5, MailCatalogAssumption
<1>7. QED
  BY <1>6 DEF NextBox

\* What a request that begins knows.
LEMMA RequestIs ==
  ASSUME CatalogRows, mailBegun < MaxMailCalls, NEW op \in Operations, NEW b \in Boxes \cup {0},
         NEW at \in {"call", "served"}
  PROVE  /\ Request(op, b, at) \in RequestRow /\ mailBegun + 1 \in Requested
         /\ Request(op, b, at).op = op /\ Request(op, b, at).n = mailBegun + 1
         /\ Request(op, b, at).box = b /\ Request(op, b, at).at = at
         /\ Request(op, b, at).verdict = "ok"
<1>1. mailBegun + 1 \in Requested
  BY MailCatalogAssumption DEF CatalogRows, Requested
<1>2. PICK none \in SUBSET Fields : none = {}
  OBVIOUS
<1>3. NoTeam \in MaybeTeam /\ NoName \in MaybeNumber /\ NoName \in MaybeApp /\ <<>> \in Names
  BY DEF MaybeTeam, MaybeNumber, MaybeApp, Names
<1>4. Request(op, b, at) =
        [op |-> op, n |-> mailBegun + 1, box |-> b, at |-> at, tries |-> 0, verdict |-> "ok",
         fields |-> none, team |-> NoTeam, number |-> NoName, app |-> NoName, name |-> <<>>,
         old |-> NoBox]
  BY <1>2 DEF Request
<1>5. QED
  BY <1>1, <1>3, <1>4 DEF RequestRow

\* A request begins, of a mailbox with a row or of one to come.
LEMMA StartKeeps ==
  ASSUME CatalogInv, NEW r \in RequestRow, Start(r), r.n = mailBegun + 1,
         r.box = 0 <=> r.op = "create", r.op \in {"create", "delete", "sync", "send"} => r.at = "call",
         r.op # "cleanup", r.box # 0 => IsRow(r.box),
         r.op \in {"create", "patch"} => r.name = build_display_name(r.number, r.app),
         r.op = "patch" =>
           /\ r.old = accounts[r.box] /\ r.fields # {} /\ r.verdict = "ok"
           /\ IF r.fields = {"team"} THEN r.at = "served" ELSE r.at = "call"
           /\ r.fields = {"team"} => r.number = r.old.number /\ r.app = r.old.app
  PROVE  CatalogInv'
<1>1. PICK n : n = mailBegun + 1
  OBVIOUS
<1>2. /\ mailBegun < MaxMailCalls /\ mailBegun' = n /\ calls' = [calls EXCEPT ![n] = r]
      /\ shared' = IF r.box # 0 /\ WorkedOn(r.box) THEN shared \cup {r.box} ELSE shared
      /\ UNCHANGED <<boxes, accounts, mailTeams, strays, consents, letters, sentRows, doubtful>>
  BY <1>1 DEF Start, CountedCall
<1>3. CatalogRows /\ n \in Requested /\ n \in Nat /\ mailBegun \in Nat
      /\ \A c \in Requested : c \in Nat
  BY <1>1, <1>2, MailCatalogAssumption, CatalogShapes DEF CatalogInv, CatalogRows, Requested
<1>4. n \notin Busy
  BY <1>1, <1>3 DEF CatalogInv, CallsOK
<1>5. /\ calls' \in [Requested -> RequestRow \cup {Free}]
      /\ \A c \in Requested : calls'[c] = IF c = n THEN r ELSE calls[c]
  BY <1>2, <1>3 DEF CatalogRows
<1>6. Busy' = Busy \cup {n} /\ calls'[n] = r /\ \A c \in Busy : c # n /\ calls'[c] = calls[c]
      /\ Busy \subseteq Requested
  BY <1>3, <1>4, <1>5, CatalogShapes DEF Busy
<1>7. r.box \in Boxes \cup {0} /\ (r.box = 0 => r.op = "create")
  BY DEF RequestRow
<1>8. CatalogRows'
  <2>1. shared' \subseteq Boxes
    BY <1>2, <1>3, <1>7 DEF CatalogRows
  <2>2. mailBegun' \in 0 .. MaxMailCalls
    BY <1>1, <1>2, <1>3, MailCatalogAssumption
  <2>3. QED
    BY <1>2, <1>3, <1>5, <2>1, <2>2 DEF CatalogRows, IsRow
<1>9. CallsOK'
  <2>1. ASSUME NEW c \in Busy'
        PROVE  /\ calls'[c].n = c /\ c <= mailBegun'
               /\ calls'[c].box = 0 <=> calls'[c].op = "create" /\ calls'[c].at = "call"
               /\ calls'[c].op = "create" /\ calls'[c].at = "served" => calls'[c].verdict = "ok"
    <3>1. CASE c = n
      BY <1>1, <1>2, <1>3, <1>6, <3>1
    <3>2. CASE c # n
      <4>1. c \in Busy /\ calls'[c] = calls[c] /\ c \in Nat
        BY <1>3, <1>6, <3>2
      <4>2. QED
        BY <1>1, <1>2, <1>3, <4>1 DEF CatalogInv, CallsOK
    <3>3. QED
      BY <3>1, <3>2
  <2>2. ASSUME NEW s \in strays
        PROVE  /\ s.at = "call" /\ s.n <= mailBegun' /\ s.n \notin Busy'
               /\ s.box = 0 <=> s.op = "create"
               /\ s.box # 0 => s.box \in doubtful
    <3>1. s.n <= mailBegun /\ s.n \in Nat
      BY <1>3 DEF CatalogInv, CallsOK, CatalogRows, RequestRow
    <3>2. QED
      BY <1>1, <1>2, <1>3, <1>6, <3>1 DEF CatalogInv, CallsOK
  <2>3. ASSUME NEW g \in consents PROVE g.n <= mailBegun'
    <3>1. g.n <= mailBegun /\ g.n \in Nat
      BY <1>3 DEF CatalogInv, CallsOK, CatalogRows, ConsentRow
    <3>2. QED
      BY <1>1, <1>2, <1>3, <3>1
  <2>4. QED
    BY <1>2, <2>1, <2>2, <2>3 DEF CallsOK
<1>10. ASSUME NEW b \in Boxes PROVE WorkedOn(b)' <=> WorkedOn(b) \/ r.box = b
  <2>1. (\E c \in Requested : calls'[c] # Free /\ calls'[c].box = b)
          <=> (\E c \in Busy' : calls'[c].box = b)
    BY DEF Busy
  <2>2. (\E c \in Requested : calls[c] # Free /\ calls[c].box = b)
          <=> (\E c \in Busy : calls[c].box = b)
    BY DEF Busy
  <2>3. (\E c \in Busy' : calls'[c].box = b) <=> (\E c \in Busy : calls[c].box = b) \/ r.box = b
    BY <1>6
  <2>4. QED
    BY <1>2, <2>1, <2>2, <2>3 DEF WorkedOn
<1>11. FreshOK'
  <2>1. ASSUME NEW b \in Boxes, boxes[b] = NoBox PROVE ~IsRow(b)' /\ ~WorkedOn(b)'
    <3>1. ~IsRow(b) /\ ~WorkedOn(b)
      BY <2>1 DEF CatalogInv, FreshOK
    <3>2. r.box # b
      BY <3>1, CatalogShapes
    <3>3. QED
      BY <1>2, <1>10, <3>1, <3>2 DEF IsRow
  <2>2. QED
    BY <1>2, <2>1 DEF FreshOK
<1>12. ASSUME NEW b \in Boxes \ shared'
       PROVE  b \notin shared /\ (r.box = b => ~WorkedOn(b))
  BY <1>2, CatalogShapes
<1>13. ASSUME NEW b \in Boxes, ~WorkedOn(b)
       PROVE  (\A c \in Busy : calls[c].box # b) /\ (\A g \in consents : g.box # b)
  BY <1>13 DEF WorkedOn, Busy
<1>14. LoneOK'
  <2>1. ASSUME NEW b \in Boxes \ shared'
        PROVE  /\ \A c, d \in Busy' : calls'[c].box = b /\ calls'[d].box = b => c = d
               /\ \A g, h \in consents : g.box = b /\ h.box = b => g = h
               /\ \A c \in Busy', g \in consents : ~(calls'[c].box = b /\ g.box = b)
    <3>1. /\ \A c, d \in Busy : calls[c].box = b /\ calls[d].box = b => c = d
          /\ \A g, h \in consents : g.box = b /\ h.box = b => g = h
          /\ \A c \in Busy, g \in consents : ~(calls[c].box = b /\ g.box = b)
      BY <1>12 DEF CatalogInv, LoneOK
    <3>2. CASE r.box = b
      BY <1>6, <1>12, <1>13, <3>1, <3>2
    <3>3. CASE r.box # b
      BY <1>6, <3>1, <3>3
    <3>4. QED
      BY <3>2, <3>3
  <2>2. QED
    BY <1>2, <2>1 DEF LoneOK
<1>15. PatchOK'
  <2>1. SUFFICES ASSUME NEW c \in Busy' PROVE PatchRow(calls[c])'
    BY DEF PatchOK
  <2>2. CASE c = n
    <3>1. calls'[c] = r
      BY <1>6, <2>2
    <3>2. r.op = "patch" => IsRow(r.box) /\ r.old # NoBox
      BY <1>7 DEF IsRow
    <3>3. QED
      BY <1>2, <3>1, <3>2 DEF IsRow, PatchRow
  <2>3. CASE c # n
    <3>1. c \in Busy /\ calls'[c] = calls[c] /\ PatchRow(calls[c])
      BY <1>6, <2>3 DEF CatalogInv, PatchOK
    <3>2. shared \subseteq shared'
      BY <1>2
    <3>3. QED
      BY <1>2, <3>1, <3>2 DEF PatchRow, IsRow
  <2>4. QED
    BY <2>2, <2>3
<1>16. HalfwayOK'
  <2>1. SUFFICES ASSUME NEW b \in Boxes \ (doubtful' \cup shared')
                 PROVE  /\ ~WorkedOn(b)' => Follows(b)'
                        /\ \A c \in Busy' : calls'[c].box = b => Halfway(calls[c])'
                        /\ \A g \in consents' : g.box = b =>
                             AliveAt(b)' /\ (IsRow(b)' => accounts'[b].name = boxes'[b].name)
    BY DEF HalfwayOK
  <2>2. b \in Boxes \ (doubtful \cup shared)
    BY <1>2, <2>1
  <2>3. Follows(b)' <=> Follows(b)
    BY <1>2 DEF Follows, IsRow, AliveAt
  <2>4. ASSUME NEW c \in Busy', calls'[c].box = b PROVE Halfway(calls[c])'
    <3>1. CASE c = n
      <4>1. calls'[c] = r /\ r.box = b /\ b # 0
        BY <1>6, <2>4, <3>1, CatalogShapes
      <4>2. Follows(b)'
        BY <1>12, <2>2, <2>3, <4>1 DEF CatalogInv, HalfwayOK
      <4>3. r.op \in {"patch", "delete", "sync", "send"}
        BY <4>1 DEF RequestRow, Operations
      <4>4. r.op = "patch" => r.fields = {"team"} \/ r.at = "call"
        OBVIOUS
      <4>5. QED
        BY <4>1, <4>2, <4>3, <4>4 DEF Halfway
    <3>2. CASE c # n
      <4>1. c \in Busy /\ calls'[c] = calls[c] /\ calls[c].box = b
        BY <1>6, <2>4, <3>2
      <4>2. Halfway(calls[c])
        BY <2>2, <4>1 DEF CatalogInv, HalfwayOK
      <4>3. QED
        BY <1>2, <4>1, <4>2 DEF Halfway, Follows, IsRow, AliveAt
    <3>3. QED
      BY <3>1, <3>2
  <2>5. QED
    BY <1>2, <1>10, <2>1, <2>2, <2>3, <2>4 DEF CatalogInv, HalfwayOK, IsRow, AliveAt
<1>17. LettersOK'
  <2>1. letters[n] = 0
    BY <1>1, <1>3 DEF CatalogInv, LettersOK
  <2>2. r.op = "send" => r.at = "call"
    OBVIOUS
  <2>3. \A c \in Busy' : calls'[c].op = "send" /\ calls'[c].at = "call" => letters'[c] = 0
    BY <1>2, <1>6, <2>1 DEF CatalogInv, LettersOK
  <2>4. \A c \in Busy' : calls'[c].op = "send" /\ calls'[c].at = "served" /\ calls'[c].verdict = "ok"
                           => letters'[c] = 1
    BY <1>2, <1>6, <2>2 DEF CatalogInv, LettersOK
  <2>5. \A c \in Requested : c > mailBegun' => letters'[c] = 0
    BY <1>1, <1>2, <1>3 DEF CatalogInv, LettersOK
  <2>6. QED
    BY <1>2, <2>3, <2>4, <2>5 DEF CatalogInv, LettersOK, IsRow
<1>18. NameIsDerived'
  BY <1>2, <1>12 DEF CatalogInv, NameIsDerived, IsRow
<1>19. QED
  BY <1>8, <1>9, <1>11, <1>14, <1>15, <1>16, <1>17, <1>18 DEF CatalogInv

\* The requests of mailboxes.
LEMMA RequestsKeep ==
  ASSUME CatalogInv,
         create_mailbox \/ \E b \in Boxes : update_mailbox(b) \/ delete_mailbox(b)
                                            \/ sync_mailbox(b) \/ compose(b)
  PROVE  CatalogInv'
<1>1. CatalogRows
  BY DEF CatalogInv
<1>2. CASE create_mailbox
  <2>1. PICK team \in mailTeams \cup {NoTeam}, number \in Numbers \cup {NoName}, app \in Apps :
          Start([Request("create", 0, "call") EXCEPT !.team = team, !.number = number, !.app = app,
                                                     !.name = build_display_name(number, app)])
    BY <1>2 DEF create_mailbox
  <2>2. mailBegun < MaxMailCalls
    BY <2>1 DEF Start, CountedCall
  <2>3. PICK q : q = Request("create", 0, "call")
    OBVIOUS
  <2>4. /\ q \in RequestRow /\ q.op = "create" /\ q.n = mailBegun + 1 /\ q.box = 0 /\ q.at = "call"
    BY <1>1, <2>2, <2>3, RequestIs DEF Operations
  <2>5. PICK name : name = build_display_name(number, app)
    OBVIOUS
  <2>6. team \in MaybeTeam /\ number \in MaybeNumber /\ app \in MaybeApp
    BY <1>1 DEF CatalogRows, MaybeTeam, MaybeNumber, MaybeApp
  <2>7. name \in Names
    BY <2>5, <2>6, NamesAreDerived
  <2>8. PICK r : r = [q EXCEPT !.team = team, !.number = number, !.app = app, !.name = name]
    OBVIOUS
  <2>9. /\ r \in RequestRow /\ r.op = "create" /\ r.n = mailBegun + 1 /\ r.box = 0 /\ r.at = "call"
        /\ r.name = name /\ r.number = number /\ r.app = app
    BY <2>4, <2>6, <2>7, <2>8 DEF RequestRow
  <2>10. Start(r)
    BY <2>1, <2>3, <2>5, <2>8
  <2>11. QED
    BY <2>5, <2>9, <2>10, StartKeeps
<1>3. ASSUME NEW b \in Boxes, NEW op \in {"delete", "sync", "send"}, IsRow(b),
             Start(Request(op, b, "call"))
      PROVE  CatalogInv'
  <2>1. mailBegun < MaxMailCalls
    BY <1>3 DEF Start, CountedCall
  <2>2. PICK r : r = Request(op, b, "call")
    OBVIOUS
  <2>3. r \in RequestRow /\ r.op = op /\ r.n = mailBegun + 1 /\ r.box = b /\ r.at = "call"
    BY <1>1, <2>1, <2>2, RequestIs DEF Operations
  <2>4. b # 0 /\ Start(r)
    BY <1>3, <2>2, CatalogShapes
  <2>5. QED
    BY <1>3, <2>3, <2>4, StartKeeps
<1>4. ASSUME NEW b \in Boxes, update_mailbox(b) PROVE CatalogInv'
  <2>1. PICK fields \in (SUBSET {"number", "app", "team"}) \ {{}} :
        \E number \in Numbers \cup {NoName}, app \in Apps \cup {NoName}, team \in MailTeams \cup {NoTeam} :
          /\ IsRow(b)
          /\ LET new == effective(accounts[b], fields, number, app)
                 renames == fields \cap {"number", "app"} # {}
             IN  Start([Request("patch", b, IF renames THEN "call" ELSE "served") EXCEPT
                          !.fields = fields, !.team = team, !.old = accounts[b],
                          !.number = new.number, !.app = new.app,
                          !.name = build_display_name(new.number, new.app)])
    BY <1>4 DEF update_mailbox
  <2>2. PICK number \in Numbers \cup {NoName}, app \in Apps \cup {NoName}, team \in MailTeams \cup {NoTeam} :
          /\ IsRow(b)
          /\ LET new == effective(accounts[b], fields, number, app)
                 renames == fields \cap {"number", "app"} # {}
             IN  Start([Request("patch", b, IF renames THEN "call" ELSE "served") EXCEPT
                          !.fields = fields, !.team = team, !.old = accounts[b],
                          !.number = new.number, !.app = new.app,
                          !.name = build_display_name(new.number, new.app)])
    BY <2>1
  <2>3. PICK old : old = accounts[b]
    OBVIOUS
  <2>4. PICK x : x = IF "number" \in fields THEN number ELSE old.number
    OBVIOUS
  <2>5. PICK y : y = IF "app" \in fields THEN app ELSE old.app
    OBVIOUS
  <2>6. effective(old, fields, number, app).number = x /\ effective(old, fields, number, app).app = y
    BY <2>4, <2>5 DEF effective
  <2>7. PICK at : at = IF fields \cap {"number", "app"} # {} THEN "call" ELSE "served"
    OBVIOUS
  <2>8. PICK q : q = Request("patch", b, at)
    OBVIOUS
  <2>9. PICK name : name = build_display_name(x, y)
    OBVIOUS
  <2>10. PICK r : r = [q EXCEPT !.fields = fields, !.team = team, !.old = old, !.number = x, !.app = y,
                                !.name = name]
    OBVIOUS
  <2>11. Start(r)
    BY <2>2, <2>3, <2>6, <2>7, <2>8, <2>9, <2>10
  <2>12. old \in Account /\ IsRow(b) /\ b # 0
    BY <1>1, <2>2, <2>3, CatalogShapes DEF CatalogRows, IsRow
  <2>13. x \in MaybeNumber /\ y \in MaybeApp /\ team \in MaybeTeam /\ fields \in SUBSET Fields
    BY <2>4, <2>5, <2>12 DEF Account, MaybeNumber, MaybeApp, MaybeTeam, Fields
  <2>14. name \in Names
    BY <2>9, <2>13, NamesAreDerived
  <2>15. mailBegun < MaxMailCalls /\ at \in {"call", "served"}
    BY <2>7, <2>11 DEF Start, CountedCall
  <2>16. /\ q \in RequestRow /\ q.op = "patch" /\ q.n = mailBegun + 1 /\ q.box = b /\ q.at = at
         /\ q.verdict = "ok"
    BY <1>1, <2>8, <2>15, RequestIs DEF Operations
  <2>17. r \in RequestRow
    BY <2>10, <2>12, <2>13, <2>14, <2>16 DEF RequestRow
  <2>18. /\ r.op = "patch" /\ r.n = mailBegun + 1 /\ r.box = b /\ r.at = at /\ r.verdict = "ok"
         /\ r.fields = fields /\ r.old = old /\ r.number = x /\ r.app = y /\ r.name = name
    BY <2>10, <2>16 DEF RequestRow
  <2>19. IF fields = {"team"} THEN at = "served" ELSE at = "call"
    BY <2>7
  <2>20. fields = {"team"} => x = old.number /\ y = old.app
    BY <2>4, <2>5
  <2>21. r.old = accounts[r.box] /\ r.fields # {}
    BY <2>3, <2>18
  <2>22. QED
    BY <2>9, <2>11, <2>12, <2>17, <2>18, <2>19, <2>20, <2>21, StartKeeps
<1>5. QED
  BY <1>2, <1>3, <1>4 DEF delete_mailbox, sync_mailbox, compose

\* What serving a call does to the mailboxes of the aggregator.
LEMMA ServedIs ==
  ASSUME CatalogRows, NEW r \in RequestRow, CanServe(r), r.box = 0 <=> r.op = "create",
         r.box # 0 => boxes[r.box] # NoBox
  PROVE  /\ Target(r) \in Boxes
         /\ r.op = "create" => boxes[Target(r)] = NoBox /\ Verdict(r) = "ok"
         /\ r.op # "create" => Target(r) = r.box
         /\ Served(r) \in [Boxes -> BoxRow \cup {NoBox}]
         /\ \A a \in Boxes : a # Target(r) => Served(r)[a] = boxes[a]
         /\ Served(r)[Target(r)] # NoBox
         /\ Verdict(r) \in {"ok", "missing"}
         /\ Verdict(r) = "missing" => Served(r) = boxes /\ ~AliveAt(Target(r))
         /\ Verdict(r) = "ok" /\ r.op \in {"create", "patch"} =>
              Served(r)[Target(r)].state = "live" /\ Served(r)[Target(r)].name = r.name
         /\ Verdict(r) = "ok" /\ r.op \in {"delete", "cleanup"} => Served(r)[Target(r)].state = "gone"
         /\ r.op \in {"sync", "send"} => Served(r) = boxes
<1>1. PICK b : b = Target(r)
  OBVIOUS
<1>2. /\ b \in Boxes /\ (r.op = "create" => boxes[b] = NoBox)
      /\ (r.op # "create" => b = r.box /\ boxes[b] # NoBox)
  BY <1>1, NextBoxIsFresh DEF CanServe, Target, RequestRow
<1>3. Verdict(r) \in {"ok", "missing"} /\ (r.op = "create" => Verdict(r) = "ok")
      /\ (Verdict(r) = "missing" => ~AliveAt(b))
  BY <1>2 DEF Verdict
<1>4. boxes \in [Boxes -> BoxRow \cup {NoBox}]
  BY DEF CatalogRows
<1>5. CASE Verdict(r) = "missing"
  <2>1. Served(r) = boxes /\ r.op # "create"
    BY <1>3, <1>5 DEF Served
  <2>2. QED
    BY <1>1, <1>2, <1>3, <1>4, <1>5, <2>1
<1>6. CASE Verdict(r) = "ok" /\ r.op \in {"create", "patch"}
  <2>1. PICK row : row = [state |-> "live", name |-> r.name]
    OBVIOUS
  <2>2. row \in BoxRow /\ row.state = "live" /\ row.name = r.name /\ row # NoBox
    BY <2>1, CatalogShapes DEF BoxRow, RequestRow
  <2>3. Served(r) = [boxes EXCEPT ![b] = row]
    BY <1>1, <1>6, <2>1 DEF Served
  <2>4. QED
    BY <1>1, <1>2, <1>3, <1>4, <1>6, <2>2, <2>3
<1>7. CASE Verdict(r) = "ok" /\ r.op \in {"delete", "cleanup"}
  <2>1. b = r.box /\ boxes[b] \in BoxRow
    BY <1>2, <1>4, <1>7
  <2>2. PICK row : row = [boxes[b] EXCEPT !.state = "gone"]
    OBVIOUS
  <2>3. row \in BoxRow /\ row.state = "gone" /\ row # NoBox
    BY <2>1, <2>2, CatalogShapes DEF BoxRow
  <2>4. Served(r) = [boxes EXCEPT ![b] = row]
    BY <1>1, <1>2, <1>4, <1>7, <2>2 DEF Served
  <2>5. QED
    BY <1>1, <1>2, <1>3, <1>4, <1>7, <2>1, <2>3, <2>4
<1>8. CASE Verdict(r) = "ok" /\ r.op \in {"sync", "send"}
  <2>1. Served(r) = boxes /\ b = r.box
    BY <1>2, <1>8 DEF Served
  <2>2. QED
    BY <1>1, <1>2, <1>3, <1>4, <1>8, <2>1
<1>9. r.op \in Operations
  BY DEF RequestRow
<1>10. QED
  BY <1>3, <1>5, <1>6, <1>7, <1>8, <1>9 DEF Operations

\* The aggregator serves a call.
LEMMA ServeCallKeeps ==
  ASSUME CatalogInv, NEW c \in Busy, ServeCall(c)
  PROVE  CatalogInv'
<1>1. PICK r : r = calls[c]
  OBVIOUS
<1>2. PICK b : b = Target(r)
  OBVIOUS
<1>3. PICK verdict : verdict = Verdict(r)
  OBVIOUS
<1>4. /\ r.at = "call" /\ CanServe(r) /\ boxes' = Served(r) /\ letters' = Posted(r)
      /\ calls' = [calls EXCEPT ![c].at = "served", ![c].box = b, ![c].verdict = verdict]
      /\ UNCHANGED <<accounts, mailTeams, strays, consents, sentRows, mailBegun, doubtful, shared>>
  BY <1>1, <1>2, <1>3 DEF ServeCall
<1>5. CatalogRows /\ c \in Requested /\ r \in RequestRow /\ r.n = c
  BY <1>1 DEF CatalogInv, CatalogRows, Busy, CallsOK
<1>6. /\ r.box = 0 <=> r.op = "create"
      /\ r.box # 0 => r.box \in Boxes /\ boxes[r.box] # NoBox /\ WorkedOn(r.box)
  <2>1. r.box = 0 <=> r.op = "create"
    BY <1>1, <1>4 DEF CatalogInv, CallsOK
  <2>2. r.box # 0 => r.box \in Boxes /\ WorkedOn(r.box)
    BY <1>1, <1>5 DEF RequestRow, WorkedOn, Busy
  <2>3. QED
    BY <2>1, <2>2 DEF CatalogInv, FreshOK
<1>7. /\ b \in Boxes /\ (r.op = "create" => boxes[b] = NoBox /\ verdict = "ok")
      /\ (r.op # "create" => b = r.box)
      /\ boxes' \in [Boxes -> BoxRow \cup {NoBox}] /\ \A a \in Boxes : a # b => boxes'[a] = boxes[a]
      /\ boxes'[b] # NoBox /\ verdict \in {"ok", "missing"}
      /\ (verdict = "missing" => boxes' = boxes /\ ~AliveAt(b))
      /\ (verdict = "ok" /\ r.op \in {"create", "patch"} =>
            boxes'[b].state = "live" /\ boxes'[b].name = r.name)
      /\ (verdict = "ok" /\ r.op \in {"delete", "cleanup"} => boxes'[b].state = "gone")
      /\ (r.op \in {"sync", "send"} => boxes' = boxes)
  BY <1>2, <1>3, <1>4, <1>5, <1>6, ServedIs
<1>8. PICK q : q = [r EXCEPT !.at = "served", !.box = b, !.verdict = verdict]
  OBVIOUS
<1>9. /\ q \in RequestRow /\ q.at = "served" /\ q.box = b /\ q.verdict = verdict /\ q.op = r.op
      /\ q.n = r.n /\ q.fields = r.fields /\ q.old = r.old /\ q.number = r.number /\ q.app = r.app
      /\ q.name = r.name /\ q # Free
  BY <1>5, <1>7, <1>8, CatalogShapes DEF RequestRow
<1>10. calls' = [calls EXCEPT ![c] = q]
  BY <1>1, <1>4, <1>5, <1>8 DEF CatalogRows
<1>11. /\ calls' \in [Requested -> RequestRow \cup {Free}] /\ Busy' = Busy /\ calls'[c] = q
       /\ \A d \in Busy : d # c => calls'[d] = calls[d]
  BY <1>5, <1>9, <1>10 DEF CatalogRows, Busy
<1>12. letters' \in [Requested -> {0, 1}] /\ (\A n \in Requested : n # c => letters'[n] = letters[n])
       /\ letters'[c] = IF r.op = "send" /\ verdict = "ok" THEN 1 ELSE letters[c]
  <2>1. r.op = "send" => letters[c] = 0
    BY <1>1, <1>4 DEF CatalogInv, LettersOK
  <2>2. letters \in [Requested -> {0, 1}]
    BY <1>5 DEF CatalogRows
  <2>3. QED
    BY <1>3, <1>4, <1>5, <2>1, <2>2 DEF Posted
<1>13. CatalogRows'
  BY <1>4, <1>5, <1>7, <1>11, <1>12 DEF CatalogRows, IsRow
<1>14. CallsOK'
  <2>1. ASSUME NEW d \in Busy
        PROVE  /\ calls'[d].n = d /\ d <= mailBegun
               /\ calls'[d].box = 0 <=> calls'[d].op = "create" /\ calls'[d].at = "call"
               /\ calls'[d].op = "create" /\ calls'[d].at = "served" => calls'[d].verdict = "ok"
    <3>1. CASE d = c
      BY <1>5, <1>7, <1>9, <1>11, <3>1, CatalogShapes DEF CatalogInv, CallsOK
    <3>2. CASE d # c
      BY <1>11, <3>2 DEF CatalogInv, CallsOK
    <3>3. QED
      BY <3>1, <3>2
  <2>2. ASSUME NEW s \in strays
        PROVE  /\ s.at = "call" /\ s.n <= mailBegun' /\ s.n \notin Busy'
               /\ s.box = 0 <=> s.op = "create"
               /\ s.box # 0 => s.box \in doubtful'
    BY <1>4, <1>11 DEF CatalogInv, CallsOK
  <2>3. \A g \in consents : g.n <= mailBegun'
    BY <1>4 DEF CatalogInv, CallsOK
  <2>4. \A d \in Busy : d <= mailBegun'
    BY <1>4, <2>1
  <2>5. Busy' = Busy /\ strays' = strays /\ consents' = consents
    BY <1>4, <1>11
  <2>6. QED
    BY <2>1, <2>2, <2>3, <2>4, <2>5 DEF CallsOK
<1>15. ASSUME NEW a \in Boxes, a # b PROVE WorkedOn(a)' <=> WorkedOn(a)
  <2>1. (\E d \in Requested : calls'[d] # Free /\ calls'[d].box = a)
          <=> (\E d \in Busy : calls'[d].box = a)
    BY <1>11 DEF Busy
  <2>2. (\E d \in Requested : calls[d] # Free /\ calls[d].box = a)
          <=> (\E d \in Busy : calls[d].box = a)
    BY DEF Busy
  <2>3. r.box # a
    BY <1>6, <1>7, <1>15, CatalogShapes
  <2>4. (\E d \in Busy : calls'[d].box = a) <=> (\E d \in Busy : calls[d].box = a)
    BY <1>1, <1>9, <1>11, <1>15, <2>3
  <2>5. QED
    BY <1>4, <2>1, <2>2, <2>4 DEF WorkedOn
<1>16. FreshOK'
  BY <1>4, <1>7, <1>15 DEF CatalogInv, FreshOK, IsRow
<1>17. ASSUME r.op = "create"
       PROVE  /\ ~IsRow(b) /\ ~WorkedOn(b) /\ \A d \in Busy : calls[d].box # b
              /\ \A g \in consents : g.box # b
  <2>1. ~IsRow(b) /\ ~WorkedOn(b)
    BY <1>7, <1>17 DEF CatalogInv, FreshOK
  <2>2. QED
    BY <2>1 DEF WorkedOn, Busy
<1>18. LoneOK'
  <2>1. ASSUME NEW a \in Boxes \ shared
        PROVE  /\ \A d, e \in Busy : calls'[d].box = a /\ calls'[e].box = a => d = e
               /\ \A d \in Busy, g \in consents : ~(calls'[d].box = a /\ g.box = a)
    <3>1. /\ \A d, e \in Busy : calls[d].box = a /\ calls[e].box = a => d = e
          /\ \A d \in Busy, g \in consents : ~(calls[d].box = a /\ g.box = a)
      BY DEF CatalogInv, LoneOK
    <3>2. CASE r.op = "create"
      BY <1>9, <1>11, <1>17, <3>1, <3>2
    <3>3. CASE r.op # "create"
      <4>1. \A d \in Busy : calls'[d].box = calls[d].box
        BY <1>1, <1>7, <1>9, <1>11, <3>3
      <4>2. QED
        BY <3>1, <4>1
    <3>4. QED
      BY <3>2, <3>3
  <2>2. QED
    BY <1>4, <1>11, <2>1 DEF CatalogInv, LoneOK
<1>19. PatchOK'
  <2>1. SUFFICES ASSUME NEW d \in Busy PROVE PatchRow(calls[d])'
    BY <1>11 DEF PatchOK
  <2>2. PatchRow(calls[d])
    BY DEF CatalogInv, PatchOK
  <2>3. CASE d = c
    <3>1. PatchRow(r) /\ calls'[d] = q /\ r.at # "served"
      BY <1>1, <1>4, <1>11, <2>2, <2>3
    <3>2. r.op = "patch" => b = r.box
      BY <1>7
    <3>3. PatchRow(q)'
      BY <1>4, <1>9, <3>1, <3>2 DEF PatchRow, IsRow
    <3>4. QED
      BY <3>1, <3>3 DEF PatchRow, IsRow
  <2>4. CASE d # c
    <3>1. PICK x : x = calls[d]
      OBVIOUS
    <3>2. PatchRow(x)' /\ calls'[d] = x
      BY <1>4, <1>11, <2>2, <2>4, <3>1 DEF PatchRow, IsRow
    <3>3. QED
      BY <3>2 DEF PatchRow, IsRow
  <2>5. QED
    BY <2>3, <2>4
<1>20. HalfwayOK'
  <2>1. SUFFICES ASSUME NEW a \in Boxes \ (doubtful \cup shared)
                 PROVE  /\ ~WorkedOn(a)' => Follows(a)'
                        /\ \A d \in Busy : calls'[d].box = a => Halfway(calls[d])'
                        /\ \A g \in consents : g.box = a =>
                             AliveAt(a)' /\ (IsRow(a)' => accounts'[a].name = boxes'[a].name)
    BY <1>4, <1>11 DEF HalfwayOK
  <2>2. /\ ~WorkedOn(a) => Follows(a)
        /\ \A d \in Busy : calls[d].box = a => Halfway(calls[d])
        /\ \A g \in consents : g.box = a =>
             AliveAt(a) /\ (IsRow(a) => accounts[a].name = boxes[a].name)
    BY DEF CatalogInv, HalfwayOK
  <2>3. CASE a # b
    <3>1. /\ Follows(a)' <=> Follows(a)
          /\ AliveAt(a)' <=> AliveAt(a)
          /\ IsRow(a)' <=> IsRow(a)
          /\ boxes'[a] = boxes[a]
      BY <1>4, <1>7, <2>3 DEF Follows, IsRow, AliveAt
    <3>2. ASSUME NEW d \in Busy, calls'[d].box = a PROVE Halfway(calls[d])'
      <4>1. d # c /\ calls'[d] = calls[d] /\ Halfway(calls[d])
        BY <1>9, <1>11, <2>2, <2>3, <3>2
      <4>2. PICK x : x = calls[d]
        OBVIOUS
      <4>3. Halfway(x) /\ calls'[d] = x /\ x.box = a
        BY <3>2, <4>1, <4>2
      <4>4. Halfway(x)'
        BY <1>4, <1>7, <2>3, <4>3 DEF Halfway, Follows, IsRow, AliveAt
      <4>5. QED
        BY <4>3, <4>4 DEF Halfway, Follows, IsRow, AliveAt
    <3>3. QED
      BY <1>4, <1>15, <2>2, <2>3, <3>1, <3>2
  <2>4. CASE a = b
    <3>1. WorkedOn(a)'
      BY <1>5, <1>9, <1>11, <2>4 DEF WorkedOn
    <3> /\ \A d, e \in Busy : calls'[d].box = a /\ calls'[e].box = a => d = e
        /\ \A d \in Busy, g \in consents : ~(calls'[d].box = a /\ g.box = a)
      BY <1>4, <1>11, <1>18 DEF LoneOK
    <3>2. ASSUME NEW d \in Busy, calls'[d].box = a PROVE d = c
      BY <1>9, <1>11, <2>4, <3>2
    <3>3. ASSUME NEW g \in consents, g.box = a PROVE FALSE
      BY <1>9, <1>11, <2>4, <3>3
    <3>4. Halfway(q)'
      <4>1. CASE r.op = "create"
        BY <1>4, <1>7, <1>9, <1>17, <4>1 DEF Halfway, IsRow, AliveAt
      <4>2. CASE r.op # "create"
        <5>1. Halfway(r) /\ r.box = b /\ IsRow(b)' = IsRow(b) /\ accounts' = accounts
          BY <1>1, <1>4, <1>7, <2>2, <2>4, <4>2 DEF IsRow
        <5>2. CASE r.op = "cleanup"
          <6>1. AliveAt(b) /\ ~IsRow(b)
            BY <1>4, <5>1, <5>2 DEF Halfway
          <6>2. verdict = "ok" /\ boxes'[b].state = "gone"
            BY <1>7, <5>2, <6>1
          <6>3. Follows(b)'
            BY <5>1, <6>1, <6>2 DEF Follows, AliveAt
          <6>4. QED
            BY <1>9, <5>2, <6>3 DEF Halfway
        <5>3. CASE r.op \in {"sync", "send"}
          <6>1. Follows(b) /\ boxes' = boxes
            BY <1>7, <5>1, <5>3 DEF Halfway
          <6>2. Follows(b)'
            BY <1>4, <6>1 DEF Follows, IsRow, AliveAt
          <6>3. QED
            BY <1>9, <5>3, <6>2 DEF Halfway
        <5>4. CASE r.op = "delete"
          <6>1. ~AliveAt(b)'
            BY <1>7, <5>4 DEF AliveAt
          <6>2. QED
            BY <1>9, <5>4, <6>1 DEF Halfway
        <5>5. CASE r.op = "patch"
          <6>1. /\ r.fields # {"team"} /\ Follows(b) /\ IsRow(b)
            BY <1>1, <1>4, <1>7, <2>1, <2>4, <5>1, <5>5 DEF CatalogInv, PatchOK, PatchRow, Halfway
          <6>2. CASE verdict = "ok"
            <7>1. AliveAt(b)' /\ boxes'[b].name = r.name
              BY <1>7, <5>5, <6>2 DEF AliveAt
            <7>2. QED
              BY <1>9, <5>1, <5>5, <6>1, <6>2, <7>1 DEF Halfway
          <6>3. CASE verdict = "missing"
            <7>1. Follows(b)'
              BY <1>4, <1>7, <6>1, <6>3 DEF Follows, IsRow, AliveAt
            <7>2. QED
              BY <1>9, <5>5, <6>3, <7>1 DEF Halfway
          <6>4. QED
            BY <1>7, <6>2, <6>3
        <5>6. r.op \in Operations
          BY <1>5 DEF RequestRow
        <5>7. QED
          BY <4>2, <5>2, <5>3, <5>4, <5>5, <5>6 DEF Operations
      <4>3. QED
        BY <4>1, <4>2
    <3>5. ASSUME NEW d \in Busy, calls'[d].box = a PROVE Halfway(calls[d])'
      <4>1. calls'[d] = q
        BY <1>11, <3>2, <3>5
      <4>2. QED
        BY <3>4, <4>1 DEF Halfway, Follows, IsRow, AliveAt
    <3>6. QED
      BY <3>1, <3>3, <3>5
  <2>5. QED
    BY <2>3, <2>4
<1>21. LettersOK'
  <2>1. ASSUME NEW d \in Busy
        PROVE  /\ calls'[d].op = "send" /\ calls'[d].at = "call" => letters'[d] = 0
               /\ calls'[d].op = "send" /\ calls'[d].at = "served" /\ calls'[d].verdict = "ok"
                    => letters'[d] = 1
    <3>1. CASE d = c
      BY <1>9, <1>11, <1>12, <3>1
    <3>2. CASE d # c
      <4>1. d \in Requested /\ calls'[d] = calls[d] /\ letters'[d] = letters[d]
        BY <1>11, <1>12, <3>2 DEF Busy
      <4>2. QED
        BY <4>1 DEF CatalogInv, LettersOK
    <3>3. QED
      BY <3>1, <3>2
  <2>2. \A s \in strays : s.n \in Requested /\ s.n # c
    BY <1>5 DEF CatalogInv, CallsOK, CatalogRows, RequestRow
  <2>3. c <= mailBegun /\ c \in Nat /\ mailBegun \in Nat
    BY <1>5, CatalogShapes, MailCatalogAssumption DEF CatalogInv, CallsOK, CatalogRows
  <2>4. \A n \in Requested : n > mailBegun => letters'[n] = 0
    BY <1>12, <2>3 DEF CatalogInv, LettersOK
  <2>5. \A s \in sentRows : IsRow(s.box)' /\ letters'[s.n] = 1
    <3>1. \A s \in sentRows : s.n \in Requested /\ IsRow(s.box) /\ letters[s.n] = 1
      BY <1>5 DEF CatalogInv, LettersOK, CatalogRows, MailSentMessage
    <3>2. QED
      BY <1>4, <1>12, <3>1 DEF IsRow
  <2>6. \A s \in strays : s.op = "send" => letters'[s.n] = 0
    BY <1>12, <2>2 DEF CatalogInv, LettersOK
  <2>7. \A s, t \in strays : s.n = t.n => s = t
    BY DEF CatalogInv, LettersOK
  <2>8. QED
    BY <1>4, <1>11, <2>1, <2>4, <2>5, <2>6, <2>7 DEF LettersOK
<1>22. NameIsDerived'
  BY <1>4 DEF CatalogInv, NameIsDerived, IsRow
<1>23. QED
  BY <1>13, <1>14, <1>16, <1>18, <1>19, <1>20, <1>21, <1>22 DEF CatalogInv

\* The aggregator serves a call that was given up: its mailbox is one of doubt.
LEMMA ServeStrayKeeps ==
  ASSUME CatalogInv, NEW r \in strays, ServeStray(r)
  PROVE  CatalogInv'
<1>1. PICK b : b = Target(r)
  OBVIOUS
<1>2. /\ CanServe(r) /\ boxes' = Served(r) /\ letters' = Posted(r)
      /\ strays' = strays \ {r} /\ doubtful' = doubtful \cup {b}
      /\ UNCHANGED <<accounts, mailTeams, calls, consents, sentRows, mailBegun, shared>>
  BY <1>1 DEF ServeStray
<1>3. CatalogRows /\ r \in RequestRow /\ r.n \in Requested /\ r.n \notin Busy
  BY DEF CatalogInv, CatalogRows, CallsOK, RequestRow
<1>4. /\ r.box = 0 <=> r.op = "create"
      /\ r.box # 0 => boxes[r.box] # NoBox
  <2>1. r.box # 0 => r.box \in Boxes /\ WorkedOn(r.box)
    BY <1>3 DEF RequestRow, WorkedOn
  <2>2. QED
    BY <2>1 DEF CatalogInv, CallsOK, FreshOK
<1>5. /\ b \in Boxes /\ boxes' \in [Boxes -> BoxRow \cup {NoBox}] /\ boxes'[b] # NoBox
      /\ \A a \in Boxes : a # b => boxes'[a] = boxes[a]
  BY <1>1, <1>2, <1>3, <1>4, ServedIs
<1>6. letters' \in [Requested -> {0, 1}] /\ (\A n \in Requested : n # r.n => letters'[n] = letters[n])
      /\ (letters[r.n] = 1 => letters'[r.n] = 1)
  <2>1. r.op = "send" => letters[r.n] = 0
    BY DEF CatalogInv, LettersOK
  <2>2. letters \in [Requested -> {0, 1}]
    BY <1>3 DEF CatalogRows
  <2>3. QED
    BY <1>2, <1>3, <2>1, <2>2 DEF Posted
<1>7. Busy' = Busy /\ calls' = calls
  BY <1>2 DEF Busy
<1>8. CatalogRows'
  BY <1>2, <1>3, <1>5, <1>6 DEF CatalogRows, IsRow
<1>9. CallsOK'
  BY <1>2, <1>7 DEF CatalogInv, CallsOK
<1>10. ASSUME NEW a \in Boxes, a # b PROVE WorkedOn(a)' <=> WorkedOn(a)
  <2>1. r.box # a
    <3>1. r.box = 0 \/ r.box = b
      BY <1>1, <1>2, <1>3, <1>4, ServedIs
    <3>2. QED
      BY <1>10, <3>1, CatalogShapes
  <2>2. (\E s \in strays' : s.box = a) <=> (\E s \in strays : s.box = a)
    BY <1>2, <2>1
  <2>3. QED
    BY <1>2, <1>7, <2>2 DEF WorkedOn
<1>11. FreshOK'
  BY <1>2, <1>5, <1>10 DEF CatalogInv, FreshOK, IsRow
<1>12. LoneOK'
  BY <1>2, <1>7 DEF CatalogInv, LoneOK
<1>13. PatchOK'
  <2>1. SUFFICES ASSUME NEW d \in Busy PROVE PatchRow(calls[d])'
    BY <1>7 DEF PatchOK
  <2>2. PICK x : x = calls[d]
    OBVIOUS
  <2>3. PatchRow(x)' /\ calls'[d] = x
    BY <1>2, <2>2 DEF CatalogInv, PatchOK, PatchRow, IsRow
  <2>4. QED
    BY <2>3 DEF PatchRow, IsRow
<1>14. HalfwayOK'
  <2>1. SUFFICES ASSUME NEW a \in Boxes \ (doubtful' \cup shared')
                 PROVE  /\ ~WorkedOn(a)' => Follows(a)'
                        /\ \A d \in Busy : calls'[d].box = a => Halfway(calls[d])'
                        /\ \A g \in consents : g.box = a =>
                             AliveAt(a)' /\ (IsRow(a)' => accounts'[a].name = boxes'[a].name)
    BY <1>2, <1>7 DEF HalfwayOK
  <2>2. a \in Boxes \ (doubtful \cup shared) /\ a # b
    BY <1>2
  <2>3. /\ ~WorkedOn(a) => Follows(a)
        /\ \A d \in Busy : calls[d].box = a => Halfway(calls[d])
        /\ \A g \in consents : g.box = a =>
             AliveAt(a) /\ (IsRow(a) => accounts[a].name = boxes[a].name)
    BY <2>2 DEF CatalogInv, HalfwayOK
  <2>4. /\ Follows(a)' <=> Follows(a)
        /\ AliveAt(a)' <=> AliveAt(a)
        /\ IsRow(a)' <=> IsRow(a)
        /\ boxes'[a] = boxes[a]
    BY <1>2, <1>5, <2>2 DEF Follows, IsRow, AliveAt
  <2>5. ASSUME NEW d \in Busy, calls'[d].box = a PROVE Halfway(calls[d])'
    <3>1. PICK x : x = calls[d]
      OBVIOUS
    <3>2. Halfway(x) /\ calls'[d] = x /\ x.box = a
      BY <1>7, <2>3, <2>5, <3>1
    <3>3. Halfway(x)'
      BY <1>2, <1>5, <2>2, <3>2 DEF Halfway, Follows, IsRow, AliveAt
    <3>4. QED
      BY <3>2, <3>3 DEF Halfway, Follows, IsRow, AliveAt
  <2>6. QED
    BY <1>2, <1>10, <2>2, <2>3, <2>4, <2>5
<1>15. LettersOK'
  <2>1. \A c \in Busy : c \in Requested /\ c # r.n
    BY <1>3 DEF Busy
  <2>2. \A s \in strays' : s \in strays /\ s.n \in Requested /\ s.n # r.n
    BY <1>2 DEF CatalogInv, CatalogRows, RequestRow, LettersOK
  <2>3. \A c \in Busy : /\ calls[c].op = "send" /\ calls[c].at = "call" => letters'[c] = 0
                        /\ calls[c].op = "send" /\ calls[c].at = "served" /\ calls[c].verdict = "ok"
                             => letters'[c] = 1
    BY <1>6, <2>1 DEF CatalogInv, LettersOK
  <2>4. \A s \in strays' : s.op = "send" => letters'[s.n] = 0
    BY <1>6, <2>2 DEF CatalogInv, LettersOK
  <2>5. \A s, t \in strays' : s.n = t.n => s = t
    BY <2>2 DEF CatalogInv, LettersOK
  <2>6. \A n \in Requested : n > mailBegun => letters'[n] = 0
    <3>1. r.n <= mailBegun /\ r.n \in Nat /\ mailBegun \in Nat
      BY <1>3, CatalogShapes, MailCatalogAssumption DEF CatalogInv, CallsOK, CatalogRows
    <3>2. QED
      BY <1>6, <3>1 DEF CatalogInv, LettersOK
  <2>7. \A s \in sentRows : IsRow(s.box)' /\ letters'[s.n] = 1
    <3>1. \A s \in sentRows : s.n \in Requested /\ IsRow(s.box) /\ letters[s.n] = 1
      BY <1>3 DEF CatalogInv, LettersOK, CatalogRows, MailSentMessage
    <3>2. QED
      BY <1>2, <1>6, <3>1 DEF IsRow
  <2>8. QED
    BY <1>2, <1>7, <2>3, <2>4, <2>5, <2>6, <2>7 DEF LettersOK
<1>16. NameIsDerived'
  BY <1>2 DEF CatalogInv, NameIsDerived, IsRow
<1>17. QED
  BY <1>8, <1>9, <1>11, <1>12, <1>13, <1>14, <1>15, <1>16 DEF CatalogInv

\* A call ends.  What it leaves of its mailbox agrees with the aggregator, or is in
\* doubt; a call given up on its way may still be served.
LEMMA EndCallKeeps ==
  ASSUME CatalogInv, NEW c \in Busy, NEW b, b = calls[c].box, calls' = [calls EXCEPT ![c] = Free],
         UNCHANGED <<boxes, mailTeams, consents, letters, mailBegun, shared>>,
         strays' = strays \/ (calls[c].at = "call" /\ strays' = strays \cup {calls[c]}
                              /\ (b # 0 => b \in doubtful')),
         doubtful \subseteq doubtful', doubtful' \subseteq Boxes,
         accounts' \in [Boxes -> Account \cup {NoBox}],
         \A a \in Boxes : a # b => accounts'[a] = accounts[a],
         \A a \in Boxes : IsRow(a)' => accounts'[a].team \in mailTeams \cup {NoTeam},
         sentRows' \subseteq MailSentMessage, \A s \in sentRows' : IsRow(s.box)' /\ letters[s.n] = 1,
         b \in Boxes \ (doubtful' \cup shared) => Follows(b)',
         b \in Boxes \ shared /\ IsRow(b)' =>
           accounts'[b].name = build_display_name(accounts'[b].number, accounts'[b].app)
  PROVE  CatalogInv'
<1>1. PICK r : r = calls[c]
  OBVIOUS
<1>2. CatalogRows /\ c \in Requested /\ r \in RequestRow /\ r.n = c /\ r.box \in Boxes \cup {0}
  BY <1>1 DEF CatalogInv, CatalogRows, Busy, CallsOK, RequestRow
<1>3. /\ calls' \in [Requested -> RequestRow \cup {Free}] /\ Busy' = Busy \ {c}
      /\ \A d \in Busy' : calls'[d] = calls[d] /\ d \in Busy
  BY <1>2 DEF CatalogRows, Busy
<1>4. strays' = strays \/ (r.at = "call" /\ strays' = strays \cup {r} /\ (r.box # 0 => r.box \in doubtful'))
  BY <1>1
<1>5. CatalogRows'
  BY <1>2, <1>3, <1>4 DEF CatalogRows
<1>6. CallsOK'
  <2>1. ASSUME NEW s \in strays'
        PROVE  /\ s.at = "call" /\ s.n <= mailBegun' /\ s.n \notin Busy'
               /\ s.box = 0 <=> s.op = "create"
               /\ s.box # 0 => s.box \in doubtful'
    <3>1. CASE s \in strays
      BY <1>3, <3>1 DEF CatalogInv, CallsOK
    <3>2. CASE s \notin strays
      <4>1. s = r /\ r.at = "call" /\ (r.box # 0 => r.box \in doubtful')
        BY <1>4, <2>1, <3>2
      <4>2. /\ r.box = 0 <=> r.op = "create" /\ r.at = "call"
            /\ c <= mailBegun
        BY <1>1 DEF CatalogInv, CallsOK
      <4>3. QED
        BY <1>2, <1>3, <4>1, <4>2
    <3>3. QED
      BY <3>1, <3>2
  <2>2. ASSUME NEW d \in Busy'
        PROVE  /\ calls'[d].n = d /\ d <= mailBegun'
               /\ calls'[d].box = 0 <=> calls'[d].op = "create" /\ calls'[d].at = "call"
               /\ calls'[d].op = "create" /\ calls'[d].at = "served" => calls'[d].verdict = "ok"
    BY <1>3, <2>2 DEF CatalogInv, CallsOK
  <2>3. \A g \in consents' : g.n <= mailBegun'
    BY DEF CatalogInv, CallsOK
  <2>4. QED
    BY <2>1, <2>2, <2>3 DEF CallsOK
<1>7. ASSUME NEW a \in Boxes, a # r.box PROVE WorkedOn(a)' <=> WorkedOn(a)
  <2>1. (\E d \in Requested : calls'[d] # Free /\ calls'[d].box = a)
          <=> (\E d \in Busy' : calls'[d].box = a)
    BY DEF Busy
  <2>2. (\E d \in Requested : calls[d] # Free /\ calls[d].box = a)
          <=> (\E d \in Busy : calls[d].box = a)
    BY DEF Busy
  <2>3. (\E d \in Busy' : calls'[d].box = a) <=> (\E d \in Busy : calls[d].box = a)
    BY <1>1, <1>3, <1>7
  <2>4. (\E s \in strays' : s.box = a) <=> (\E s \in strays : s.box = a)
    BY <1>4, <1>7
  <2>5. QED
    BY <2>1, <2>2, <2>3, <2>4 DEF WorkedOn
<1>8. r.box # 0 => boxes[r.box] # NoBox
  <2>1. r.box # 0 => r.box \in Boxes /\ WorkedOn(r.box)
    BY <1>1, <1>2 DEF WorkedOn, Busy
  <2>2. QED
    BY <2>1 DEF CatalogInv, FreshOK
<1>9. FreshOK'
  <2>1. SUFFICES ASSUME NEW a \in Boxes, boxes[a] = NoBox PROVE ~IsRow(a)' /\ ~WorkedOn(a)'
    BY DEF FreshOK
  <2>2. a # r.box /\ ~IsRow(a) /\ ~WorkedOn(a)
    BY <1>8, <2>1, CatalogShapes DEF CatalogInv, FreshOK
  <2>3. QED
    BY <1>1, <1>7, <2>2 DEF IsRow
<1>10. LoneOK'
  <2>1. ASSUME NEW a \in Boxes \ shared
        PROVE  /\ \A d, e \in Busy' : calls'[d].box = a /\ calls'[e].box = a => d = e
               /\ \A g, h \in consents : g.box = a /\ h.box = a => g = h
               /\ \A d \in Busy', g \in consents : ~(calls'[d].box = a /\ g.box = a)
    BY <1>3 DEF CatalogInv, LoneOK
  <2>2. QED
    BY <2>1 DEF LoneOK
<1>11. PatchOK'
  <2>1. SUFFICES ASSUME NEW d \in Busy' PROVE PatchRow(calls[d])'
    BY DEF PatchOK
  <2>2. PICK x : x = calls[d]
    OBVIOUS
  <2>3. PatchRow(x) /\ calls'[d] = x /\ d \in Busy /\ d # c /\ x \in RequestRow
    BY <1>2, <1>3, <2>2 DEF CatalogInv, PatchOK, CatalogRows, Busy
  <2>4. x.op = "patch" /\ x.box \notin shared => x.box \in Boxes /\ x.box # r.box
    <3>1. x.op = "patch" => x.box \in Boxes
      BY <2>2, <2>3 DEF CatalogInv, CallsOK, RequestRow
    <3>2. QED
      BY <1>1, <2>2, <2>3, <3>1 DEF CatalogInv, LoneOK
  <2>5. PatchRow(x)'
    BY <1>1, <2>3, <2>4 DEF PatchRow, IsRow
  <2>6. QED
    BY <2>3, <2>5 DEF PatchRow, IsRow
<1>12. HalfwayOK'
  <2>1. SUFFICES ASSUME NEW a \in Boxes \ (doubtful' \cup shared)
                 PROVE  /\ ~WorkedOn(a)' => Follows(a)'
                        /\ \A d \in Busy' : calls'[d].box = a => Halfway(calls[d])'
                        /\ \A g \in consents : g.box = a =>
                             AliveAt(a)' /\ (IsRow(a)' => accounts'[a].name = boxes'[a].name)
    BY DEF HalfwayOK
  <2>2. a \in Boxes \ (doubtful \cup shared)
    OBVIOUS
  <2>3. /\ ~WorkedOn(a) => Follows(a)
        /\ \A d \in Busy : calls[d].box = a => Halfway(calls[d])
        /\ \A g \in consents : g.box = a =>
             AliveAt(a) /\ (IsRow(a) => accounts[a].name = boxes[a].name)
    BY <2>2 DEF CatalogInv, HalfwayOK
  <2>4. CASE a = r.box
    <3>1. Follows(a)'
      BY <1>1, <2>4
    <3>2. \A d \in Busy' : calls'[d].box # a
      BY <1>1, <1>3, <2>2, <2>4 DEF CatalogInv, LoneOK
    <3>3. \A g \in consents : g.box # a
      BY <1>1, <2>2, <2>4 DEF CatalogInv, LoneOK
    <3>4. QED
      BY <3>1, <3>2, <3>3
  <2>5. CASE a # r.box
    <3>1. /\ Follows(a)' <=> Follows(a)
          /\ AliveAt(a)' <=> AliveAt(a)
          /\ IsRow(a)' <=> IsRow(a)
          /\ accounts'[a] = accounts[a]
      BY <1>1, <2>5 DEF Follows, IsRow, AliveAt
    <3>2. ASSUME NEW d \in Busy', calls'[d].box = a PROVE Halfway(calls[d])'
      <4>1. PICK x : x = calls[d]
        OBVIOUS
      <4>2. Halfway(x) /\ calls'[d] = x /\ x.box = a
        BY <1>3, <2>3, <3>2, <4>1
      <4>3. Halfway(x)'
        BY <1>1, <2>5, <3>1, <4>2 DEF Halfway, Follows, IsRow, AliveAt
      <4>4. QED
        BY <4>2, <4>3 DEF Halfway, Follows, IsRow, AliveAt
    <3>3. QED
      BY <1>7, <2>3, <2>5, <3>1, <3>2
  <2>6. QED
    BY <2>4, <2>5
<1>13. LettersOK'
  <2>1. ASSUME NEW s \in strays' PROVE /\ s.op = "send" => letters[s.n] = 0
                                       /\ \A t \in strays' : s.n = t.n => s = t
    <3>1. \A t \in strays : t.n # c
      BY DEF CatalogInv, CallsOK
    <3>2. r.op = "send" /\ r.at = "call" => letters[c] = 0
      BY <1>1 DEF CatalogInv, LettersOK
    <3>3. QED
      BY <1>2, <1>4, <2>1, <3>1, <3>2 DEF CatalogInv, LettersOK
  <2>2. ASSUME NEW d \in Busy'
        PROVE  /\ calls'[d].op = "send" /\ calls'[d].at = "call" => letters'[d] = 0
               /\ calls'[d].op = "send" /\ calls'[d].at = "served" /\ calls'[d].verdict = "ok"
                    => letters'[d] = 1
    BY <1>3, <2>2 DEF CatalogInv, LettersOK
  <2>3. \A n \in Requested : n > mailBegun' => letters'[n] = 0
    BY DEF CatalogInv, LettersOK
  <2>4. QED
    BY <2>1, <2>2, <2>3 DEF LettersOK
<1>14. NameIsDerived'
  <2>1. SUFFICES ASSUME NEW a \in Boxes \ shared, IsRow(a)'
                 PROVE  accounts'[a].name = build_display_name(accounts'[a].number, accounts'[a].app)
    BY DEF NameIsDerived
  <2>2. CASE a = b
    BY <2>1, <2>2
  <2>3. CASE a # b
    BY <2>1, <2>3 DEF CatalogInv, NameIsDerived, IsRow
  <2>4. QED
    BY <2>2, <2>3
<1>15. QED
  BY <1>5, <1>6, <1>9, <1>10, <1>11, <1>12, <1>13, <1>14 DEF CatalogInv

\* A call that never left is tried again.
LEMMA RetryKeeps ==
  ASSUME CatalogInv, NEW c \in Busy, calls[c].at = "call",
         calls' = [calls EXCEPT ![c].at = "call", ![c].tries = @ + 1],
         UNCHANGED <<boxes, accounts, mailTeams, strays, consents, letters, sentRows, mailBegun,
                     doubtful, shared>>
  PROVE  CatalogInv'
<1>1. PICK r : r = calls[c]
  OBVIOUS
<1>2. CatalogRows /\ c \in Requested /\ r \in RequestRow
  BY <1>1 DEF CatalogInv, CatalogRows, Busy
<1>3. PICK q : q = [r EXCEPT !.at = "call", !.tries = r.tries + 1]
  OBVIOUS
<1> PICK tries \in Nat : tries = r.tries + 1
  BY <1>2 DEF RequestRow
<1> q = [r EXCEPT !.at = "call", !.tries = tries]
  BY <1>3
<1>4. /\ q \in RequestRow /\ q.at = r.at /\ q.op = r.op /\ q.n = r.n /\ q.box = r.box
      /\ q.verdict = r.verdict /\ q.fields = r.fields /\ q.number = r.number /\ q.app = r.app
      /\ q.name = r.name /\ q.old = r.old /\ q # Free
  BY <1>1, <1>2, <1>3, CatalogShapes DEF RequestRow
<1>5. /\ calls' \in [Requested -> RequestRow \cup {Free}] /\ calls'[c] = q
      /\ \A d \in Busy : d # c => calls'[d] = calls[d]
      /\ Busy' = Busy
  BY <1>1, <1>2, <1>3, <1>4 DEF CatalogRows, Busy
<1>6. \A d \in Busy : /\ calls'[d].n = calls[d].n /\ calls'[d].box = calls[d].box
                      /\ calls'[d].op = calls[d].op /\ calls'[d].at = calls[d].at
                      /\ calls'[d].verdict = calls[d].verdict
  BY <1>1, <1>4, <1>5
<1>7. CatalogRows'
  BY <1>2, <1>5 DEF CatalogRows, IsRow
<1>8. CallsOK'
  <2>1. ASSUME NEW d \in Busy
        PROVE  /\ calls'[d].n = d /\ d <= mailBegun
               /\ calls'[d].box = 0 <=> calls'[d].op = "create" /\ calls'[d].at = "call"
               /\ calls'[d].op = "create" /\ calls'[d].at = "served" => calls'[d].verdict = "ok"
    <3>1. /\ calls[d].n = d /\ d <= mailBegun
          /\ calls[d].box = 0 <=> calls[d].op = "create" /\ calls[d].at = "call"
          /\ calls[d].op = "create" /\ calls[d].at = "served" => calls[d].verdict = "ok"
      BY DEF CatalogInv, CallsOK
    <3>2. QED
      BY <1>6, <3>1
  <2>2. ASSUME NEW s \in strays
        PROVE  /\ s.at = "call" /\ s.n <= mailBegun /\ s.n \notin Busy
               /\ s.box = 0 <=> s.op = "create"
               /\ s.box # 0 => s.box \in doubtful
    BY DEF CatalogInv, CallsOK
  <2>3. \A g \in consents : g.n <= mailBegun
    BY DEF CatalogInv, CallsOK
  <2>4. QED
    BY <1>5, <2>1, <2>2, <2>3 DEF CallsOK
<1>9. ASSUME NEW a \in Boxes PROVE WorkedOn(a)' <=> WorkedOn(a)
  <2>1. (\E d \in Requested : calls'[d] # Free /\ calls'[d].box = a)
          <=> (\E d \in Busy : calls'[d].box = a)
    BY <1>5 DEF Busy
  <2>2. (\E d \in Requested : calls[d] # Free /\ calls[d].box = a)
          <=> (\E d \in Busy : calls[d].box = a)
    BY DEF Busy
  <2>3. QED
    BY <1>6, <2>1, <2>2 DEF WorkedOn
<1>10. FreshOK'
  BY <1>9 DEF CatalogInv, FreshOK, IsRow
<1>11. LoneOK'
  <2>1. ASSUME NEW a \in Boxes \ shared
        PROVE  /\ \A d, e \in Busy : calls'[d].box = a /\ calls'[e].box = a => d = e
               /\ \A g, h \in consents : g.box = a /\ h.box = a => g = h
               /\ \A d \in Busy, g \in consents : ~(calls'[d].box = a /\ g.box = a)
    <3>1. /\ \A d, e \in Busy : calls[d].box = a /\ calls[e].box = a => d = e
          /\ \A g, h \in consents : g.box = a /\ h.box = a => g = h
          /\ \A d \in Busy, g \in consents : ~(calls[d].box = a /\ g.box = a)
      BY DEF CatalogInv, LoneOK
    <3>2. \A d \in Busy : calls'[d].box = calls[d].box
      BY <1>6
    <3>3. QED
      BY <3>1, <3>2
  <2>2. QED
    BY <1>5, <2>1 DEF LoneOK
<1>12. PatchOK'
  <2>1. SUFFICES ASSUME NEW d \in Busy PROVE PatchRow(calls[d])'
    BY <1>5 DEF PatchOK
  <2>2. PICK x : x = calls'[d]
    OBVIOUS
  <2>3. PatchRow(calls[d])
    BY DEF CatalogInv, PatchOK
  <2>4. PatchRow(x)'
    <3>1. CASE d = c
      BY <1>1, <1>4, <1>5, <2>2, <2>3, <3>1 DEF PatchRow, IsRow
    <3>2. CASE d # c
      <4>1. PatchRow(x)
        BY <1>5, <2>2, <2>3, <3>2
      <4>2. QED
        BY <4>1 DEF PatchRow, IsRow
    <3>3. QED
      BY <3>1, <3>2
  <2>5. QED
    BY <2>2, <2>4 DEF PatchRow, IsRow
<1>13. HalfwayOK'
  <2>1. SUFFICES ASSUME NEW a \in Boxes \ (doubtful \cup shared)
                 PROVE  /\ ~WorkedOn(a)' => Follows(a)'
                        /\ \A d \in Busy : calls'[d].box = a => Halfway(calls[d])'
                        /\ \A g \in consents : g.box = a =>
                             AliveAt(a)' /\ (IsRow(a)' => accounts'[a].name = boxes'[a].name)
    BY <1>5 DEF HalfwayOK
  <2>2. /\ ~WorkedOn(a) => Follows(a)
        /\ \A d \in Busy : calls[d].box = a => Halfway(calls[d])
        /\ \A g \in consents : g.box = a =>
             AliveAt(a) /\ (IsRow(a) => accounts[a].name = boxes[a].name)
    BY DEF CatalogInv, HalfwayOK
  <2>3. ASSUME NEW d \in Busy, calls'[d].box = a PROVE Halfway(calls[d])'
    <3>1. PICK x : x = calls'[d]
      OBVIOUS
    <3>2. Halfway(calls[d])
      BY <1>6, <2>2, <2>3
    <3>3. Halfway(x)
      <4>1. CASE d = c
        BY <1>1, <1>4, <1>5, <3>1, <3>2, <4>1 DEF Halfway
      <4>2. CASE d # c
        BY <1>5, <3>1, <3>2, <4>2
      <4>3. QED
        BY <4>1, <4>2
    <3>4. Halfway(x)'
      BY <3>3 DEF Halfway, Follows, IsRow, AliveAt
    <3>5. QED
      BY <3>1, <3>4 DEF Halfway, Follows, IsRow, AliveAt
  <2>4. QED
    BY <1>9, <2>2, <2>3 DEF Follows, IsRow, AliveAt
<1>14. LettersOK'
  <2>1. ASSUME NEW d \in Busy
        PROVE  /\ calls'[d].op = "send" /\ calls'[d].at = "call" => letters[d] = 0
               /\ calls'[d].op = "send" /\ calls'[d].at = "served" /\ calls'[d].verdict = "ok"
                    => letters[d] = 1
    BY <1>6 DEF CatalogInv, LettersOK
  <2>2. /\ \A s \in strays : s.op = "send" => letters[s.n] = 0
        /\ \A s, t \in strays : s.n = t.n => s = t
        /\ \A n \in Requested : n > mailBegun => letters[n] = 0
        /\ \A s \in sentRows : IsRow(s.box)' /\ letters[s.n] = 1
    BY DEF CatalogInv, LettersOK, IsRow
  <2>3. QED
    BY <1>5, <2>1, <2>2 DEF LettersOK
<1>15. NameIsDerived'
  BY DEF CatalogInv, NameIsDerived, IsRow
<1>16. QED
  BY <1>7, <1>8, <1>10, <1>11, <1>12, <1>13, <1>14, <1>15 DEF CatalogInv

\* What is known of a call's mailbox when nobody else is and nothing is in doubt.
LEMMA OfCall ==
  ASSUME CatalogInv, NEW c \in Busy, NEW b, b = calls[c].box
  PROVE  /\ CatalogRows /\ c \in Requested /\ calls[c] \in RequestRow /\ calls[c].n = c
         /\ b \in Boxes \cup {0} /\ (b = 0 <=> calls[c].op = "create" /\ calls[c].at = "call")
         /\ calls[c].at = "served" => b \in Boxes
         /\ b \in Boxes \ (doubtful \cup shared) => Halfway(calls[c])
         /\ PatchRow(calls[c])
         /\ b \in Boxes => boxes[b] # NoBox
<1>1. /\ CatalogRows /\ c \in Requested /\ calls[c] \in RequestRow /\ calls[c].n = c
      /\ (b = 0 <=> calls[c].op = "create" /\ calls[c].at = "call")
  BY DEF CatalogInv, CatalogRows, Busy, CallsOK
<1>2. b \in Boxes \cup {0} /\ calls[c].at \in {"call", "served"}
  BY <1>1 DEF RequestRow
<1>3. calls[c].at = "served" => b \in Boxes
  BY <1>1, <1>2
<1>4. b \in Boxes \ (doubtful \cup shared) => Halfway(calls[c])
  BY DEF CatalogInv, HalfwayOK
<1>5. PatchRow(calls[c])
  BY DEF CatalogInv, PatchOK
<1>6. b \in Boxes => boxes[b] # NoBox
  <2>1. b \in Boxes => WorkedOn(b)
    BY DEF WorkedOn, Busy
  <2>2. QED
    BY <2>1 DEF CatalogInv, FreshOK
<1>7. QED
  BY <1>1, <1>2, <1>3, <1>4, <1>5, <1>6

\* A request that ends without a row written leaves things as they were, or in doubt.
LEMMA GiveUpKeeps ==
  ASSUME CatalogInv, NEW c \in Busy, NEW b, b = calls[c].box, calls' = [calls EXCEPT ![c] = Free],
         UNCHANGED <<boxes, accounts, mailTeams, consents, letters, sentRows, mailBegun, shared>>,
         strays' = strays \/ (calls[c].at = "call" /\ strays' = strays \cup {calls[c]}
                              /\ (b # 0 => b \in doubtful')),
         doubtful' = doubtful \/ (b \in Boxes /\ doubtful' = doubtful \cup {b}),
         b \in Boxes \ (doubtful' \cup shared) => Follows(b)
  PROVE  CatalogInv'
<1>1. CatalogRows /\ accounts' = accounts
  BY DEF CatalogInv
<1>2. doubtful \subseteq doubtful' /\ doubtful' \subseteq Boxes
  BY <1>1 DEF CatalogRows
<1>3. accounts' \in [Boxes -> Account \cup {NoBox}] /\ sentRows' \subseteq MailSentMessage
      /\ \A a \in Boxes : IsRow(a)' => accounts'[a].team \in mailTeams \cup {NoTeam}
  BY <1>1 DEF CatalogRows, IsRow
<1>4. \A s \in sentRows' : IsRow(s.box)' /\ letters[s.n] = 1
  BY DEF CatalogInv, LettersOK, IsRow
<1>5. b \in Boxes \ (doubtful' \cup shared) => Follows(b)'
  BY DEF Follows, IsRow, AliveAt
<1>6. b \in Boxes \ shared /\ IsRow(b)' =>
        accounts'[b].name = build_display_name(accounts'[b].number, accounts'[b].app)
  BY DEF CatalogInv, NameIsDerived, IsRow
<1>7. QED
  BY <1>2, <1>3, <1>4, <1>5, <1>6, EndCallKeeps

\* A failed call, a 404, and an answer lost.
LEMMA FailuresKeep ==
  ASSUME CatalogInv, NEW c \in Busy, CallFails(c) \/ Missing(c) \/ CommitFails(c)
  PROVE  CatalogInv'
<1>1. PICK r : r = calls[c]
  OBVIOUS
<1>2. PICK b : b = r.box
  OBVIOUS
<1>3. /\ b \in Boxes \cup {0} /\ (b = 0 <=> r.op = "create" /\ r.at = "call")
      /\ r.at = "served" => b \in Boxes
      /\ b \in Boxes \ (doubtful \cup shared) => Halfway(r)
      /\ r \in RequestRow /\ PatchRow(r)
  BY <1>1, <1>2, OfCall
<1>4. ASSUME NEW lost \in BOOLEAN, GiveUpOn(c, lost)
      PROVE  /\ calls' = [calls EXCEPT ![c] = Free]
             /\ doubtful' = doubtful \/ (b \in Boxes /\ doubtful' = doubtful \cup {b})
             /\ (lost \/ r.op = "cleanup") /\ b # 0 => doubtful' = doubtful \cup {b}
  BY <1>1, <1>2, <1>3, <1>4 DEF GiveUpOn
<1>5. CASE CallFails(c)
  <2>1. PICK why \in {"connect", "refused", "timeout"} :
         /\ IF why = "timeout" THEN r.at \in {"call", "served"} ELSE r.at = "call"
         /\ r.op = "patch" => r.fields # {"team"}
         /\ strays' = IF why = "timeout" /\ r.at = "call" THEN strays \cup {r} ELSE strays
         /\ IF why \in RetriedOn /\ r.tries + 1 < MaxTries
            THEN /\ calls' = [calls EXCEPT ![c].at = "call", ![c].tries = @ + 1]
                 /\ UNCHANGED doubtful
            ELSE GiveUpOn(c, why = "timeout")
    BY <1>1, <1>5 DEF CallFails
  <2>2. UNCHANGED <<boxes, accounts, mailTeams, consents, letters, sentRows, mailBegun, shared>>
    BY <1>5 DEF CallFails
  <2>3. CASE why \in RetriedOn /\ r.tries + 1 < MaxTries
    <3>1. r.at = "call" /\ strays' = strays
      BY <2>1, <2>3 DEF RetriedOn
    <3>2. QED
      BY <1>1, <2>1, <2>2, <2>3, <3>1, RetryKeeps
  <2>4. CASE ~(why \in RetriedOn /\ r.tries + 1 < MaxTries)
    <3>1. PICK lost \in BOOLEAN : lost = (why = "timeout")
      OBVIOUS
    <3>2. /\ calls' = [calls EXCEPT ![c] = Free]
          /\ doubtful' = doubtful \/ (b \in Boxes /\ doubtful' = doubtful \cup {b})
          /\ (lost \/ r.op = "cleanup") /\ b # 0 => doubtful' = doubtful \cup {b}
      BY <1>4, <2>1, <2>4, <3>1
    <3>3. strays' = strays \/ (r.at = "call" /\ strays' = strays \cup {r} /\ (b # 0 => b \in doubtful'))
      BY <2>1, <3>1, <3>2
    <3>4. ASSUME b \in Boxes \ (doubtful' \cup shared) PROVE Follows(b)
      <4>1. b # 0 /\ ~lost /\ r.op # "cleanup" /\ b \in Boxes \ (doubtful \cup shared)
        BY <3>2, <3>4, CatalogShapes
      <4>2. r.at = "call" /\ Halfway(r) /\ r.op # "create"
        BY <1>3, <2>1, <3>1, <4>1
      <4>3. QED
        BY <1>2, <4>1, <4>2 DEF Halfway
    <3>5. QED
      BY <1>1, <1>2, <2>2, <3>2, <3>3, <3>4, GiveUpKeeps
  <2>5. QED
    BY <2>3, <2>4
<1>6. CASE Missing(c)
  <2>1. /\ r.at = "served" /\ r.verdict = "missing" /\ r.op # "delete" /\ GiveUpOn(c, FALSE)
        /\ UNCHANGED <<boxes, accounts, mailTeams, strays, consents, letters, sentRows, mailBegun, shared>>
    BY <1>1, <1>6 DEF Missing
  <2>2. /\ calls' = [calls EXCEPT ![c] = Free]
        /\ doubtful' = doubtful \/ (b \in Boxes /\ doubtful' = doubtful \cup {b})
        /\ r.op = "cleanup" /\ b # 0 => doubtful' = doubtful \cup {b}
    BY <1>4, <2>1
  <2>3. ASSUME b \in Boxes \ (doubtful' \cup shared) PROVE Follows(b)
    <3>1. b # 0 /\ r.op # "cleanup" /\ b \in Boxes \ (doubtful \cup shared)
      BY <2>2, <2>3, CatalogShapes
    <3>2. Halfway(r) /\ r.op # "create"
      BY <1>1, <1>3, <2>1, <3>1 DEF CatalogInv, CallsOK
    <3>3. QED
      BY <1>2, <2>1, <3>1, <3>2 DEF Halfway
  <2>4. QED
    BY <1>1, <1>2, <2>1, <2>2, <2>3, GiveUpKeeps
<1>7. CASE CommitFails(c)
  <2>1. /\ r.at = "served" /\ GiveUpOn(c, TRUE)
        /\ UNCHANGED <<boxes, accounts, mailTeams, strays, consents, letters, sentRows, mailBegun, shared>>
    BY <1>1, <1>7 DEF CommitFails
  <2>2. /\ calls' = [calls EXCEPT ![c] = Free]
        /\ b \in Boxes /\ doubtful' = doubtful \cup {b}
    BY <1>3, <1>4, <2>1, CatalogShapes
  <2>3. QED
    BY <1>1, <1>2, <2>1, <2>2, GiveUpKeeps
<1>8. QED
  BY <1>5, <1>6, <1>7

\* The row of a new mailbox, or the call that takes back one which cannot have a row.
LEMMA CreateKeeps ==
  ASSUME CatalogInv, NEW c \in Busy, FinishCreateMailbox(c) \/ InsertFails(c)
  PROVE  CatalogInv'
<1>1. PICK r : r = calls[c]
  OBVIOUS
<1>2. PICK b : b = r.box
  OBVIOUS
<1>3. r.op = "create" /\ r.at = "served"
  BY <1>1 DEF FinishCreateMailbox, InsertFails, Answered
<1>4. /\ CatalogRows /\ c \in Requested /\ r \in RequestRow /\ r.n = c /\ b \in Boxes /\ PatchRow(r)
      /\ b \in Boxes \ (doubtful \cup shared) => AliveAt(b) /\ ~IsRow(b) /\ boxes[b].name = r.name
      /\ boxes[b] # NoBox
  <2>1. /\ CatalogRows /\ c \in Requested /\ r \in RequestRow /\ r.n = c /\ b \in Boxes /\ PatchRow(r)
        /\ b \in Boxes \ (doubtful \cup shared) => Halfway(r)
        /\ boxes[b] # NoBox
    BY <1>1, <1>2, <1>3, OfCall
  <2>2. Halfway(r) => AliveAt(b) /\ ~IsRow(b) /\ boxes[b].name = r.name
    BY <1>2, <1>3 DEF Halfway
  <2>3. QED
    BY <2>1, <2>2
<1>5. CASE FinishCreateMailbox(c)
  <2>1. PICK row : row = AccountRow(r.number, r.app, r.team)
    OBVIOUS
  <2>2. /\ Insertable(r.team) /\ accounts' = [accounts EXCEPT ![b] = row]
        /\ calls' = [calls EXCEPT ![c] = Free]
        /\ UNCHANGED <<boxes, mailTeams, strays, consents, letters, mailBegun, doubtful, shared, sentRows>>
    BY <1>1, <1>2, <1>5, <2>1 DEF FinishCreateMailbox, Finished
  <2>3. /\ row \in Account /\ row.number = r.number /\ row.app = r.app /\ row.team = r.team
        /\ row.name = build_display_name(r.number, r.app) /\ row # NoBox
    BY <1>4, <2>1, AccountRows, CatalogShapes DEF RequestRow
  <2>4. row.name = r.name
    BY <1>3, <1>4, <2>3 DEF PatchRow
  <2>5. /\ accounts' \in [Boxes -> Account \cup {NoBox}] /\ accounts'[b] = row
        /\ \A a \in Boxes : a # b => accounts'[a] = accounts[a]
    BY <1>4, <2>2, <2>3 DEF CatalogRows
  <2>6. \A a \in Boxes : IsRow(a)' => accounts'[a].team \in mailTeams \cup {NoTeam}
    BY <1>4, <2>2, <2>3, <2>5 DEF CatalogRows, IsRow, Insertable
  <2>7. /\ sentRows' \subseteq MailSentMessage
        /\ \A s \in sentRows' : IsRow(s.box)' /\ letters[s.n] = 1
    <3>1. \A s \in sentRows : s \in MailSentMessage /\ s.box \in Boxes /\ IsRow(s.box) /\ letters[s.n] = 1
      BY <1>4 DEF CatalogInv, LettersOK, CatalogRows, MailSentMessage
    <3>2. QED
      BY <2>2, <2>3, <2>5, <3>1 DEF IsRow
  <2>8. b \in Boxes \ (doubtful' \cup shared) => Follows(b)'
    BY <1>4, <2>2, <2>3, <2>4, <2>5 DEF Follows, IsRow, AliveAt
  <2>9. b \in Boxes \ shared /\ IsRow(b)' =>
          accounts'[b].name = build_display_name(accounts'[b].number, accounts'[b].app)
    BY <2>3, <2>5
  <2>10. doubtful \subseteq doubtful' /\ doubtful' \subseteq Boxes
    BY <1>4, <2>2 DEF CatalogRows
  <2>11. /\ b = calls[c].box /\ strays' = strays /\ calls' = [calls EXCEPT ![c] = Free]
         /\ UNCHANGED <<boxes, mailTeams, consents, letters, mailBegun, shared>>
    BY <1>1, <1>2, <2>2
  <2>12. /\ accounts' \in [Boxes -> Account \cup {NoBox}]
         /\ \A a \in Boxes : a # b => accounts'[a] = accounts[a]
    BY <2>5
  <2>13. QED
    BY <2>6, <2>7, <2>8, <2>9, <2>10, <2>11, <2>12, EndCallKeeps
<1>6. CASE InsertFails(c)
  <2>1. /\ calls' = [calls EXCEPT ![c].op = "cleanup", ![c].at = "call", ![c].tries = 0]
        /\ UNCHANGED <<boxes, accounts, mailTeams, strays, consents, letters, sentRows, mailBegun,
                       doubtful, shared>>
    BY <1>6 DEF InsertFails, _compensate_orphan_mailbox
  <2>2. PICK q : q = [r EXCEPT !.op = "cleanup", !.at = "call", !.tries = 0]
    OBVIOUS
  <2>3. /\ q \in RequestRow /\ q.op = "cleanup" /\ q.at = "call" /\ q.n = c /\ q.box = b /\ q # Free
    BY <1>2, <1>4, <2>2, CatalogShapes DEF RequestRow, Operations
  <2>4. calls' = [calls EXCEPT ![c] = q]
    BY <1>1, <1>4, <2>1, <2>2 DEF CatalogRows
  <2>5. /\ calls' \in [Requested -> RequestRow \cup {Free}] /\ calls'[c] = q /\ Busy' = Busy
        /\ \A d \in Busy : d # c => calls'[d] = calls[d]
    BY <1>4, <2>3, <2>4 DEF CatalogRows, Busy
  <2>6. \A d \in Busy : calls'[d].box = calls[d].box
    BY <1>1, <1>2, <2>3, <2>5
  <2>7. CatalogRows'
    BY <1>4, <2>1, <2>5 DEF CatalogRows, IsRow
  <2>8. CallsOK'
    <3>1. ASSUME NEW d \in Busy
          PROVE  /\ calls'[d].n = d /\ d <= mailBegun
                 /\ calls'[d].box = 0 <=> calls'[d].op = "create" /\ calls'[d].at = "call"
                 /\ calls'[d].op = "create" /\ calls'[d].at = "served" => calls'[d].verdict = "ok"
      <4>1. /\ calls[d].n = d /\ d <= mailBegun
            /\ calls[d].box = 0 <=> calls[d].op = "create" /\ calls[d].at = "call"
            /\ calls[d].op = "create" /\ calls[d].at = "served" => calls[d].verdict = "ok"
        BY DEF CatalogInv, CallsOK
      <4>2. CASE d = c
        BY <1>4, <2>3, <2>5, <4>1, <4>2, CatalogShapes
      <4>3. CASE d # c
        BY <2>5, <4>1, <4>3
      <4>4. QED
        BY <4>2, <4>3
    <3>2. ASSUME NEW s \in strays
          PROVE  /\ s.at = "call" /\ s.n <= mailBegun /\ s.n \notin Busy
                 /\ s.box = 0 <=> s.op = "create"
                 /\ s.box # 0 => s.box \in doubtful
      BY DEF CatalogInv, CallsOK
    <3>3. \A g \in consents : g.n <= mailBegun
      BY DEF CatalogInv, CallsOK
    <3>4. QED
      BY <2>1, <2>5, <3>1, <3>2, <3>3 DEF CallsOK
  <2>9. ASSUME NEW a \in Boxes PROVE WorkedOn(a)' <=> WorkedOn(a)
    <3>1. (\E d \in Requested : calls'[d] # Free /\ calls'[d].box = a)
            <=> (\E d \in Busy : calls'[d].box = a)
      BY <2>5 DEF Busy
    <3>2. (\E d \in Requested : calls[d] # Free /\ calls[d].box = a)
            <=> (\E d \in Busy : calls[d].box = a)
      BY DEF Busy
    <3>3. QED
      BY <2>1, <2>6, <3>1, <3>2 DEF WorkedOn
  <2>10. FreshOK'
    BY <2>1, <2>9 DEF CatalogInv, FreshOK, IsRow
  <2>11. LoneOK'
    <3>1. ASSUME NEW a \in Boxes \ shared
          PROVE  /\ \A d, e \in Busy : calls'[d].box = a /\ calls'[e].box = a => d = e
                 /\ \A g, h \in consents : g.box = a /\ h.box = a => g = h
                 /\ \A d \in Busy, g \in consents : ~(calls'[d].box = a /\ g.box = a)
      <4>1. /\ \A d, e \in Busy : calls[d].box = a /\ calls[e].box = a => d = e
            /\ \A g, h \in consents : g.box = a /\ h.box = a => g = h
            /\ \A d \in Busy, g \in consents : ~(calls[d].box = a /\ g.box = a)
        BY DEF CatalogInv, LoneOK
      <4>2. QED
        BY <2>6, <4>1
    <3>2. QED
      BY <2>1, <2>5, <3>1 DEF LoneOK
  <2>12. PatchOK'
    <3>1. SUFFICES ASSUME NEW d \in Busy PROVE PatchRow(calls[d])'
      BY <2>5 DEF PatchOK
    <3>2. PICK x : x = calls'[d]
      OBVIOUS
    <3>3. PatchRow(x)
      <4>1. CASE d = c
        BY <2>3, <2>5, <3>2, <4>1 DEF PatchRow
      <4>2. CASE d # c
        BY <2>5, <3>2, <4>2 DEF CatalogInv, PatchOK
      <4>3. QED
        BY <4>1, <4>2
    <3>4. PatchRow(x)'
      BY <2>1, <3>3 DEF PatchRow, IsRow
    <3>5. QED
      BY <3>2, <3>4 DEF PatchRow, IsRow
  <2>13. HalfwayOK'
    <3>1. SUFFICES ASSUME NEW a \in Boxes \ (doubtful \cup shared)
                   PROVE  /\ ~WorkedOn(a)' => Follows(a)'
                          /\ \A d \in Busy : calls'[d].box = a => Halfway(calls[d])'
                          /\ \A g \in consents : g.box = a =>
                               AliveAt(a)' /\ (IsRow(a)' => accounts'[a].name = boxes'[a].name)
      BY <2>1, <2>5 DEF HalfwayOK
    <3>2. /\ ~WorkedOn(a) => Follows(a)
          /\ \A d \in Busy : calls[d].box = a => Halfway(calls[d])
          /\ \A g \in consents : g.box = a =>
               AliveAt(a) /\ (IsRow(a) => accounts[a].name = boxes[a].name)
      BY DEF CatalogInv, HalfwayOK
    <3>3. ASSUME NEW d \in Busy, calls'[d].box = a PROVE Halfway(calls[d])'
      <4>1. PICK x : x = calls'[d]
        OBVIOUS
      <4>2. Halfway(x)
        <5>1. CASE d = c
          BY <1>4, <2>3, <2>5, <3>3, <4>1, <5>1 DEF Halfway
        <5>2. CASE d # c
          BY <2>5, <3>2, <3>3, <4>1, <5>2
        <5>3. QED
          BY <5>1, <5>2
      <4>3. Halfway(x)'
        BY <2>1, <4>2 DEF Halfway, Follows, IsRow, AliveAt
      <4>4. QED
        BY <4>1, <4>3 DEF Halfway, Follows, IsRow, AliveAt
    <3>4. QED
      BY <2>1, <2>9, <3>2, <3>3 DEF Follows, IsRow, AliveAt
  <2>14. LettersOK'
    <3>1. ASSUME NEW d \in Busy
          PROVE  /\ calls'[d].op = "send" /\ calls'[d].at = "call" => letters[d] = 0
                 /\ calls'[d].op = "send" /\ calls'[d].at = "served" /\ calls'[d].verdict = "ok"
                      => letters[d] = 1
      BY <2>3, <2>5 DEF CatalogInv, LettersOK
    <3>2. /\ \A s \in strays : s.op = "send" => letters[s.n] = 0
          /\ \A s, t \in strays : s.n = t.n => s = t
          /\ \A n \in Requested : n > mailBegun => letters[n] = 0
          /\ \A s \in sentRows : IsRow(s.box)' /\ letters[s.n] = 1
      BY <2>1 DEF CatalogInv, LettersOK, IsRow
    <3>3. QED
      BY <2>1, <2>5, <3>1, <3>2 DEF LettersOK
  <2>15. NameIsDerived'
    BY <2>1 DEF CatalogInv, NameIsDerived, IsRow
  <2>16. QED
    BY <2>7, <2>8, <2>10, <2>11, <2>12, <2>13, <2>14, <2>15 DEF CatalogInv
<1>7. QED
  BY <1>5, <1>6

\* An edit is written over the row as it is now.
LEMMA UpdateMailboxKeeps ==
  ASSUME CatalogInv, NEW c \in Busy, FinishUpdateMailbox(c)
  PROVE  CatalogInv'
<1>1. PICK r : r = calls[c]
  OBVIOUS
<1>2. PICK b : b = r.box
  OBVIOUS
<1>3. r.op = "patch" /\ r.at = "served" /\ r.verdict = "ok"
  BY <1>1 DEF FinishUpdateMailbox, Answered
<1>4. /\ CatalogRows /\ r \in RequestRow /\ b \in Boxes /\ PatchRow(r)
      /\ b \in Boxes \ (doubtful \cup shared) => Halfway(r)
  BY <1>1, <1>2, <1>3, OfCall
<1>5. PICK now : now = accounts[b]
  OBVIOUS
<1>6. PICK row : row = Written(r, now)
  OBVIOUS
<1>7. /\ calls' = [calls EXCEPT ![c] = Free]
      /\ UNCHANGED <<boxes, mailTeams, strays, consents, letters, sentRows, mailBegun, shared>>
      /\ IF IsRow(b) /\ Insertable(row.team)
         THEN accounts' = [accounts EXCEPT ![b] = row] /\ doubtful' = doubtful
         ELSE doubtful' = doubtful \cup {b} /\ accounts' = accounts
  BY <1>1, <1>2, <1>4, <1>5, <1>6 DEF FinishUpdateMailbox, CatalogRows
<1>8. CASE ~(IsRow(b) /\ Insertable(row.team))
  BY <1>1, <1>2, <1>4, <1>7, <1>8, GiveUpKeeps
<1>9. CASE IsRow(b) /\ Insertable(row.team)
  <2>1. now \in Account /\ r.old \in Account
    BY <1>3, <1>4, <1>5, <1>9 DEF CatalogRows, IsRow, PatchRow, RequestRow
  <2>2. /\ row.number = IF r.number # r.old.number THEN r.number ELSE now.number
        /\ row.app = IF r.app # r.old.app THEN r.app ELSE now.app
        /\ row.name = IF r.name # r.old.name /\ r.fields # {"team"} THEN r.name ELSE now.name
        /\ row \in Account
    BY <1>4, <1>6, <2>1 DEF Written, Account, RequestRow
  <2>3. row # NoBox
    BY <2>2, CatalogShapes
  <2>4. /\ accounts' \in [Boxes -> Account \cup {NoBox}] /\ accounts'[b] = row
        /\ \A a \in Boxes : a # b => accounts'[a] = accounts[a]
    BY <1>4, <1>7, <1>9, <2>2 DEF CatalogRows
  <2>5. \A a \in Boxes : IsRow(a)' => accounts'[a].team \in mailTeams \cup {NoTeam}
    BY <1>4, <1>9, <2>4 DEF CatalogRows, IsRow, Insertable
  <2>6. /\ sentRows' \subseteq MailSentMessage
        /\ \A s \in sentRows' : IsRow(s.box)' /\ letters[s.n] = 1
    <3>1. \A s \in sentRows : s \in MailSentMessage /\ s.box \in Boxes /\ IsRow(s.box) /\ letters[s.n] = 1
      BY <1>4 DEF CatalogInv, LettersOK, CatalogRows, MailSentMessage
    <3>2. QED
      BY <1>7, <2>3, <2>4, <3>1 DEF IsRow
  <2>7. ASSUME b \notin shared
        PROVE  /\ r.old.number = now.number /\ r.old.app = now.app /\ r.old.name = now.name
               /\ r.name = build_display_name(r.number, r.app)
               /\ r.fields = {"team"} => r.number = now.number /\ r.app = now.app
    BY <1>2, <1>3, <1>4, <1>5, <2>7 DEF PatchRow
  <2>8. b \in Boxes \ shared => row.name = build_display_name(row.number, row.app)
    <3>1. SUFFICES ASSUME b \notin shared PROVE row.name = build_display_name(row.number, row.app)
      OBVIOUS
    <3>2. row.number = r.number /\ row.app = r.app
      BY <2>2, <2>7, <3>1
    <3>3. CASE r.fields # {"team"}
      <4>1. row.name = r.name
        BY <2>2, <2>7, <3>1, <3>3
      <4>2. QED
        BY <2>7, <3>1, <3>2, <4>1
    <3>4. CASE r.fields = {"team"}
      <4>1. row.name = now.name /\ r.number = now.number /\ r.app = now.app
        BY <2>2, <2>7, <3>1, <3>4
      <4>2. now.name = build_display_name(now.number, now.app)
        BY <1>4, <1>5, <1>9, <3>1 DEF CatalogInv, NameIsDerived
      <4>3. QED
        BY <3>2, <4>1, <4>2
    <3>5. QED
      BY <3>3, <3>4
  <2>9. ASSUME b \in Boxes \ (doubtful' \cup shared) PROVE Follows(b)'
    <3>1. Halfway(r) /\ b \notin shared
      BY <1>4, <1>7, <1>9, <2>9
    <3>2. CASE r.fields # {"team"}
      <4>1. AliveAt(b) /\ boxes[b].name = r.name
        BY <1>2, <1>3, <3>1, <3>2 DEF Halfway
      <4>2. row.name = r.name
        BY <2>2, <2>7, <3>1, <3>2
      <4>3. QED
        BY <1>7, <2>3, <2>4, <4>1, <4>2 DEF Follows, IsRow, AliveAt
    <3>3. CASE r.fields = {"team"}
      <4>1. Follows(b) /\ row.name = now.name
        BY <1>2, <1>3, <2>2, <3>1, <3>3 DEF Halfway
      <4>2. QED
        BY <1>5, <1>7, <1>9, <2>3, <2>4, <4>1 DEF Follows, IsRow, AliveAt
    <3>4. QED
      BY <3>2, <3>3
  <2>10. doubtful \subseteq doubtful' /\ doubtful' \subseteq Boxes
    BY <1>4, <1>7, <1>9 DEF CatalogRows
  <2>11. b \in Boxes \ shared /\ IsRow(b)' =>
           accounts'[b].name = build_display_name(accounts'[b].number, accounts'[b].app)
    BY <2>4, <2>8
  <2>12. QED
    BY <1>1, <1>2, <1>7, <2>4, <2>5, <2>6, <2>9, <2>10, <2>11, EndCallKeeps
<1>10. QED
  BY <1>8, <1>9

\* A mailbox goes, its sent letters with it; a letter has gone; a mailbox is synced.
LEMMA FinishesKeep ==
  ASSUME CatalogInv, NEW c \in Busy, FinishDeleteMailbox(c) \/ FinishSend(c) \/ FinishSync(c)
  PROVE  CatalogInv'
<1>1. PICK r : r = calls[c]
  OBVIOUS
<1>2. PICK b : b = r.box
  OBVIOUS
<1>3. /\ r.at = "served" /\ (r.verdict = "ok" \/ r.op = "delete")
      /\ calls' = [calls EXCEPT ![c] = Free]
      /\ UNCHANGED <<boxes, mailTeams, strays, consents, letters, mailBegun, doubtful, shared>>
  BY <1>1 DEF FinishDeleteMailbox, FinishSend, FinishSync, Answered, Finished
<1>4. /\ CatalogRows /\ c \in Requested /\ r \in RequestRow /\ r.n = c /\ b \in Boxes
      /\ b \in Boxes \ (doubtful \cup shared) => Halfway(r)
  BY <1>1, <1>2, <1>3, OfCall
<1>5. doubtful \subseteq doubtful' /\ doubtful' \subseteq Boxes /\ strays' = strays /\ b = calls[c].box
  BY <1>1, <1>2, <1>3, <1>4 DEF CatalogRows
<1>6. \A s \in sentRows : s \in MailSentMessage /\ s.box \in Boxes /\ IsRow(s.box) /\ letters[s.n] = 1
  BY <1>4 DEF CatalogInv, LettersOK, CatalogRows, MailSentMessage
<1>7. CASE FinishDeleteMailbox(c)
  <2>1. r.op = "delete" /\ accounts' = [accounts EXCEPT ![b] = NoBox] /\ sentRows' = SentElsewhere(b)
    BY <1>1, <1>2, <1>7 DEF FinishDeleteMailbox, Answered
  <2>2. /\ accounts' \in [Boxes -> Account \cup {NoBox}] /\ accounts'[b] = NoBox
        /\ \A a \in Boxes : a # b => accounts'[a] = accounts[a]
    BY <1>4, <2>1 DEF CatalogRows
  <2>3. \A a \in Boxes : IsRow(a)' => accounts'[a].team \in mailTeams \cup {NoTeam}
    BY <1>4, <2>2 DEF CatalogRows, IsRow
  <2>4. /\ sentRows' \subseteq MailSentMessage
        /\ \A s \in sentRows' : IsRow(s.box)' /\ letters[s.n] = 1
    BY <1>6, <2>1, <2>2 DEF IsRow, SentElsewhere
  <2>5. b \in Boxes \ (doubtful' \cup shared) => Follows(b)'
    <3>1. b \in Boxes \ (doubtful \cup shared) => ~AliveAt(b)
      BY <1>2, <1>3, <1>4, <2>1 DEF Halfway
    <3>2. QED
      BY <1>3, <2>2, <3>1 DEF Follows, IsRow, AliveAt
  <2>6. b \in Boxes \ shared /\ IsRow(b)' =>
          accounts'[b].name = build_display_name(accounts'[b].number, accounts'[b].app)
    BY <2>2 DEF IsRow
  <2>7. QED
    BY <1>3, <1>5, <2>2, <2>3, <2>4, <2>5, <2>6, EndCallKeeps
<1>8. ASSUME accounts' = accounts, r.op \in {"send", "sync", "cleanup"}, r.verdict = "ok",
             sentRows' \subseteq MailSentMessage,
             \A s \in sentRows' : IsRow(s.box) /\ letters[s.n] = 1
      PROVE  CatalogInv'
  <2>1. b \in Boxes \ (doubtful' \cup shared) => Follows(b)'
    <3>1. b \in Boxes \ (doubtful \cup shared) => Follows(b)
      BY <1>2, <1>3, <1>4, <1>8 DEF Halfway
    <3>2. QED
      BY <1>3, <1>8, <3>1 DEF Follows, IsRow, AliveAt
  <2>2. b \in Boxes \ shared /\ IsRow(b)' =>
          accounts'[b].name = build_display_name(accounts'[b].number, accounts'[b].app)
    BY <1>8 DEF CatalogInv, NameIsDerived, IsRow
  <2>3. accounts' \in [Boxes -> Account \cup {NoBox}]
        /\ \A a \in Boxes : IsRow(a)' => accounts'[a].team \in mailTeams \cup {NoTeam}
    BY <1>4, <1>8 DEF CatalogRows, IsRow
  <2>4. \A s \in sentRows' : IsRow(s.box)' /\ letters[s.n] = 1
    BY <1>8 DEF IsRow
  <2>5. \A a \in Boxes : a # b => accounts'[a] = accounts[a]
    BY <1>8
  <2>6. QED
    BY <1>3, <1>5, <1>8, <2>1, <2>2, <2>3, <2>4, <2>5, EndCallKeeps
<1>9. CASE FinishSend(c)
  <2>1. /\ r.op = "send" /\ accounts' = accounts /\ r.verdict = "ok"
        /\ sentRows' = IF IsRow(b) THEN sentRows \cup {[n |-> c, box |-> b]} ELSE sentRows
    BY <1>1, <1>2, <1>3, <1>4, <1>9 DEF FinishSend, Answered
  <2>2. letters[c] = 1
    BY <1>1, <1>3, <2>1 DEF CatalogInv, LettersOK
  <2>3. PICK s : s = [n |-> c, box |-> b]
    OBVIOUS
  <2>4. s \in MailSentMessage /\ s.n = c /\ s.box = b
    BY <1>4, <2>3 DEF MailSentMessage
  <2>5. sentRows' = IF IsRow(b) THEN sentRows \cup {s} ELSE sentRows
    BY <2>1, <2>3
  <2>6. \A t \in sentRows' : t \in MailSentMessage /\ IsRow(t.box) /\ letters[t.n] = 1
    BY <1>6, <2>2, <2>4, <2>5
  <2>7. QED
    BY <1>8, <2>1, <2>6
<1>10. CASE FinishSync(c)
  <2>1. r.op \in {"sync", "cleanup"} /\ accounts' = accounts /\ sentRows' = sentRows /\ r.verdict = "ok"
    BY <1>1, <1>3, <1>10 DEF FinishSync, Answered
  <2>2. QED
    BY <1>6, <1>8, <2>1
<1>11. QED
  BY <1>7, <1>9, <1>10

\* A consent ends: the row it leaves agrees with the aggregator, or is in doubt.
LEMMA EndConsentKeeps ==
  ASSUME CatalogInv, NEW g \in consents, NEW b \in Boxes, b = g.box, consents' = consents \ {g},
         UNCHANGED <<boxes, mailTeams, calls, strays, letters, sentRows, mailBegun, shared>>,
         doubtful \subseteq doubtful', doubtful' \subseteq Boxes,
         accounts' \in [Boxes -> Account \cup {NoBox}],
         \A a \in Boxes : a # b => accounts'[a] = accounts[a],
         \A a \in Boxes : IsRow(a)' => accounts'[a].team \in mailTeams \cup {NoTeam},
         IsRow(b) => /\ accounts'[b] # NoBox /\ accounts'[b].number = accounts[b].number
                     /\ accounts'[b].app = accounts[b].app /\ accounts'[b].name = accounts[b].name,
         b \notin doubtful' \cup shared => Follows(b)',
         b \notin shared /\ IsRow(b)' =>
           accounts'[b].name = build_display_name(accounts'[b].number, accounts'[b].app)
  PROVE  CatalogInv'
<1>1. CatalogRows /\ Busy' = Busy /\ calls' = calls
  BY DEF CatalogInv, Busy
<1>2. CatalogRows'
  BY <1>1 DEF CatalogRows
<1>3. CallsOK'
  BY <1>1 DEF CatalogInv, CallsOK
<1>4. \A a \in Boxes : IsRow(a) => IsRow(a)'
  BY DEF IsRow
<1>5. ASSUME NEW a \in Boxes, a # b PROVE WorkedOn(a)' <=> WorkedOn(a)
  BY <1>1, <1>5 DEF WorkedOn
<1>6. boxes[b] # NoBox
  <2>1. WorkedOn(b)
    BY DEF WorkedOn
  <2>2. QED
    BY <2>1 DEF CatalogInv, FreshOK
<1>7. FreshOK'
  BY <1>5, <1>6 DEF CatalogInv, FreshOK, IsRow
<1>8. LoneOK'
  BY <1>1 DEF CatalogInv, LoneOK
<1>9. PatchOK'
  <2>1. SUFFICES ASSUME NEW d \in Busy PROVE PatchRow(calls[d])'
    BY <1>1 DEF PatchOK
  <2>2. PICK x : x = calls[d]
    OBVIOUS
  <2>3. PatchRow(x) /\ x \in RequestRow /\ calls'[d] = x
    BY <1>1, <2>2 DEF CatalogInv, PatchOK, CatalogRows, Busy
  <2>4. x.op = "patch" => x.box \in Boxes
    BY <2>2, <2>3 DEF CatalogInv, CallsOK, RequestRow
  <2>5. \A a \in Boxes : IsRow(a) => /\ IsRow(a)' /\ accounts'[a].number = accounts[a].number
                                     /\ accounts'[a].app = accounts[a].app
                                     /\ accounts'[a].name = accounts[a].name
    BY DEF IsRow
  <2>6. PatchRow(x)'
    BY <2>3, <2>4, <2>5 DEF PatchRow
  <2>7. QED
    BY <2>3, <2>6 DEF PatchRow, IsRow
<1>10. HalfwayOK'
  <2>1. SUFFICES ASSUME NEW a \in Boxes \ (doubtful' \cup shared)
                 PROVE  /\ ~WorkedOn(a)' => Follows(a)'
                        /\ \A d \in Busy : calls'[d].box = a => Halfway(calls[d])'
                        /\ \A h \in consents' : h.box = a =>
                             AliveAt(a)' /\ (IsRow(a)' => accounts'[a].name = boxes'[a].name)
    BY <1>1 DEF HalfwayOK
  <2>2. a \in Boxes \ (doubtful \cup shared)
    OBVIOUS
  <2>3. /\ ~WorkedOn(a) => Follows(a)
        /\ \A d \in Busy : calls[d].box = a => Halfway(calls[d])
        /\ \A h \in consents : h.box = a =>
             AliveAt(a) /\ (IsRow(a) => accounts[a].name = boxes[a].name)
    BY <2>2 DEF CatalogInv, HalfwayOK
  <2>4. CASE a = b
    <3>1. Follows(a)'
      BY <2>4
    <3>2. \A d \in Busy : calls[d].box # a
      BY <2>2, <2>4 DEF CatalogInv, LoneOK
    <3>3. \A h \in consents' : h.box # a
      BY <2>2, <2>4 DEF CatalogInv, LoneOK
    <3>4. QED
      BY <3>1, <3>2, <3>3
  <2>5. CASE a # b
    <3>1. /\ Follows(a)' <=> Follows(a)
          /\ AliveAt(a)' <=> AliveAt(a)
          /\ IsRow(a)' <=> IsRow(a)
          /\ accounts'[a] = accounts[a]
      BY <2>5 DEF Follows, IsRow, AliveAt
    <3>2. ASSUME NEW d \in Busy, calls'[d].box = a PROVE Halfway(calls[d])'
      <4>1. PICK x : x = calls[d]
        OBVIOUS
      <4>2. Halfway(x) /\ calls'[d] = x /\ x.box = a
        BY <1>1, <2>3, <3>2, <4>1
      <4>3. Halfway(x)'
        BY <2>5, <3>1, <4>2 DEF Halfway, Follows, IsRow, AliveAt
      <4>4. QED
        BY <4>2, <4>3 DEF Halfway, Follows, IsRow, AliveAt
    <3>3. QED
      BY <1>5, <2>3, <2>5, <3>1, <3>2
  <2>6. QED
    BY <2>4, <2>5
<1>11. LettersOK'
  <2>1. \A s \in sentRows : s.box \in Boxes /\ IsRow(s.box) /\ letters[s.n] = 1
    BY <1>1 DEF CatalogInv, LettersOK, CatalogRows, MailSentMessage
  <2>2. \A s \in sentRows' : IsRow(s.box)' /\ letters'[s.n] = 1
    BY <1>4, <2>1
  <2>3. QED
    BY <1>1, <2>2 DEF CatalogInv, LettersOK
<1>12. NameIsDerived'
  <2>1. SUFFICES ASSUME NEW a \in Boxes \ shared, IsRow(a)'
                 PROVE  accounts'[a].name = build_display_name(accounts'[a].number, accounts'[a].app)
    BY DEF NameIsDerived
  <2>2. CASE a = b
    BY <2>1, <2>2
  <2>3. CASE a # b
    BY <2>1, <2>3 DEF CatalogInv, NameIsDerived, IsRow
  <2>4. QED
    BY <2>2, <2>3
<1>13. QED
  BY <1>2, <1>3, <1>7, <1>8, <1>9, <1>10, <1>11, <1>12 DEF CatalogInv

\* A consent is told, or never is.
LEMMA ConsentEnds ==
  ASSUME CatalogInv, NEW g \in consents, link_oauth_account(g) \/ ConsentExpires(g)
  PROVE  CatalogInv'
<1>1. PICK b : b = g.box
  OBVIOUS
<1>2. CatalogRows /\ g \in ConsentRow /\ b \in Boxes
  BY <1>1 DEF CatalogInv, CatalogRows, ConsentRow, link_oauth_account, ConsentExpires
<1>3. boxes[b] \in BoxRow
  <2>1. WorkedOn(b)
    BY <1>1 DEF WorkedOn
  <2>2. QED
    BY <1>2, <2>1 DEF CatalogInv, FreshOK, CatalogRows
<1>4. b \notin doubtful \cup shared => AliveAt(b) /\ (IsRow(b) => accounts[b].name = boxes[b].name)
  BY <1>1, <1>2 DEF CatalogInv, HalfwayOK
<1>5. /\ consents' = consents \ {g}
      /\ UNCHANGED <<boxes, mailTeams, calls, strays, letters, sentRows, mailBegun, shared>>
  BY DEF link_oauth_account, ConsentExpires
<1>6. ASSUME accounts' = accounts, doubtful' = doubtful \cup {b}
      PROVE  CatalogInv'
  <2>1. doubtful \subseteq doubtful' /\ doubtful' \subseteq Boxes /\ b \in doubtful'
    BY <1>2, <1>6 DEF CatalogRows
  <2>2. /\ accounts' \in [Boxes -> Account \cup {NoBox}]
        /\ \A a \in Boxes : IsRow(a)' => accounts'[a].team \in mailTeams \cup {NoTeam}
    BY <1>2, <1>6 DEF CatalogRows, IsRow
  <2>3. IsRow(b) => accounts'[b] # NoBox
    BY <1>6 DEF IsRow
  <2>4. b \notin shared /\ IsRow(b)' =>
          accounts'[b].name = build_display_name(accounts'[b].number, accounts'[b].app)
    BY <1>2, <1>6 DEF CatalogInv, NameIsDerived, IsRow
  <2>5. QED
    BY <1>1, <1>2, <1>5, <1>6, <2>1, <2>2, <2>3, <2>4, EndConsentKeeps
<1>7. CASE ConsentExpires(g) \/ ~Insertable(g.team)
  BY <1>1, <1>6, <1>7 DEF link_oauth_account, ConsentExpires
<1>8. CASE link_oauth_account(g) /\ Insertable(g.team)
  <2>1. accounts' = upsert_catalog(g) /\ doubtful' = doubtful
    BY <1>8 DEF link_oauth_account
  <2>2. PICK name \in Names : name = boxes[b].name
    BY <1>3 DEF BoxRow
  <2>3. PICK number \in MaybeNumber : number = parse_display_name(name).number
    BY NamesAreDerived
  <2>4. PICK app \in MaybeApp : app = parse_display_name(name).app
    BY NamesAreDerived
  <2>5. build_display_name(number, app) = name
    BY <2>3, <2>4, NamesAreDerived
  <2>6. PICK new : new = AccountRow(number, app, g.team)
    OBVIOUS
  <2>7. /\ new \in Account /\ new.number = number /\ new.app = app /\ new.name = name
        /\ new.team = g.team /\ g.team \in MaybeTeam
    BY <1>2, <2>5, <2>6, AccountRows DEF ConsentRow
  <2>8. PICK row : row = IF accounts[b] = NoBox THEN new ELSE [accounts[b] EXCEPT !.team = g.team]
    OBVIOUS
  <2>9. accounts' = [accounts EXCEPT ![b] = row]
    BY <1>1, <1>2, <2>1, <2>2, <2>3, <2>4, <2>6, <2>8 DEF upsert_catalog, CatalogRows
  <2>10. /\ row \in Account /\ row.team = g.team
         /\ IsRow(b) => row.number = accounts[b].number /\ row.app = accounts[b].app
                        /\ row.name = accounts[b].name
         /\ ~IsRow(b) => row.number = number /\ row.app = app /\ row.name = name
    <3>1. CASE accounts[b] = NoBox
      BY <2>7, <2>8, <3>1 DEF IsRow
    <3>2. CASE accounts[b] # NoBox
      <4>1. accounts[b] \in Account /\ row = [accounts[b] EXCEPT !.team = g.team]
        BY <1>2, <2>8, <3>2 DEF CatalogRows
      <4>2. QED
        BY <2>7, <3>2, <4>1 DEF Account, IsRow
    <3>3. QED
      BY <3>1, <3>2
  <2>11. /\ accounts' \in [Boxes -> Account \cup {NoBox}] /\ accounts'[b] = row /\ row # NoBox
         /\ \A a \in Boxes : a # b => accounts'[a] = accounts[a]
    BY <1>2, <2>9, <2>10, CatalogShapes DEF CatalogRows
  <2>12. \A a \in Boxes : IsRow(a)' => accounts'[a].team \in mailTeams \cup {NoTeam}
    BY <1>2, <1>8, <2>10, <2>11 DEF CatalogRows, IsRow, Insertable
  <2>13. ASSUME b \notin doubtful' \cup shared PROVE Follows(b)'
    <3>1. AliveAt(b) /\ (IsRow(b) => accounts[b].name = boxes[b].name)
      BY <1>4, <2>1, <2>13
    <3>2. row.name = boxes[b].name
      BY <2>2, <2>10, <3>1
    <3>3. QED
      BY <1>5, <2>11, <3>1, <3>2 DEF Follows, IsRow, AliveAt
  <2>14. b \notin shared /\ IsRow(b)' =>
           accounts'[b].name = build_display_name(accounts'[b].number, accounts'[b].app)
    <3>1. CASE IsRow(b)
      BY <1>2, <2>10, <2>11, <3>1 DEF CatalogInv, NameIsDerived
    <3>2. CASE ~IsRow(b)
      BY <2>5, <2>10, <2>11, <3>2
    <3>3. QED
      BY <3>1, <3>2
  <2>15. IsRow(b) => /\ accounts'[b] # NoBox /\ accounts'[b].number = accounts[b].number
                     /\ accounts'[b].app = accounts[b].app /\ accounts'[b].name = accounts[b].name
    BY <2>10, <2>11
  <2>16. doubtful \subseteq doubtful' /\ doubtful' \subseteq Boxes
    BY <1>2, <2>1 DEF CatalogRows
  <2>17. /\ accounts' \in [Boxes -> Account \cup {NoBox}]
         /\ \A a \in Boxes : a # b => accounts'[a] = accounts[a]
    BY <2>11
  <2>18. QED
    BY <1>1, <1>2, <1>5, <2>12, <2>13, <2>14, <2>15, <2>16, <2>17, EndConsentKeeps
<1>9. QED
  BY <1>7, <1>8

\* A consent is asked for.
LEMMA AuthorizeKeeps ==
  ASSUME CatalogInv, authorize_oauth
  PROVE  CatalogInv'
<1>1. PICK team \in mailTeams \cup {NoTeam} :
        consents' = consents \cup {[n |-> mailBegun + 1, team |-> team, box |-> 0]}
  BY DEF authorize_oauth
<1>2. /\ mailBegun < MaxMailCalls /\ mailBegun' = mailBegun + 1
      /\ UNCHANGED <<boxes, accounts, mailTeams, calls, strays, letters, sentRows, doubtful, shared>>
  BY DEF authorize_oauth, CountedCall
<1>3. PICK g : g = [n |-> mailBegun + 1, team |-> team, box |-> 0]
  OBVIOUS
<1>4. CatalogRows /\ Busy' = Busy /\ mailBegun \in Nat
  BY <1>2, MailCatalogAssumption DEF CatalogInv, CatalogRows, Busy
<1>5. g \in ConsentRow /\ g.n = mailBegun + 1 /\ g.box = 0 /\ consents' = consents \cup {g}
  <2>1. mailBegun + 1 \in Requested
    BY <1>2, <1>4, MailCatalogAssumption DEF CatalogRows, Requested
  <2>2. team \in MaybeTeam
    BY <1>4 DEF CatalogRows, MaybeTeam
  <2>3. QED
    BY <1>1, <1>3, <2>1, <2>2 DEF ConsentRow
<1>6. CatalogRows'
  <2>1. mailBegun' \in 0 .. MaxMailCalls
    BY <1>2, <1>4, MailCatalogAssumption
  <2>2. QED
    BY <1>2, <1>4, <1>5, <2>1 DEF CatalogRows, IsRow
<1>7. CallsOK'
  <2>1. ASSUME NEW d \in Busy
        PROVE  /\ calls[d].n = d /\ d <= mailBegun'
               /\ calls[d].box = 0 <=> calls[d].op = "create" /\ calls[d].at = "call"
               /\ calls[d].op = "create" /\ calls[d].at = "served" => calls[d].verdict = "ok"
    <3>1. d <= mailBegun /\ d \in Nat
      BY CatalogShapes DEF CatalogInv, CallsOK, Busy
    <3>2. QED
      BY <1>2, <1>4, <3>1 DEF CatalogInv, CallsOK
  <2>2. ASSUME NEW s \in strays
        PROVE  /\ s.at = "call" /\ s.n <= mailBegun' /\ s.n \notin Busy
               /\ s.box = 0 <=> s.op = "create"
               /\ s.box # 0 => s.box \in doubtful
    <3>1. s.n <= mailBegun /\ s.n \in Nat
      BY <1>4, CatalogShapes DEF CatalogInv, CallsOK, CatalogRows, RequestRow
    <3>2. QED
      BY <1>2, <1>4, <3>1 DEF CatalogInv, CallsOK
  <2>3. ASSUME NEW h \in consents' PROVE h.n <= mailBegun'
    <3>1. CASE h \in consents
      <4>1. h.n <= mailBegun /\ h.n \in Nat
        BY <1>4, <3>1, CatalogShapes DEF CatalogInv, CallsOK, CatalogRows, ConsentRow
      <4>2. QED
        BY <1>2, <1>4, <4>1
    <3>2. CASE h = g
      BY <1>2, <1>4, <1>5, <3>2
    <3>3. QED
      BY <1>5, <3>1, <3>2
  <2>4. QED
    BY <1>2, <1>4, <2>1, <2>2, <2>3 DEF CallsOK
<1>8. ASSUME NEW a \in Boxes PROVE WorkedOn(a)' <=> WorkedOn(a)
  <2>1. g.box # a
    BY <1>5, CatalogShapes
  <2>2. QED
    BY <1>2, <1>5, <2>1 DEF WorkedOn
<1>9. FreshOK'
  BY <1>2, <1>8 DEF CatalogInv, FreshOK, IsRow
<1>10. ASSUME NEW h \in consents', NEW a \in Boxes, h.box = a PROVE h \in consents
  BY <1>5, <1>10, CatalogShapes
<1>11. LoneOK'
  BY <1>2, <1>4, <1>10 DEF CatalogInv, LoneOK
<1>12. PatchOK'
  <2>1. SUFFICES ASSUME NEW d \in Busy PROVE PatchRow(calls[d])'
    BY <1>4 DEF PatchOK
  <2>2. PICK x : x = calls[d]
    OBVIOUS
  <2>3. PatchRow(x)' /\ calls'[d] = x
    BY <1>2, <2>2 DEF CatalogInv, PatchOK, PatchRow, IsRow
  <2>4. QED
    BY <2>3 DEF PatchRow, IsRow
<1>13. HalfwayOK'
  <2>1. SUFFICES ASSUME NEW a \in Boxes \ (doubtful \cup shared)
                 PROVE  /\ ~WorkedOn(a)' => Follows(a)'
                        /\ \A d \in Busy : calls'[d].box = a => Halfway(calls[d])'
                        /\ \A h \in consents' : h.box = a =>
                             AliveAt(a)' /\ (IsRow(a)' => accounts'[a].name = boxes'[a].name)
    BY <1>2, <1>4 DEF HalfwayOK
  <2>2. /\ ~WorkedOn(a) => Follows(a)
        /\ \A d \in Busy : calls[d].box = a => Halfway(calls[d])
        /\ \A h \in consents : h.box = a =>
             AliveAt(a) /\ (IsRow(a) => accounts[a].name = boxes[a].name)
    BY DEF CatalogInv, HalfwayOK
  <2>3. ASSUME NEW d \in Busy, calls'[d].box = a PROVE Halfway(calls[d])'
    <3>1. PICK x : x = calls[d]
      OBVIOUS
    <3>2. Halfway(x) /\ calls'[d] = x
      BY <1>2, <2>2, <2>3, <3>1
    <3>3. Halfway(x)'
      BY <1>2, <3>2 DEF Halfway, Follows, IsRow, AliveAt
    <3>4. QED
      BY <3>2, <3>3 DEF Halfway, Follows, IsRow, AliveAt
  <2>4. QED
    BY <1>2, <1>8, <1>10, <2>2, <2>3 DEF Follows, IsRow, AliveAt
<1>14. LettersOK'
  <2>1. \A n \in Requested : n > mailBegun' => letters'[n] = 0
    BY <1>2, <1>4, CatalogShapes DEF CatalogInv, LettersOK
  <2>2. QED
    BY <1>2, <1>4, <2>1 DEF CatalogInv, LettersOK, IsRow
<1>15. NameIsDerived'
  BY <1>2 DEF CatalogInv, NameIsDerived, IsRow
<1>16. QED
  BY <1>6, <1>7, <1>9, <1>11, <1>12, <1>13, <1>14, <1>15 DEF CatalogInv

\* The user consents: to a mailbox there is, or to a new one.
LEMMA ConsentKeeps ==
  ASSUME CatalogInv, NEW g \in consents, Consent(g)
  PROVE  CatalogInv'
<1>1. PICK b \in Boxes :
        /\ IF AliveAt(b) THEN UNCHANGED boxes
           ELSE /\ boxes[b] = NoBox
                /\ \E number \in MaybeNumber, app \in MaybeApp :
                     boxes' = [boxes EXCEPT ![b] = [state |-> "live",
                                                    name |-> build_display_name(number, app)]]
        /\ consents' = (consents \ {g}) \cup {[g EXCEPT !.box = b]}
        /\ shared' = IF WorkedOn(b) THEN shared \cup {b} ELSE shared
  BY DEF Consent, MaybeNumber, MaybeApp
<1>2. /\ g.box = 0
      /\ UNCHANGED <<accounts, mailTeams, calls, strays, letters, sentRows, mailBegun, doubtful>>
  BY DEF Consent
<1>3. CatalogRows /\ g \in ConsentRow /\ Busy' = Busy
  BY <1>2 DEF CatalogInv, CatalogRows, Busy
<1>4. PICK h : h = [g EXCEPT !.box = b]
  OBVIOUS
<1>5. h \in ConsentRow /\ h.box = b /\ h.n = g.n /\ consents' = (consents \ {g}) \cup {h}
  BY <1>1, <1>3, <1>4 DEF ConsentRow
<1>6. /\ boxes' \in [Boxes -> BoxRow \cup {NoBox}] /\ boxes'[b] # NoBox /\ AliveAt(b)'
      /\ \A a \in Boxes : a # b => boxes'[a] = boxes[a]
      /\ AliveAt(b) => boxes' = boxes
      /\ ~AliveAt(b) => boxes[b] = NoBox
  <2>1. CASE AliveAt(b)
    BY <1>1, <1>3, <2>1, CatalogShapes DEF AliveAt, CatalogRows
  <2>2. CASE ~AliveAt(b)
    <3>1. PICK number \in MaybeNumber, app \in MaybeApp :
            boxes' = [boxes EXCEPT ![b] = [state |-> "live", name |-> build_display_name(number, app)]]
      BY <1>1, <2>2
    <3>2. PICK row : row = [state |-> "live", name |-> build_display_name(number, app)]
      OBVIOUS
    <3>3. row \in BoxRow /\ row.state = "live" /\ row # NoBox
      BY <3>2, NamesAreDerived, CatalogShapes DEF BoxRow
    <3>4. boxes' = [boxes EXCEPT ![b] = row] /\ boxes[b] = NoBox
      BY <1>1, <2>2, <3>1, <3>2
    <3>5. QED
      BY <1>3, <2>2, <3>3, <3>4 DEF AliveAt, CatalogRows
  <2>3. QED
    BY <2>1, <2>2
<1>7. CatalogRows'
  <2>1. shared' \subseteq Boxes
    BY <1>1, <1>3 DEF CatalogRows
  <2>2. consents' \subseteq ConsentRow
    BY <1>3, <1>5 DEF CatalogRows
  <2>3. QED
    BY <1>2, <1>3, <1>6, <2>1, <2>2 DEF CatalogRows, IsRow
<1>8. CallsOK'
  <2>1. \A k \in consents' : k.n <= mailBegun'
    BY <1>2, <1>5 DEF CatalogInv, CallsOK
  <2>2. QED
    BY <1>2, <1>3, <2>1 DEF CatalogInv, CallsOK
<1>9. ASSUME NEW a \in Boxes, a # b PROVE WorkedOn(a)' <=> WorkedOn(a)
  <2>1. (\E k \in consents' : k.box = a) <=> (\E k \in consents : k.box = a)
    BY <1>2, <1>5, <1>9, CatalogShapes
  <2>2. QED
    BY <1>2, <2>1 DEF WorkedOn
<1>10. FreshOK'
  BY <1>2, <1>6, <1>9 DEF CatalogInv, FreshOK, IsRow
<1>11. ASSUME b \notin shared'
       PROVE  /\ ~WorkedOn(b) /\ (\A c \in Busy : calls[c].box # b)
              /\ \A k \in consents : k.box # b
  <2>1. ~WorkedOn(b)
    BY <1>1, <1>11
  <2>2. QED
    BY <2>1 DEF WorkedOn, Busy
<1>12. shared \subseteq shared'
  BY <1>1
<1>13. LoneOK'
  <2>1. ASSUME NEW a \in Boxes \ shared'
        PROVE  /\ \A d, e \in Busy : calls[d].box = a /\ calls[e].box = a => d = e
               /\ \A k, m \in consents' : k.box = a /\ m.box = a => k = m
               /\ \A d \in Busy, k \in consents' : ~(calls[d].box = a /\ k.box = a)
    <3>1. /\ \A d, e \in Busy : calls[d].box = a /\ calls[e].box = a => d = e
          /\ \A k, m \in consents : k.box = a /\ m.box = a => k = m
          /\ \A d \in Busy, k \in consents : ~(calls[d].box = a /\ k.box = a)
      BY <1>12 DEF CatalogInv, LoneOK
    <3>2. CASE a = b
      BY <1>5, <1>11, <3>1, <3>2
    <3>3. CASE a # b
      BY <1>5, <3>1, <3>3
    <3>4. QED
      BY <3>2, <3>3
  <2>2. QED
    BY <1>2, <1>3, <2>1 DEF LoneOK
<1>14. PatchOK'
  <2>1. SUFFICES ASSUME NEW d \in Busy PROVE PatchRow(calls[d])'
    BY <1>3 DEF PatchOK
  <2>2. PICK x : x = calls[d]
    OBVIOUS
  <2>3. PatchRow(x)' /\ calls'[d] = x
    BY <1>2, <1>12, <2>2 DEF CatalogInv, PatchOK, PatchRow, IsRow
  <2>4. QED
    BY <2>3 DEF PatchRow, IsRow
<1>15. HalfwayOK'
  <2>1. SUFFICES ASSUME NEW a \in Boxes \ (doubtful' \cup shared')
                 PROVE  /\ ~WorkedOn(a)' => Follows(a)'
                        /\ \A d \in Busy : calls'[d].box = a => Halfway(calls[d])'
                        /\ \A k \in consents' : k.box = a =>
                             AliveAt(a)' /\ (IsRow(a)' => accounts'[a].name = boxes'[a].name)
    BY <1>3 DEF HalfwayOK
  <2>2. a \in Boxes \ (doubtful \cup shared)
    BY <1>2, <1>12
  <2>3. /\ ~WorkedOn(a) => Follows(a)
        /\ \A d \in Busy : calls[d].box = a => Halfway(calls[d])
        /\ \A k \in consents : k.box = a =>
             AliveAt(a) /\ (IsRow(a) => accounts[a].name = boxes[a].name)
    BY <2>2 DEF CatalogInv, HalfwayOK
  <2>4. CASE a = b
    <3>1. WorkedOn(a)'
      BY <1>5, <2>4 DEF WorkedOn
    <3>2. \A d \in Busy : calls'[d].box # a
      BY <1>2, <1>11, <2>1, <2>4
    <3>3. IsRow(a)' => accounts'[a].name = boxes'[a].name
      <4>1. CASE AliveAt(b)
        <5>1. Follows(b)
          BY <1>11, <2>1, <2>3, <2>4
        <5>2. QED
          BY <1>2, <1>6, <2>4, <4>1, <5>1 DEF Follows, IsRow
      <4>2. CASE ~AliveAt(b)
        BY <1>2, <1>6, <2>4, <4>2 DEF CatalogInv, FreshOK, IsRow
      <4>3. QED
        BY <4>1, <4>2
    <3>4. QED
      BY <1>6, <2>4, <3>1, <3>2, <3>3
  <2>5. CASE a # b
    <3>1. /\ Follows(a)' <=> Follows(a)
          /\ AliveAt(a)' <=> AliveAt(a)
          /\ IsRow(a)' <=> IsRow(a)
          /\ boxes'[a] = boxes[a] /\ accounts' = accounts
      BY <1>2, <1>6, <2>5 DEF Follows, IsRow, AliveAt
    <3>2. ASSUME NEW d \in Busy, calls'[d].box = a PROVE Halfway(calls[d])'
      <4>1. PICK x : x = calls[d]
        OBVIOUS
      <4>2. Halfway(x) /\ calls'[d] = x /\ x.box = a
        BY <1>2, <2>3, <3>2, <4>1
      <4>3. Halfway(x)'
        BY <1>2, <1>6, <2>5, <4>2 DEF Halfway, Follows, IsRow, AliveAt
      <4>4. QED
        BY <4>2, <4>3 DEF Halfway, Follows, IsRow, AliveAt
    <3>3. \A k \in consents' : k.box = a => k \in consents
      BY <1>5, <2>5
    <3>4. QED
      BY <1>9, <2>3, <2>5, <3>1, <3>2, <3>3
  <2>6. QED
    BY <2>4, <2>5
<1>16. LettersOK'
  BY <1>2, <1>3 DEF CatalogInv, LettersOK, IsRow
<1>17. NameIsDerived'
  BY <1>2, <1>12 DEF CatalogInv, NameIsDerived, IsRow
<1>18. QED
  BY <1>7, <1>8, <1>10, <1>13, <1>14, <1>15, <1>16, <1>17 DEF CatalogInv

\* A team goes: no name and no number changes.
LEMMA DropMailTeamKeeps ==
  ASSUME CatalogInv, NEW t \in MailTeams, DropMailTeam(t)
  PROVE  CatalogInv'
<1>1. /\ mailTeams' = mailTeams \ {t}
      /\ accounts' = [b \in Boxes |-> IF IsRow(b) /\ accounts[b].team = t
                                      THEN [accounts[b] EXCEPT !.team = NoTeam] ELSE accounts[b]]
      /\ UNCHANGED <<boxes, calls, strays, consents, letters, sentRows, mailBegun, doubtful, shared>>
  BY DEF DropMailTeam
<1>2. CatalogRows /\ Busy' = Busy
  BY <1>1 DEF CatalogInv, Busy
<1>3. ASSUME NEW b \in Boxes
      PROVE  /\ accounts'[b] \in Account \cup {NoBox} /\ (IsRow(b)' <=> IsRow(b))
             /\ IsRow(b) => /\ accounts'[b].number = accounts[b].number
                            /\ accounts'[b].app = accounts[b].app
                            /\ accounts'[b].name = accounts[b].name
                            /\ accounts'[b].team \in mailTeams' \cup {NoTeam}
  <2>1. CASE ~IsRow(b)
    BY <1>1, <1>2, <2>1 DEF IsRow, CatalogRows
  <2>2. CASE IsRow(b)
    <3>1. PICK old : old = accounts[b]
      OBVIOUS
    <3>2. old \in Account /\ old.team \in mailTeams \cup {NoTeam}
      BY <1>2, <2>2, <3>1 DEF CatalogRows, IsRow
    <3>3. accounts'[b] = IF old.team = t THEN [old EXCEPT !.team = NoTeam] ELSE old
      BY <1>1, <2>2, <3>1
    <3>4. NoTeam \in MaybeTeam
      BY DEF MaybeTeam
    <3>5. /\ accounts'[b] \in Account /\ accounts'[b].number = old.number
          /\ accounts'[b].app = old.app /\ accounts'[b].name = old.name
          /\ accounts'[b].team = IF old.team = t THEN NoTeam ELSE old.team
      BY <3>2, <3>3, <3>4 DEF Account
    <3>6. IsRow(b)'
      BY <3>5, CatalogShapes DEF IsRow
    <3>7. QED
      BY <1>1, <2>2, <3>1, <3>2, <3>5, <3>6
  <2>3. QED
    BY <2>1, <2>2
<1>4. CatalogRows'
  <2>1. accounts' \in [Boxes -> Account \cup {NoBox}]
    BY <1>1, <1>3
  <2>2. QED
    BY <1>1, <1>2, <1>3, <2>1 DEF CatalogRows
<1>5. CallsOK'
  BY <1>1, <1>2 DEF CatalogInv, CallsOK
<1>6. \A b \in Boxes : WorkedOn(b)' <=> WorkedOn(b)
  BY <1>1 DEF WorkedOn
<1>7. FreshOK'
  BY <1>1, <1>3, <1>6 DEF CatalogInv, FreshOK
<1>8. LoneOK'
  BY <1>1, <1>2 DEF CatalogInv, LoneOK
<1>9. PatchOK'
  <2>1. SUFFICES ASSUME NEW d \in Busy PROVE PatchRow(calls[d])'
    BY <1>2 DEF PatchOK
  <2>2. PICK x : x = calls[d]
    OBVIOUS
  <2>3. PatchRow(x) /\ calls'[d] = x /\ (x.op = "patch" => x.box \in Boxes)
    BY <1>1, <1>2, <2>2 DEF CatalogInv, PatchOK, CallsOK, CatalogRows, RequestRow, Busy
  <2>4. PatchRow(x)'
    BY <1>1, <1>3, <2>3 DEF PatchRow
  <2>5. QED
    BY <2>3, <2>4 DEF PatchRow, IsRow
<1>10. HalfwayOK'
  <2>1. SUFFICES ASSUME NEW a \in Boxes \ (doubtful \cup shared)
                 PROVE  /\ ~WorkedOn(a)' => Follows(a)'
                        /\ \A d \in Busy : calls'[d].box = a => Halfway(calls[d])'
                        /\ \A k \in consents' : k.box = a =>
                             AliveAt(a)' /\ (IsRow(a)' => accounts'[a].name = boxes'[a].name)
    BY <1>1, <1>2 DEF HalfwayOK
  <2>2. /\ ~WorkedOn(a) => Follows(a)
        /\ \A d \in Busy : calls[d].box = a => Halfway(calls[d])
        /\ \A k \in consents : k.box = a =>
             AliveAt(a) /\ (IsRow(a) => accounts[a].name = boxes[a].name)
    BY DEF CatalogInv, HalfwayOK
  <2>3. /\ AliveAt(a)' <=> AliveAt(a)
        /\ IsRow(a)' <=> IsRow(a)
        /\ IsRow(a) => accounts'[a].name = accounts[a].name
        /\ boxes' = boxes
    BY <1>1, <1>3 DEF AliveAt
  <2>4. Follows(a)' <=> Follows(a)
    BY <2>3 DEF Follows
  <2>5. ASSUME NEW d \in Busy, calls'[d].box = a PROVE Halfway(calls[d])'
    <3>1. PICK x : x = calls[d]
      OBVIOUS
    <3>2. Halfway(x) /\ calls'[d] = x /\ x.box = a
      BY <1>1, <2>2, <2>5, <3>1
    <3>3. Halfway(x)'
      BY <2>3, <2>4, <3>2 DEF Halfway
    <3>4. QED
      BY <3>2, <3>3 DEF Halfway, Follows, IsRow, AliveAt
  <2>6. QED
    BY <1>1, <1>6, <2>2, <2>3, <2>4, <2>5
<1>11. LettersOK'
  <2>1. \A s \in sentRows : s.box \in Boxes
    BY <1>2 DEF CatalogRows, MailSentMessage
  <2>2. QED
    BY <1>1, <1>2, <1>3, <2>1 DEF CatalogInv, LettersOK
<1>12. NameIsDerived'
  <2>1. SUFFICES ASSUME NEW a \in Boxes \ shared, IsRow(a)'
                 PROVE  accounts'[a].name = build_display_name(accounts'[a].number, accounts'[a].app)
    BY <1>1 DEF NameIsDerived
  <2>2. IsRow(a) /\ accounts[a].name = build_display_name(accounts[a].number, accounts[a].app)
    BY <1>3, <2>1 DEF CatalogInv, NameIsDerived
  <2>3. QED
    BY <1>3, <2>2
<1>13. QED
  BY <1>4, <1>5, <1>7, <1>8, <1>9, <1>10, <1>11, <1>12 DEF CatalogInv

\* The catalogue begins with one mailbox, known under the name of its row, and nobody
\* works on it.
LEMMA CatalogInitInv == CatalogInit => CatalogInv
<1> SUFFICES ASSUME CatalogInit PROVE CatalogInv
  OBVIOUS
<1>1. /\ AMailTeam \in MailTeams /\ ANumber \in Numbers /\ ANumber # NoName
      /\ ANumber \in MaybeNumber /\ NoName \in MaybeApp /\ AMailTeam \in MaybeTeam
  BY MailCatalogAssumption DEF AMailTeam, ANumber, MaybeNumber, MaybeApp, MaybeTeam
<1>2. build_display_name(ANumber, NoName) = <<ANumber>> /\ <<ANumber>> \in Names
  BY <1>1 DEF build_display_name, Names
<1>3. PICK row : /\ row = AccountRow(ANumber, NoName, AMailTeam) /\ row \in Account
                 /\ row.number = ANumber /\ row.app = NoName /\ row.name = <<ANumber>>
                 /\ row.team = AMailTeam /\ row # NoBox
  <2>1. NoName \in MaybeApp
    BY <1>1
  <2>2. QED
    BY <1>1, <1>2, AccountRows, CatalogShapes
<1>4. PICK box : /\ box = [state |-> "live", name |-> <<ANumber>>] /\ box \in BoxRow
                 /\ box.state = "live" /\ box.name = <<ANumber>> /\ box # NoBox
  <2>1. PICK name \in Names : name = <<ANumber>>
    BY <1>2
  <2>2. [state |-> "live", name |-> name] \in BoxRow
    BY DEF BoxRow
  <2>3. PICK box \in BoxRow : box = [state |-> "live", name |-> name]
    BY <2>2
  <2>4. box.state = "live" /\ box.name = name /\ box # NoBox
    BY <2>3, CatalogShapes
  <2>5. QED
    BY <2>1, <2>3, <2>4
<1>5. /\ \A b \in Boxes : accounts[b] = IF b = 1 THEN row ELSE NoBox
      /\ \A b \in Boxes : boxes[b] = IF b = 1 THEN box ELSE NoBox
      /\ accounts \in [Boxes -> Account \cup {NoBox}] /\ boxes \in [Boxes -> BoxRow \cup {NoBox}]
  BY <1>3, <1>4 DEF CatalogInit
<1>6. /\ mailTeams = MailTeams /\ calls = [c \in Requested |-> Free] /\ strays = {}
      /\ consents = {} /\ letters = [n \in Requested |-> 0] /\ sentRows = {}
      /\ mailBegun = 0 /\ doubtful = {} /\ shared = {}
  BY DEF CatalogInit
<1>7. Busy = {} /\ \A b \in Boxes : ~WorkedOn(b)
  BY <1>6 DEF Busy, WorkedOn
<1>8. CatalogRows
  <2>1. mailBegun \in 0 .. MaxMailCalls
    BY <1>6, MailCatalogAssumption
  <2>2. \A b \in Boxes : IsRow(b) => accounts[b].team \in mailTeams \cup {NoTeam}
    BY <1>1, <1>3, <1>5, <1>6 DEF IsRow
  <2>3. QED
    BY <1>5, <1>6, <2>1, <2>2 DEF CatalogRows
<1>9. CallsOK /\ LoneOK /\ PatchOK /\ LettersOK
  BY <1>6, <1>7 DEF CallsOK, LoneOK, PatchOK, LettersOK
<1>10. \A b \in Boxes : /\ IsRow(b) <=> b = 1
                        /\ AliveAt(b) <=> b = 1
                        /\ b = 1 => accounts[b].name = boxes[b].name
  BY <1>3, <1>4, <1>5, CatalogShapes DEF IsRow, AliveAt
<1>11. FreshOK
  BY <1>4, <1>5, <1>7, <1>10 DEF FreshOK
<1>12. HalfwayOK
  BY <1>6, <1>7, <1>10 DEF HalfwayOK, Follows
<1>13. NameIsDerived
  BY <1>2, <1>3, <1>5, <1>10 DEF NameIsDerived
<1>14. QED
  BY <1>8, <1>9, <1>11, <1>12, <1>13 DEF CatalogInv

\* Where nothing of the catalogue moves, what holds of it goes on.
LEMMA CatalogStays ==
  ASSUME CatalogInv, UNCHANGED catalogVars
  PROVE  CatalogInv'
<1>1. /\ boxes' = boxes /\ accounts' = accounts /\ mailTeams' = mailTeams /\ calls' = calls
      /\ strays' = strays /\ consents' = consents /\ letters' = letters /\ sentRows' = sentRows
      /\ mailBegun' = mailBegun /\ doubtful' = doubtful /\ shared' = shared
  BY DEF catalogVars
<1>2. /\ Busy' = Busy
      /\ \A b \in Boxes : /\ IsRow(b)' <=> IsRow(b)
                          /\ AliveAt(b)' <=> AliveAt(b)
                          /\ WorkedOn(b)' <=> WorkedOn(b)
                          /\ Follows(b)' <=> Follows(b)
  BY <1>1 DEF Busy, IsRow, AliveAt, WorkedOn, Follows
<1>3. CatalogRows' /\ CallsOK' /\ FreshOK' /\ LoneOK' /\ LettersOK' /\ NameIsDerived'
  <2>1. CatalogRows' /\ NameIsDerived'
    BY <1>1 DEF CatalogInv, CatalogRows, NameIsDerived, IsRow
  <2>2. CallsOK' /\ LoneOK'
    BY <1>1, <1>2 DEF CatalogInv, CallsOK, LoneOK
  <2>3. FreshOK'
    BY <1>1, <1>2 DEF CatalogInv, FreshOK
  <2>4. LettersOK'
    BY <1>1, <1>2 DEF CatalogInv, LettersOK, IsRow
  <2>5. QED
    BY <2>1, <2>2, <2>3, <2>4
<1>4. ASSUME NEW c \in Busy' PROVE PatchRow(calls[c])'
  <2>1. PICK r : r = calls[c]
    OBVIOUS
  <2>2. PatchRow(r) /\ calls'[c] = r
    BY <1>1, <1>2, <1>4, <2>1 DEF CatalogInv, PatchOK
  <2>3. PatchRow(r)'
    BY <1>1, <2>2 DEF PatchRow, IsRow
  <2>4. QED
    BY <2>2, <2>3 DEF PatchRow, IsRow
<1>5. ASSUME NEW b \in Boxes \ (doubtful \cup shared)', NEW c \in Busy', calls'[c].box = b
      PROVE  Halfway(calls[c])'
  <2>1. PICK r : r = calls[c]
    OBVIOUS
  <2>2. Halfway(r) /\ calls'[c] = r
    BY <1>1, <1>2, <1>5, <2>1 DEF CatalogInv, HalfwayOK
  <2>3. Halfway(r)'
    BY <1>1, <2>2 DEF Halfway, Follows, IsRow, AliveAt
  <2>4. QED
    BY <2>2, <2>3 DEF Halfway, Follows, IsRow, AliveAt
<1>6. HalfwayOK'
  <2>1. ASSUME NEW b \in Boxes \ (doubtful \cup shared)'
        PROVE  /\ ~WorkedOn(b)' => Follows(b)'
               /\ \A g \in consents' : g.box = b =>
                    AliveAt(b)' /\ (IsRow(b)' => accounts'[b].name = boxes'[b].name)
    BY <1>1, <1>2, <2>1 DEF CatalogInv, HalfwayOK
  <2>2. QED
    BY <1>5, <2>1 DEF HalfwayOK
<1>7. QED
  BY <1>3, <1>4, <1>6 DEF CatalogInv, PatchOK

\* Every request, call, consent and deletion keeps what holds of the catalogue.
LEMMA CatalogSteps == CatalogInv /\ [CatalogNext]_catalogVars => CatalogInv'
<1> SUFFICES ASSUME CatalogInv, [CatalogNext]_catalogVars PROVE CatalogInv'
  OBVIOUS
<1>1. CASE create_mailbox \/ \E b \in Boxes : update_mailbox(b) \/ delete_mailbox(b)
                                              \/ sync_mailbox(b) \/ compose(b)
  BY <1>1, RequestsKeep
<1>2. ASSUME NEW c \in Requested, calls[c] # Free, MailStep(c) PROVE CatalogInv'
  <2>1. c \in Busy
    BY <1>2 DEF Busy
  <2>2. CASE ServeCall(c)
    BY <2>1, <2>2, ServeCallKeeps
  <2>3. CASE CallFails(c) \/ Missing(c) \/ CommitFails(c)
    BY <2>1, <2>3, FailuresKeep
  <2>4. CASE FinishCreateMailbox(c) \/ InsertFails(c)
    BY <2>1, <2>4, CreateKeeps
  <2>5. CASE FinishUpdateMailbox(c)
    BY <2>1, <2>5, UpdateMailboxKeeps
  <2>6. CASE FinishDeleteMailbox(c) \/ FinishSend(c) \/ FinishSync(c)
    BY <2>1, <2>6, FinishesKeep
  <2>7. QED
    BY <1>2, <2>2, <2>3, <2>4, <2>5, <2>6 DEF MailStep
<1>3. ASSUME NEW r \in strays, ServeStray(r) PROVE CatalogInv'
  BY <1>3, ServeStrayKeeps
<1>4. ASSUME NEW g \in consents, Consent(g) \/ link_oauth_account(g) \/ ConsentExpires(g)
      PROVE  CatalogInv'
  <2>1. CASE Consent(g)
    BY <2>1, ConsentKeeps
  <2>2. CASE link_oauth_account(g) \/ ConsentExpires(g)
    BY <2>2, ConsentEnds
  <2>3. QED
    BY <1>4, <2>1, <2>2
<1>5. CASE authorize_oauth
  BY <1>5, AuthorizeKeeps
<1>6. ASSUME NEW t \in MailTeams, DropMailTeam(t) PROVE CatalogInv'
  BY <1>6, DropMailTeamKeeps
<1>7. CASE UNCHANGED catalogVars
  BY <1>7, CatalogStays
<1>8. QED
  BY <1>1, <1>2, <1>3, <1>4, <1>5, <1>6, <1>7 DEF CatalogNext

\* What the properties of the catalogue take from the invariant.
LEMMA CatalogInvHolds == CatalogInv => CatalogHolds
<1> SUFFICES ASSUME CatalogInv PROVE CatalogHolds
  OBVIOUS
<1>1. CatalogTypeOK
  BY DEF CatalogInv, CatalogRows, LettersOK, CatalogTypeOK
<1>2. CatalogFollows
  BY DEF CatalogInv, HalfwayOK, Follows, CatalogFollows
<1>3. LetterGoesOnce
  <2>1. \A n \in DOMAIN letters : letters[n] <= 1
    BY DEF CatalogInv, CatalogRows
  <2>2. QED
    BY <2>1 DEF CatalogInv, LettersOK, LetterGoesOnce
<1>4. QED
  BY <1>1, <1>2, <1>3 DEF CatalogInv, CatalogHolds

\* The catalogue and the aggregator hold the same mailboxes under the same names but
\* where an answer or a commit was lost or two requests met, a letter goes out once at
\* most and is listed only when it has gone, and a name is made of its row's parts
\* (create_mailbox, update_mailbox, delete_mailbox, compose, link_oauth_account).
THEOREM CatalogCorrect == CatalogSpec => []CatalogHolds
<1> QED
  BY CatalogInitInv, CatalogSteps, CatalogInvHolds, PTL DEF CatalogSpec

\* Elsewhere the mailboxes stay as they are.
LEMMA CatalogOfCatalogues ==
  /\ CataloguesInit => CatalogInv
  /\ CatalogInv /\ [CataloguesNext]_cataloguesVars => CatalogInv'
<1>1. CataloguesInit => CatalogInv
  BY CatalogInitInv DEF CataloguesInit
<1>2. [CataloguesNext]_cataloguesVars => [CatalogNext]_catalogVars
  BY DEF CataloguesNext, cataloguesVars
<1>3. QED
  BY <1>1, <1>2, CatalogSteps

\* The same of the catalogues as a whole: mailboxes, and what leaves through them.
THEOREM CatalogueMailboxes == CataloguesSpec => []MailboxesHold
<1>1. CatalogInv => MailboxesHold
  BY CatalogInvHolds DEF MailboxesHold
<1>2. QED
  BY <1>1, CatalogOfCatalogues, PTL DEF CataloguesSpec
=============================================================================
