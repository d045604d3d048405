------------------------ MODULE BackendUsersSnapshot ------------------------
(***************************************************************************)
(* The snapshot of one backend's users                                     *)
(* (services/backend_users_snapshot_service.py and its repository): the    *)
(* worker walks the backend's list page by page, upserts what changed,     *)
(* deletes what it did not meet, asks for the cards of users who spent,    *)
(* and records how the cycle ended; the console grants tokens at the       *)
(* backend and touches the row afterwards (backend_user_service.py).       *)
(*                                                                         *)
(* The list belongs to the backend: users appear at its head, vanish and   *)
(* spend while the worker is in the middle of it.  A user is a number,     *)
(* larger when registered later; a fingerprint is how often he has spent   *)
(* and been granted tokens; a cost is the spending the card showed.  A     *)
(* backend of the first contract shows none; it may be upgraded.           *)
(* Statistics and names of providers are left out.                         *)
(***************************************************************************)
EXTENDS Integers, Sequences, FiniteSets, Functions

CONSTANTS
  SnapUsers,           \* identifiers of users at the backend
  PageLimit,           \* _SOURCE_PAGE_LIMIT
  RevenueBatch,        \* BACKEND_USERS_SNAPSHOT_REVENUE_BATCH
  MaxSourceSteps,      \* bound on what happens to users at the backend
  MaxSnapTrouble       \* bound on failed requests, broken pages and crashes

ASSUME SnapshotAssumption ==
  /\ SnapUsers \subseteq Nat \ {0} /\ IsFiniteSet(SnapUsers)
  /\ PageLimit \in Nat \ {0} /\ RevenueBatch \in Nat \ {0}
  /\ MaxSourceSteps \in Nat /\ MaxSnapTrouble \in Nat

VARIABLES
  list,            \* the backend's users, the newest first
  usage,           \* what each user has spent and been granted
  revenue,         \* the cards show what users cost
  rows,            \* the rows of the snapshot
  worker,          \* where the cycle is
  touches,         \* rows the console is about to touch
  source,          \* the row of the source: how the last cycle ended
  cutShort,        \* the last cycle was cut short by a crash
  sourceSteps,     \* changes at the backend so far
  snapTrouble      \* failures so far

snapshotVars == <<list, usage, revenue, rows, worker, touches, source, cutShort,
                  sourceSteps, snapTrouble>>
steadyVars == <<revenue, cutShort>>

\* The tables: a row with its fingerprint and its cost; how the last cycle ended.
BackendUserSnapshot == [fp : Nat \X Nat, cost : Int]
BackendUserSnapshotSource == [fresh : BOOLEAN, failed : BOOLEAN, done : BOOLEAN,
                              supported : {"unknown", "yes", "no"}, costs : Nat]

NotPriced == 0
NoRevenue == -1
NoRow == [fp |-> <<0, 0>>, cost |-> NotPriced]
Resting == [at |-> "rest"]

Listed(u) == rows[u] # NoRow
AtSource == Range(list)
Unpriced == {u \in SnapUsers : Listed(u) /\ rows[u].cost = NotPriced}

Smallest(S, n) == {u \in S : Cardinality({v \in S : v < u}) < n}
Newest(S, n) == {u \in S : Cardinality({v \in S : v > u}) < n}

-----------------------------------------------------------------------------
(* The backend.                                                            *)

Happens == sourceSteps < MaxSourceSteps /\ sourceSteps' = sourceSteps + 1

NewUser ==
  /\ Happens
  /\ \E u \in SnapUsers :
       /\ usage[u] = <<0, 0>> /\ \A v \in SnapUsers : v < u => usage[v] # <<0, 0>>
       /\ list' = <<u>> \o list /\ usage' = [usage EXCEPT ![u] = <<1, 0>>]
  /\ UNCHANGED <<rows, worker, touches, source, snapTrouble, steadyVars>>

DropUser(u) ==
  /\ Happens
  /\ \E i \in DOMAIN list : list[i] = u
       /\ list' = SubSeq(list, 1, i - 1) \o SubSeq(list, i + 1, Len(list))
  /\ worker' = IF worker.at \in {"walk", "write"} THEN [worker EXCEPT !.shrunk = TRUE] ELSE worker
  /\ UNCHANGED <<usage, rows, touches, source, snapTrouble, steadyVars>>

Spend(u) ==
  /\ u \in AtSource /\ Happens
  /\ usage' = [usage EXCEPT ![u][1] = @ + 1]
  /\ UNCHANGED <<list, rows, worker, touches, source, snapTrouble, steadyVars>>

\* The backend is redeployed with the next contract.
Upgrade ==
  /\ ~revenue /\ Happens
  /\ revenue' = TRUE
  /\ UNCHANGED <<list, usage, rows, worker, touches, source, cutShort, snapTrouble>>

\* add_tokens, grant_subscription: done at the backend, answered with the new
\* balance; only then the row is touched.
Grant(u) ==
  /\ u \in AtSource /\ Happens
  /\ usage' = [usage EXCEPT ![u][2] = @ + 1]
  /\ touches' = touches \cup {[user |-> u, fp |-> usage'[u]]}
  /\ UNCHANGED <<list, rows, worker, source, snapTrouble, steadyVars>>

\* touch_row: a row that is not there is none of its business, and a touch
\* that fails does not undo the grant.
_touch_snapshot(t) ==
  /\ touches' = touches \ {t}
  /\ \/ rows' = IF Listed(t.user) THEN [rows EXCEPT ![t.user].fp = t.fp] ELSE rows
     \/ UNCHANGED rows
  /\ UNCHANGED <<list, usage, worker, source, sourceSteps, snapTrouble, steadyVars>>

-----------------------------------------------------------------------------
(* The cycle.                                                              *)

\* The fingerprints of all rows, read once; the session is closed.
BeginCycle ==
  /\ worker = Resting
  /\ worker' = [at |-> "walk", known |-> [u \in SnapUsers |-> rows[u].fp], offset |-> 0,
                tracked |-> {}, dirty |-> {}, shrunk |-> FALSE, repeated |-> FALSE]
  /\ UNCHANGED <<list, usage, rows, touches, source, sourceSteps, snapTrouble, steadyVars>>

_record_failure == worker' = Resting /\ source' = [source EXCEPT !.failed = TRUE]

SnapTrouble == snapTrouble < MaxSnapTrouble /\ snapTrouble' = snapTrouble + 1

\* Fault: the page that repeats is taken for the end of the list.
StalledIsEnd == worker' = [worker EXCEPT !.at = "delete"] /\ UNCHANGED source

\* incomplete: the walk did not get to the end, and nothing may be deleted.
Stalled == _record_failure

\* A page of the list as it is now; with a broken offset, the first page again.
list_users(offset) ==
  LET end == offset + PageLimit IN
    SubSeq(list, offset + 1, IF end < Len(list) THEN end ELSE Len(list))

Changed(users) == {u \in users : worker.known[u] # usage[u]}

\* _walk_users, up to the write, of the page a backend gives for an offset.  An
\* empty page is the end; a page without a new user means that the backend
\* repeats itself, and the walk is void.
TakePage(offset) ==
  LET page == list_users(offset)
      fresh == Range(page) \ worker.tracked
      changed == Changed(fresh)
  IN /\ \/ /\ page = <<>>
           /\ worker' = [worker EXCEPT !.at = "delete"] /\ UNCHANGED source
        \/ page # <<>> /\ fresh = {} /\ Stalled
        \/ /\ fresh # {}
           /\ worker' = [at |-> "write", known |-> worker.known,
                         offset |-> worker.offset + Len(page),
                         tracked |-> worker.tracked \cup fresh,
                         dirty |-> worker.dirty \cup changed,
                         shrunk |-> worker.shrunk,
                         repeated |-> worker.repeated \/ offset # worker.offset,
                         page |-> [u \in changed |-> usage[u]], last |-> Len(page) < PageLimit]
           /\ UNCHANGED source
     /\ UNCHANGED <<list, usage, rows, touches, sourceSteps, steadyVars>>

_walk_users ==
  /\ worker.at = "walk"
  /\ \/ TakePage(worker.offset) /\ UNCHANGED snapTrouble
     \/ SnapTrouble /\ TakePage(0)

\* upsert_rows: the columns of the list, never those of the cost.
upsert_rows ==
  /\ worker.at = "write"
  /\ rows' = [u \in SnapUsers |->
       IF u \in DOMAIN worker.page THEN [rows[u] EXCEPT !.fp = worker.page[u]] ELSE rows[u]]
  /\ worker' = [at |-> IF worker.last THEN "delete" ELSE "walk", known |-> worker.known,
                offset |-> worker.offset, tracked |-> worker.tracked, dirty |-> worker.dirty,
                shrunk |-> worker.shrunk, repeated |-> worker.repeated]
  /\ UNCHANGED <<list, usage, touches, source, sourceSteps, snapTrouble, steadyVars>>

\* delete_rows: the rows known at the start and not met in the walk.
delete_rows ==
  /\ worker.at = "delete"
  /\ rows' = [u \in SnapUsers |->
       IF worker.known[u] # <<0, 0>> /\ u \notin worker.tracked THEN NoRow ELSE rows[u]]
  /\ worker' = [at |-> "stats", dirty |-> worker.dirty]
  /\ UNCHANGED <<list, usage, touches, source, sourceSteps, snapTrouble, steadyVars>>

\* get_stats, then the cards to ask for: users who changed, up to the quota,
\* and what is left of it for rows never priced, the newest first.
get_stats ==
  /\ worker.at = "stats"
  /\ LET asked == Smallest(worker.dirty, RevenueBatch)
         backfill == Newest(Unpriced, RevenueBatch - Cardinality(asked))
     IN worker' = [at |-> "revenue", dirty |-> worker.dirty, asked |-> asked,
                   todo |-> asked \cup (backfill \ worker.dirty), complete |-> TRUE,
                   supported |-> "unknown"]
  /\ UNCHANGED <<list, usage, rows, touches, source, sourceSteps, snapTrouble, steadyVars>>

NextCard == LET ofChanged == worker.todo \cap worker.asked IN
  IF ofChanged # {} THEN Smallest(ofChanged, 1) ELSE Newest(worker.todo, 1)

\* set_revenue: the row leaves the queue whether the card shows a cost or not.
set_revenue(u) ==
  [rows EXCEPT ![u].cost = IF revenue THEN usage[u][1] ELSE NoRevenue]

\* The first card of the cycle tells whether the backend shows costs.
SupportedBy == IF worker.supported # "unknown" THEN worker.supported
               ELSE IF revenue THEN "yes" ELSE "no"

\* _fetch_detail: a card that is missing or unusable is passed over, any other
\* failure ends the phase.
FetchCard(u) ==
  /\ worker.at = "revenue" /\ u \in NextCard
  /\ \/ /\ Listed(u) /\ u \in AtSource
        /\ rows' = set_revenue(u)
        /\ worker' = [worker EXCEPT !.todo = @ \ {u}, !.supported = SupportedBy]
        /\ UNCHANGED snapTrouble
     \/ /\ ~(Listed(u) /\ u \in AtSource)
        /\ worker' = [worker EXCEPT !.todo = @ \ {u}] /\ UNCHANGED <<rows, snapTrouble>>
     \/ SnapTrouble /\ worker' = [worker EXCEPT !.todo = @ \ {u}] /\ UNCHANGED rows
     \/ SnapTrouble /\ worker' = [worker EXCEPT !.todo = {}, !.complete = FALSE] /\ UNCHANGED rows
  /\ UNCHANGED <<list, usage, touches, source, sourceSteps, steadyVars>>

\* Fault: the rows are not counted.
BackfillDoneUncounted == worker.complete

\* revenue_backfill_done: no row waits for its price and no card failed.
BackfillDone == Unpriced = {} /\ worker.complete

\* _aggregate_api_costs: the sum over the rows that have a cost, counted unit by
\* unit; a row without one counts none.
_aggregate_api_costs == Cardinality(UNION {{u} \X (1 .. rows[u].cost) : u \in SnapUsers})

\* The state of the source, written last; a cycle without a card leaves open
\* what it found before.
FinishCycle ==
  /\ worker.at = "revenue" /\ worker.todo = {}
  /\ source' = [fresh |-> TRUE, failed |-> FALSE, done |-> BackfillDone,
                supported |-> IF worker.supported = "unknown" THEN source.supported
                              ELSE worker.supported,
                costs |-> _aggregate_api_costs]
  /\ worker' = Resting /\ cutShort' = FALSE
  /\ UNCHANGED <<list, usage, rows, touches, sourceSteps, snapTrouble, revenue>>

\* A request that fails for good, or a statement: what is written stays.
CycleFails ==
  /\ worker # Resting /\ SnapTrouble /\ _record_failure
  /\ UNCHANGED <<list, usage, rows, touches, sourceSteps, steadyVars>>

CrashWorker ==
  /\ worker # Resting /\ SnapTrouble /\ worker' = Resting /\ cutShort' = TRUE
  /\ UNCHANGED <<list, usage, rows, touches, source, sourceSteps, revenue>>

WorkerStep == BeginCycle \/ _walk_users \/ upsert_rows \/ delete_rows \/ get_stats
                \/ (\E u \in SnapUsers : FetchCard(u)) \/ FinishCycle

-----------------------------------------------------------------------------
(* The page of users.                                                      *)

\* _snapshot_at is null until a cycle has come to its end, _snapshot_errors
\* names the source whose last cycle failed.
_snapshot_at == source.fresh
_snapshot_errors == source.failed

\* _api_costs: the flag that the sum shown is not all there is.
partial == ~source.done \/ source.supported = "no"

-----------------------------------------------------------------------------
SnapshotInit ==
  /\ list = <<>> /\ usage = [u \in SnapUsers |-> <<0, 0>>]
  /\ rows = [u \in SnapUsers |-> NoRow]
  /\ worker = Resting /\ touches = {}
  /\ source = [fresh |-> FALSE, failed |-> FALSE, done |-> FALSE, supported |-> "unknown",
               costs |-> 0]
  /\ revenue \in BOOLEAN /\ cutShort = FALSE
  /\ sourceSteps = 0 /\ snapTrouble = 0

SnapshotNext ==
  \/ NewUser \/ Upgrade \/ (\E u \in SnapUsers : DropUser(u) \/ Spend(u) \/ Grant(u))
  \/ \E t \in touches : _touch_snapshot(t)
  \/ WorkerStep \/ CycleFails \/ CrashWorker

\* run() starts a cycle again and again, every request has a timeout, and the
\* requests of the console come to an end.
SnapshotFairness ==
  WF_snapshotVars(WorkerStep) /\ WF_snapshotVars(\E t \in touches : _touch_snapshot(t))

SnapshotSpec == SnapshotInit /\ [][SnapshotNext]_snapshotVars /\ SnapshotFairness

-----------------------------------------------------------------------------
\* Every variable keeps its range.
SnapshotTypeOK ==
  /\ AtSource \subseteq SnapUsers /\ usage \in [SnapUsers -> Nat \X Nat]
  /\ rows \in [SnapUsers -> BackendUserSnapshot]
  /\ worker.at \in {"rest", "walk", "write", "delete", "stats", "revenue"}
  /\ touches \subseteq [user : SnapUsers, fp : Nat \X Nat]
  /\ source \in BackendUserSnapshotSource
  /\ sourceSteps \in 0..MaxSourceSteps /\ snapTrouble \in 0..MaxSnapTrouble

\* A user the backend still has is not deleted from the snapshot by pages that
\* fail, users who register while the list is walked, cycles cut short or pages
\* that repeat.  Only a list that got shorter under the walk can hide him, or a
\* repeated page that showed somebody new, and so was taken for the next one
\* (README, section 6).
LiveStaysListed ==
  [][\A u \in SnapUsers : Listed(u) /\ ~Listed(u)' /\ u \in AtSource
       => worker.at = "delete" /\ (worker.shrunk \/ worker.repeated)]_snapshotVars

\* A page that shows a time, no error and a sum that is not called partial shows
\* the sum over the costs of all its rows, and every row has had its card asked
\* for, unless a cycle is under way or was cut short (_api_costs,
\* _refresh_backend_inner).
PageIsHonest ==
  _snapshot_at /\ ~_snapshot_errors /\ ~partial /\ worker = Resting /\ ~cutShort
    => Unpriced = {} /\ source.costs = _aggregate_api_costs

\* When the backend comes to rest the snapshot becomes its list, each row with
\* the fingerprint of the user and a price, whatever was hidden, repeated,
\* touched out of order or left half done before.
SnapshotSettles ==
  <>[](\A u \in SnapUsers :
         IF u \in AtSource THEN rows[u].fp = usage[u] /\ rows[u].cost # NotPriced
         ELSE ~Listed(u))

\* _refresh_revenue says that users who changed beyond the quota are not lost:
\* their rows are still unpriced, and so stand in the queue of the backfill.
\* It does not hold: README, section 6.
TruncatedTailWaits ==
  worker.at = "revenue" =>
    \A u \in worker.dirty \ worker.asked : Listed(u) => rows[u].cost = NotPriced

\* _api_costs says that with the second half of "partial" no sum is called
\* complete that lacks the users of a backend without costs.  It does not hold:
\* README, section 6.
CompleteHasNoGap ==
  _snapshot_at /\ ~_snapshot_errors /\ ~partial /\ worker = Resting
    => \A u \in SnapUsers : rows[u].cost # NoRevenue

\* What holds of the snapshot at any moment.
UsersSnapshotHolds == SnapshotTypeOK /\ PageIsHonest
=============================================================================
