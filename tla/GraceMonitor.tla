---------------------------- MODULE GraceMonitor ----------------------------
(***************************************************************************)
(* Availability monitors of proxies and backends. Both services have the   *)
(* same code: a poll that takes a snapshot of all rows, an immediate       *)
(* check_one after a creation or an edit, a pure transition function with  *)
(* a grace window, and a Telegram alert sent after the commit.             *)
(*                                                                         *)
(* A check works on the snapshot it took: nothing it does later reads the  *)
(* row again, and its UPDATE is unconditional. The definitions follow      *)
(* proxy_monitor_service.py and proxy_service.py; backend_monitor_service  *)
(* and backend_service differ in names only (the address is the domain).   *)
(***************************************************************************)
EXTENDS Naturals, FiniteSets

CONSTANTS
  Proxies,      \* the monitored objects
  Poller,       \* the worker of the background loop, one per proxy
  Checkers,     \* workers for immediate checks, bound on concurrent ones
  NoTime,       \* NULL of error_since
  NoEdit,       \* no PATCH of the proxy is in progress
  AlertAfter,   \* proxy_alert_after_sec, in ticks of the clock
  MaxTime,      \* bound of the clock
  MaxConfig,    \* bound on the versions of the connection settings
  MaxFlips,     \* bound on the changes of reachability
  MaxCrashes,   \* bound on restarts
  MaxLost       \* bound on alerts Telegram did not take

ASSUME GraceConstants ==
  /\ Poller \notin Checkers
  /\ NoTime \notin Nat
  /\ NoEdit \notin {"pending", "working", "error"}
  /\ AlertAfter \in Nat \ {0}
  /\ MaxTime \in Nat
  /\ MaxConfig \in Nat \ {0}
  /\ MaxFlips \in Nat
  /\ MaxCrashes \in Nat
  /\ MaxLost \in Nat

VARIABLES
  now,      \* the clock
  row,      \* the table: status and state of the outage
  live,     \* the rows that exist
  config,   \* version of the connection settings, 0 before creation
  reach,    \* whether the current settings reach the network
  editing,  \* the status a PATCH in progress has read
  pc, snap, verdict,   \* control, snapshot and transition of each worker
  flips, crashes, lost,
  \* history, read by the properties only
  overlapped,  \* proxies of which two checks once ran at the same time
  excused,     \* proxies one of whose alerts was lost
  last,        \* the last alert delivered
  reds         \* red alerts delivered in the current outage

tables == <<row, live, config>>
environment == <<now, reach, flips>>
workers == <<pc, snap, verdict>>
failures == <<crashes, lost, excused>>
history == <<overlapped, last, reds>>
vars == <<tables, environment, editing, workers, failures, history>>

Workers == {Poller} \cup Checkers
CheckStatuses == {"pending", "working", "error"}
Alerts == {"none", "red", "green"}
Times == 0 .. MaxTime
Rows == [status : CheckStatuses, since : Times \cup {NoTime}, sent : BOOLEAN]
Snapshots == [row : Rows, config : 0 .. MaxConfig]
Verdicts == [row : Rows, alert : Alerts]
Pcs == {"idle", "start", "probe", "commit", "alert"}

FreshRow == [status |-> "pending", since |-> NoTime, sent |-> FALSE]
NoSnapshot == [row |-> FreshRow, config |-> 0]
NoVerdict == [row |-> FreshRow, alert |-> "none"]

\* A check of the proxy has read the row and has not ended yet.
Busy(p) == \E w \in Workers : pc[p][w] \in {"probe", "commit", "alert"}

Init ==
  /\ now = 0
  /\ row = [p \in Proxies |-> FreshRow]
  /\ live = {}
  /\ config = [p \in Proxies |-> 0]
  /\ reach \in [Proxies -> BOOLEAN]
  /\ editing = [p \in Proxies |-> NoEdit]
  /\ pc = [p \in Proxies |-> [w \in Workers |-> "idle"]]
  /\ snap = [p \in Proxies |-> [w \in Workers |-> NoSnapshot]]
  /\ verdict = [p \in Proxies |-> [w \in Workers |-> NoVerdict]]
  /\ flips = 0 /\ crashes = 0 /\ lost = 0
  /\ overlapped = {}
  /\ excused = {}
  /\ last = [p \in Proxies |-> "none"]
  /\ reds = [p \in Proxies |-> 0]

----------------------------------------------------------------------------
(* evaluate_transition                                                      *)

\* Fault: the flag that an alert was sent is not kept.
EvaluateForgetting(r, outcome, t) ==
  CASE outcome = "working" ->
         [row |-> [status |-> "working", since |-> NoTime, sent |-> FALSE],
          alert |-> IF r.sent THEN "green" ELSE "none"]
    [] outcome = "error" /\ r.status # "error" ->
         [row |-> [status |-> "error", since |-> t, sent |-> FALSE], alert |-> "none"]
    [] OTHER ->
         [row |-> r, alert |-> IF t >= r.since + AlertAfter THEN "red" ELSE "none"]

\* Fault: the flag is raised when the outage begins, so no alert follows.
EvaluateSilently(r, outcome, t) ==
  IF outcome = "working"
  THEN [row |-> [status |-> "working", since |-> NoTime, sent |-> FALSE],
        alert |-> IF r.sent THEN "green" ELSE "none"]
  ELSE [row |-> [status |-> "error",
                 since |-> IF r.status = "error" THEN r.since ELSE t,
                 sent |-> r.status = "error" /\ t >= r.since + AlertAfter],
        alert |-> "none"]

\* Fault: strictly more than the window.
EvaluateLate(r, outcome, t) ==
  CASE outcome = "working" ->
         [row |-> [status |-> "working", since |-> NoTime, sent |-> FALSE],
          alert |-> IF r.sent THEN "green" ELSE "none"]
    [] outcome = "error" /\ r.status # "error" ->
         [row |-> [status |-> "error", since |-> t, sent |-> FALSE], alert |-> "none"]
    [] OTHER ->
         LET red == ~r.sent /\ t > r.since + AlertAfter
         IN  [row |-> [r EXCEPT !.sent = r.sent \/ red],
              alert |-> IF red THEN "red" ELSE "none"]

\* The new row and the alert, from the snapshot r, the outcome and the time.
Evaluate(r, outcome, t) ==
  LET since == IF r.since = NoTime THEN t ELSE r.since
      red == ~r.sent /\ t >= since + AlertAfter
  IN CASE outcome = "working" ->
            [row |-> [status |-> "working", since |-> NoTime, sent |-> FALSE],
             alert |-> IF r.sent THEN "green" ELSE "none"]
       [] outcome = "error" /\ r.status # "error" ->
            [row |-> [status |-> "error", since |-> t, sent |-> FALSE],
             alert |-> "none"]
       [] outcome = "error" /\ r.status = "error" ->
            [row |-> [status |-> "error", since |-> since, sent |-> r.sent \/ red],
             alert |-> IF red THEN "red" ELSE "none"]

----------------------------------------------------------------------------
(* One check                                                                *)

TakeSnapshot(p) == [row |-> row[p], config |-> config[p]]

\* Fault: the poll leaves the rows in error to the immediate checks.
PollSkipsErrors ==
  LET due == {p \in live : row[p].status # "error"} IN
  /\ \A p \in Proxies : pc[p][Poller] = "idle"
  /\ due # {}
  /\ pc' = [p \in Proxies |-> IF p \in due THEN [pc[p] EXCEPT ![Poller] = "probe"] ELSE pc[p]]
  /\ snap' = [p \in Proxies |->
       IF p \in due THEN [snap[p] EXCEPT ![Poller] = TakeSnapshot(p)] ELSE snap[p]]
  /\ overlapped' = overlapped \cup {p \in due : Busy(p)}
  /\ UNCHANGED <<tables, environment, editing, verdict, failures, last, reds>>

\* poll_once: one query takes the snapshots of all rows; the next iteration
\* starts when every check of this one has ended.
Poll ==
  /\ \A p \in Proxies : pc[p][Poller] = "idle"
  /\ live # {}
  /\ pc' = [p \in Proxies |-> IF p \in live THEN [pc[p] EXCEPT ![Poller] = "probe"] ELSE pc[p]]
  /\ snap' = [p \in Proxies |->
       IF p \in live THEN [snap[p] EXCEPT ![Poller] = TakeSnapshot(p)] ELSE snap[p]]
  /\ overlapped' = overlapped \cup {p \in live : Busy(p)}
  /\ UNCHANGED <<tables, environment, editing, verdict, failures, last, reds>>

\* check_one: the immediate check reads its row, if it still exists.
CheckOne(p, w) ==
  /\ pc[p][w] = "start"
  /\ \/ /\ p \in live
        /\ pc' = [pc EXCEPT ![p][w] = "probe"]
        /\ snap' = [snap EXCEPT ![p][w] = TakeSnapshot(p)]
        /\ overlapped' = IF Busy(p) THEN overlapped \cup {p} ELSE overlapped
     \/ /\ p \notin live
        /\ pc' = [pc EXCEPT ![p][w] = "idle"]
        /\ UNCHANGED <<snap, overlapped>>
  /\ UNCHANGED <<tables, environment, editing, verdict, failures, last, reds>>

\* The network check, bounded by a deadline, and the transition. What settings
\* that were replaced meanwhile would reach is unknown.
Probe(p, w) ==
  /\ pc[p][w] = "probe"
  /\ \E outcome \in {"working", "error"} :
       /\ snap[p][w].config = config[p] => (outcome = "working") = reach[p]
       /\ verdict' = [verdict EXCEPT ![p][w] = Evaluate(snap[p][w].row, outcome, now)]
  /\ pc' = [pc EXCEPT ![p][w] = "commit"]
  /\ UNCHANGED <<tables, environment, editing, snap, failures, history>>

\* update_check: an UPDATE by id, whatever the row holds now; on a deleted row
\* it does nothing, and the alert goes out all the same.
Commit(p, w) ==
  LET v == verdict[p][w] IN
  /\ pc[p][w] = "commit"
  /\ row' = IF p \in live THEN [row EXCEPT ![p] = v.row] ELSE row
  /\ reds' = IF p \in live /\ v.row.since # row[p].since THEN [reds EXCEPT ![p] = 0] ELSE reds
  /\ pc' = [pc EXCEPT ![p][w] = IF v.alert = "none" THEN "idle" ELSE "alert"]
  /\ snap' = [snap EXCEPT ![p][w] = NoSnapshot]
  /\ verdict' = [verdict EXCEPT ![p][w] = IF v.alert = "none" THEN NoVerdict ELSE v]
  /\ UNCHANGED <<live, config, environment, editing, failures, overlapped, last>>

\* _send_alert: best effort, after the commit.
SendAlert(p, w) ==
  LET alert == verdict[p][w].alert IN
  /\ pc[p][w] = "alert"
  /\ \/ /\ last' = [last EXCEPT ![p] = alert]
        /\ reds' = IF alert = "red" THEN [reds EXCEPT ![p] = @ + 1] ELSE reds
        /\ UNCHANGED <<lost, excused>>
     \/ /\ lost < MaxLost
        /\ lost' = lost + 1
        /\ excused' = excused \cup {p}
        /\ UNCHANGED <<last, reds>>
  /\ pc' = [pc EXCEPT ![p][w] = "idle"]
  /\ verdict' = [verdict EXCEPT ![p][w] = NoVerdict]
  /\ UNCHANGED <<tables, environment, editing, snap, crashes, overlapped>>

----------------------------------------------------------------------------
(* create_proxy, update_proxy, delete_proxy                                 *)

\* _schedule_check: the task is created after the commit and reads later.
Schedule(p, w) ==
  /\ pc[p][w] = "idle"
  /\ pc' = [pc EXCEPT ![p][w] = "start"]

Create(p, w) ==
  /\ config[p] = 0
  /\ live' = live \cup {p}
  /\ config' = [config EXCEPT ![p] = 1]
  /\ Schedule(p, w)
  /\ UNCHANGED <<row, environment, editing, snap, verdict, failures, history>>

\* PATCH reads the row ...
StartEdit(p) ==
  /\ p \in live /\ editing[p] = NoEdit
  /\ config[p] < MaxConfig
  /\ editing' = [editing EXCEPT ![p] = row[p].status]
  /\ UNCHANGED <<tables, environment, workers, failures, history>>

\* ... and stores new settings. The status becomes `pending`, but error_since
\* and alert_sent are left alone. The ORM writes only the columns whose value
\* differs from the one read: a row read as `pending` keeps its present status.
FinishEdit(p, w) ==
  /\ editing[p] # NoEdit
  /\ p \in live
  /\ config[p] < MaxConfig
  /\ config' = [config EXCEPT ![p] = @ + 1]
  /\ row' = IF editing[p] = "pending" THEN row ELSE [row EXCEPT ![p].status = "pending"]
  /\ reach' \in {reach, [reach EXCEPT ![p] = ~@]}
  /\ editing' = [editing EXCEPT ![p] = NoEdit]
  /\ Schedule(p, w)
  /\ UNCHANGED <<live, now, flips, snap, verdict, failures, history>>

\* The row vanished between the read and the UPDATE: the request fails.
FailEdit(p) ==
  /\ editing[p] # NoEdit
  /\ p \notin live
  /\ editing' = [editing EXCEPT ![p] = NoEdit]
  /\ UNCHANGED <<tables, environment, workers, failures, history>>

Delete(p) ==
  /\ p \in live
  /\ live' = live \ {p}
  /\ UNCHANGED <<row, config, environment, editing, workers, failures, history>>

----------------------------------------------------------------------------
(* The clock, the network and the process                                   *)

Tick ==
  /\ now < MaxTime
  /\ now' = now + 1
  /\ UNCHANGED <<tables, reach, flips, editing, workers, failures, history>>

Flip(p) ==
  /\ flips < MaxFlips
  /\ flips' = flips + 1
  /\ reach' = [reach EXCEPT ![p] = ~@]
  /\ UNCHANGED <<tables, now, editing, workers, failures, history>>

\* A restart loses every task; an alert decided but not sent is lost with it.
Restart ==
  /\ crashes < MaxCrashes
  /\ crashes' = crashes + 1
  /\ excused' = excused \cup {p \in Proxies : \E w \in Workers : pc[p][w] = "alert"}
  /\ pc' = [p \in Proxies |-> [w \in Workers |-> "idle"]]
  /\ snap' = [p \in Proxies |-> [w \in Workers |-> NoSnapshot]]
  /\ verdict' = [p \in Proxies |-> [w \in Workers |-> NoVerdict]]
  /\ editing' = [p \in Proxies |-> NoEdit]
  /\ UNCHANGED <<tables, environment, lost, history>>

----------------------------------------------------------------------------

WorkerNext(p, w) == CheckOne(p, w) \/ Probe(p, w) \/ Commit(p, w) \/ SendAlert(p, w)

Next ==
  \/ Poll
  \/ \E p \in Proxies, w \in Workers : WorkerNext(p, w)
  \/ \E p \in Proxies, w \in Checkers : Create(p, w) \/ FinishEdit(p, w)
  \/ \E p \in Proxies : StartEdit(p) \/ FailEdit(p) \/ Delete(p) \/ Flip(p)
  \/ Tick
  \/ Restart

Spec == Init /\ [][Next]_vars

\* The poll loop never ends, every check has a deadline, and time passes.
Fairness ==
  /\ WF_vars(Poll)
  /\ WF_vars(Tick)
  /\ \A p \in Proxies, w \in Workers : WF_vars(WorkerNext(p, w))

FairSpec == Spec /\ Fairness

----------------------------------------------------------------------------
(* Properties                                                               *)

TypeOK ==
  /\ now \in Times
  /\ row \in [Proxies -> Rows]
  /\ live \subseteq Proxies
  /\ config \in [Proxies -> 0 .. MaxConfig]
  /\ reach \in [Proxies -> BOOLEAN]
  /\ editing \in [Proxies -> CheckStatuses \cup {NoEdit}]
  /\ pc \in [Proxies -> [Workers -> Pcs]]
  /\ snap \in [Proxies -> [Workers -> Snapshots]]
  /\ verdict \in [Proxies -> [Workers -> Verdicts]]
  /\ flips \in 0 .. MaxFlips
  /\ crashes \in 0 .. MaxCrashes
  /\ lost \in 0 .. MaxLost
  /\ overlapped \subseteq Proxies
  /\ excused \subseteq Proxies
  /\ last \in [Proxies -> Alerts]
  /\ reds \in [Proxies -> Nat]

\* The four columns always tell a consistent story, whatever stale results,
\* edits and restarts are mixed: a working proxy has no outage, an outage has a
\* beginning that is not in the future, and the alert flag is up only if the
\* outage it belongs to has lasted the whole grace window.
Coherent(r) ==
  /\ r.status = "working" => r.since = NoTime /\ ~r.sent
  /\ r.status = "error" => r.since # NoTime
  /\ r.since # NoTime => r.since <= now
  /\ r.sent => r.since # NoTime /\ now >= r.since + AlertAfter

RowsCoherent == \A p \in Proxies : Coherent(row[p])

\* One outage raises at most one red alert, across restarts and edits. Two
\* checks of one proxy that overlap are the only way around it.
OneRedPerOutage == \A p \in Proxies \ overlapped : reds[p] <= 1

\* A failing proxy does not reopen its grace window: while the row says
\* `error`, the beginning of the outage does not move. (Overlapping checks,
\* again, are excepted.)
WindowNotReopened ==
  [][\A p \in Proxies \ overlapped' :
       row[p].status = "error" /\ row'[p].status = "error" => row'[p].since = row[p].since]_vars

\* The alert flag is up only if the red alert of this outage was delivered or
\* is just being sent, unless Telegram or a restart lost it.
FlagMeansAlert ==
  \A p \in live \ (overlapped \cup excused) :
    row[p].sent => reds[p] = 1 \/ \E w \in Workers :
                                    pc[p][w] = "alert" /\ verdict[p][w].alert = "red"

\* An outage that began early enough for the bounded clock is reported unless
\* it ends first.
Reportable(p) ==
  /\ p \in live /\ row[p].status = "error"
  /\ row[p].since # NoTime /\ row[p].since + AlertAfter <= MaxTime
OutageReported == \A p \in Proxies : Reportable(p) ~> (~Reportable(p) \/ row[p].sent)

\* After the last edit, the last restart and the last change of the network,
\* the row ends up saying what the network says of the current settings, stale
\* checks of earlier settings notwithstanding.
RowTellsTruth == \A p \in Proxies :
  <>[](p \in live => row[p].status = (IF reach[p] THEN "working" ELSE "error"))

\* modules/proxies: across restarts, a recovery is announced only if the red
\* alert of the outage was sent. (Overlapping checks are excepted again.)
GreenOnlyAfterRed ==
  [][\A p \in Proxies \ overlapped' :
       last[p] # "green" /\ last'[p] = "green" => last[p] = "red"]_vars
=============================================================================
