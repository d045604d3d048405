------------------------- MODULE GraceMonitorProofs -------------------------
(***************************************************************************)
(* Proofs about the availability monitors, for any number of proxies and   *)
(* of concurrent checks. RowsCoherent is not inductive by itself: a row    *)
(* takes its value from a verdict that was computed earlier from a         *)
(* snapshot taken earlier still. AllCoherent says the same of every        *)
(* snapshot and every verdict; because time only advances, a coherent row  *)
(* stays coherent for as long as a check holds it.                         *)
(***************************************************************************)
EXTENDS GraceMonitor, TLAPS

AllCoherent ==
  /\ RowsCoherent
  /\ \A p \in Proxies, w \in Workers :
       Coherent(snap[p][w].row) /\ Coherent(verdict[p][w].row)

\* The values every variable starts with or falls back to are well typed.
LEMMA GraceDefaults ==
  /\ FreshRow \in Rows /\ NoSnapshot \in Snapshots /\ NoVerdict \in Verdicts
  /\ 0 \in Times /\ Times \subseteq Nat
BY GraceConstants DEF FreshRow, NoSnapshot, NoVerdict, Rows, Snapshots, Verdicts, Times,
  CheckStatuses, Alerts

\* evaluate_transition returns a well-typed row and alert.
LEMMA EvaluateType ==
  ASSUME NEW r \in Rows, NEW outcome \in {"working", "error"}, NEW t \in Times
  PROVE  Evaluate(r, outcome, t) \in Verdicts
BY GraceConstants DEF Evaluate, Rows, Verdicts, Times, CheckStatuses, Alerts

\* evaluate_transition keeps a row coherent.
LEMMA EvaluateCoherent ==
  ASSUME NEW r \in Rows, Coherent(r), now \in Times,
         NEW outcome \in {"working", "error"}
  PROVE  Coherent(Evaluate(r, outcome, now).row)
<1>0. now \in Nat /\ AlertAfter \in Nat \ {0} /\ NoTime \notin Nat /\ Times \subseteq Nat
  BY GraceConstants DEF Times
<1>1. CASE outcome = "working"
  BY <1>0, <1>1 DEF Evaluate, Coherent
<1>2. CASE outcome = "error" /\ r.status # "error"
  BY <1>0, <1>2 DEF Evaluate, Coherent
<1>3. CASE outcome = "error" /\ r.status = "error"
  <2>1. r.since \in Times /\ r.since \in Nat /\ r.since <= now
    BY <1>0, <1>3 DEF Coherent, Rows
  <2>2. Evaluate(r, outcome, now).row =
          [status |-> "error", since |-> r.since,
           sent |-> r.sent \/ (~r.sent /\ now >= r.since + AlertAfter)]
    BY <1>0, <1>3, <2>1 DEF Evaluate
  <2>3. QED
    BY <1>0, <1>3, <2>1, <2>2 DEF Coherent, Rows
<1>4. QED
  BY <1>1, <1>2, <1>3

\* Writing one worker's entry keeps a table of workers in its type.
LEMMA UpdateWorker ==
  ASSUME NEW S, NEW f \in [Proxies -> [Workers -> S]], NEW p \in Proxies, NEW w \in Workers,
         NEW v \in S
  PROVE  /\ [f EXCEPT ![p][w] = v] \in [Proxies -> [Workers -> S]]
         /\ \A q \in Proxies, u \in Workers :
              [f EXCEPT ![p][w] = v][q][u] = IF q = p /\ u = w THEN v ELSE f[q][u]
OBVIOUS

\* Every step keeps every variable in its type.
LEMMA GraceTypeStep == TypeOK /\ [Next]_vars => TypeOK'
<1> SUFFICES ASSUME TypeOK, [Next]_vars PROVE TypeOK'
  OBVIOUS
<1> USE DEF tables, environment, workers, failures, history
<1> DEFINE
  PcT == [Proxies -> [Workers -> Pcs]]
  SnapT == [Proxies -> [Workers -> Snapshots]]
  VerdictT == [Proxies -> [Workers -> Verdicts]]
<1>0. /\ pc \in PcT /\ snap \in SnapT /\ verdict \in VerdictT
      /\ NoSnapshot \in Snapshots /\ NoVerdict \in Verdicts
      /\ \A s \in {"idle", "start", "probe", "commit", "alert"} : s \in Pcs
      /\ Checkers \subseteq Workers /\ Poller \in Workers
      /\ \A p \in Proxies : row[p] \in Rows /\ TakeSnapshot(p) \in Snapshots
      /\ \A p \in Proxies, w \in Workers : verdict[p][w] \in Verdicts /\ snap[p][w] \in Snapshots
  BY GraceDefaults DEF TypeOK, Pcs, Workers, TakeSnapshot, Snapshots
<1>1. CASE Poll
  <2>1. pc' \in PcT
    BY <1>0, <1>1 DEF Poll
  <2>2. snap' \in SnapT
    BY <1>0, <1>1 DEF Poll
  <2>3. overlapped' \subseteq Proxies
    BY <1>1 DEF Poll, TypeOK
  <2>4. QED
    BY <1>1, <2>1, <2>2, <2>3 DEF Poll, TypeOK
<1>2. ASSUME NEW p \in Proxies, NEW w \in Workers, WorkerNext(p, w) PROVE TypeOK'
  <2>0. \A s \in {"idle", "start", "probe", "commit", "alert"} : [pc EXCEPT ![p][w] = s] \in PcT
    BY <1>0, UpdateWorker
  <2>1. CASE CheckOne(p, w)
    <3>1. pc' \in PcT
      BY <2>0, <2>1 DEF CheckOne
    <3>2. snap' \in SnapT
      <4>1. [snap EXCEPT ![p][w] = TakeSnapshot(p)] \in SnapT
        BY <1>0, UpdateWorker
      <4>2. QED
        BY <1>0, <2>1, <4>1 DEF CheckOne
    <3>3. overlapped' \subseteq Proxies
      BY <2>1 DEF CheckOne, TypeOK
    <3>4. QED
      BY <2>1, <3>1, <3>2, <3>3 DEF CheckOne, TypeOK
  <2>2. CASE Probe(p, w)
    <3>1. pc' \in PcT
      BY <2>0, <2>2 DEF Probe
    <3>2. PICK outcome \in {"working", "error"} :
            verdict' = [verdict EXCEPT ![p][w] = Evaluate(snap[p][w].row, outcome, now)]
      BY <2>2 DEF Probe
    <3>3. Evaluate(snap[p][w].row, outcome, now) \in Verdicts
      BY <1>0, EvaluateType DEF TypeOK, Snapshots
    <3>4. verdict' \in VerdictT
      BY <1>0, <3>2, <3>3, UpdateWorker
    <3>5. QED
      BY <2>2, <3>1, <3>4 DEF Probe, TypeOK
  <2>3. CASE Commit(p, w)
    <3>1. pc' \in PcT
      BY <2>0, <2>3 DEF Commit
    <3>2. snap' \in SnapT
      BY <1>0, <2>3, UpdateWorker DEF Commit
    <3>3. verdict' \in VerdictT
      <4>1. \E v \in Verdicts : verdict' = [verdict EXCEPT ![p][w] = v]
        BY <1>0, <2>3 DEF Commit
      <4>2. QED
        BY <1>0, <4>1, UpdateWorker
    <3>4. row' \in [Proxies -> Rows]
      BY <1>0, <2>3 DEF Commit, Verdicts, TypeOK
    <3>5. reds' \in [Proxies -> Nat]
      BY <2>3 DEF Commit, TypeOK
    <3>6. QED
      BY <2>3, <3>1, <3>2, <3>3, <3>4, <3>5 DEF Commit, TypeOK
  <2>4. CASE SendAlert(p, w)
    <3>1. pc' \in PcT
      BY <2>0, <2>4 DEF SendAlert
    <3>2. verdict' \in VerdictT
      BY <1>0, <2>4, UpdateWorker DEF SendAlert
    <3>3. last' \in [Proxies -> Alerts]
      BY <1>0, <2>4 DEF SendAlert, Verdicts, TypeOK
    <3>4. reds' \in [Proxies -> Nat]
      BY <2>4 DEF SendAlert, TypeOK
    <3>5. lost' \in 0 .. MaxLost /\ excused' \subseteq Proxies
      BY <2>4, GraceConstants DEF SendAlert, TypeOK
    <3>6. QED
      BY <2>4, <3>1, <3>2, <3>3, <3>4, <3>5 DEF SendAlert, TypeOK
  <2>5. QED
    BY <1>2, <2>1, <2>2, <2>3, <2>4 DEF WorkerNext
<1>3. ASSUME NEW p \in Proxies, NEW w \in Checkers, Create(p, w) PROVE TypeOK'
  <2>1. pc' \in PcT
    BY <1>0, <1>3, UpdateWorker DEF Create, Schedule
  <2>2. config' \in [Proxies -> 0 .. MaxConfig]
    BY <1>3, GraceConstants DEF Create, TypeOK
  <2>3. QED
    BY <1>3, <2>1, <2>2 DEF Create, TypeOK
<1>4. ASSUME NEW p \in Proxies, NEW w \in Checkers, FinishEdit(p, w) PROVE TypeOK'
  <2>1. pc' \in PcT
    BY <1>0, <1>4, UpdateWorker DEF FinishEdit, Schedule
  <2>2. config' \in [Proxies -> 0 .. MaxConfig]
    BY <1>4, GraceConstants DEF FinishEdit, TypeOK
  <2>3. [row EXCEPT ![p].status = "pending"] \in [Proxies -> Rows]
    BY DEF TypeOK, Rows, CheckStatuses
  <2>4. row' \in [Proxies -> Rows]
    BY <1>4, <2>3 DEF FinishEdit, TypeOK
  <2>5. reach' \in [Proxies -> BOOLEAN] /\ editing' \in [Proxies -> CheckStatuses \cup {NoEdit}]
    BY <1>4 DEF FinishEdit, TypeOK
  <2>6. QED
    BY <1>4, <2>1, <2>2, <2>4, <2>5 DEF FinishEdit, TypeOK
<1>5. ASSUME NEW p \in Proxies, StartEdit(p) PROVE TypeOK'
  BY <1>5 DEF StartEdit, Rows, TypeOK
<1>6. ASSUME NEW p \in Proxies, FailEdit(p) PROVE TypeOK'
  BY <1>6 DEF FailEdit, TypeOK
<1>7. ASSUME NEW p \in Proxies, Delete(p) PROVE TypeOK'
  BY <1>7 DEF Delete, TypeOK
<1>8. ASSUME NEW p \in Proxies, Flip(p) PROVE TypeOK'
  <2>1. reach' \in [Proxies -> BOOLEAN] /\ flips' \in 0 .. MaxFlips
    BY <1>8, GraceConstants DEF Flip, TypeOK
  <2>2. QED
    BY <1>8, <2>1 DEF Flip, TypeOK
<1>9. CASE Tick
  <2>1. now' \in Times
    BY <1>9, GraceConstants DEF Tick, Times, TypeOK
  <2>2. QED
    BY <1>9, <2>1 DEF Tick, TypeOK
<1>10. CASE Restart
  <2>1. pc' \in PcT /\ snap' \in SnapT /\ verdict' \in VerdictT
    BY <1>0, <1>10 DEF Restart
  <2>2. /\ editing' \in [Proxies -> CheckStatuses \cup {NoEdit}]
        /\ crashes' \in 0 .. MaxCrashes
        /\ excused' \subseteq Proxies
    BY <1>10, GraceConstants DEF Restart, TypeOK
  <2>3. QED
    BY <1>10, <2>1, <2>2 DEF Restart, TypeOK
<1>11. CASE UNCHANGED vars
  BY <1>11 DEF vars, TypeOK
<1>12. QED
  BY <1>1, <1>2, <1>3, <1>4, <1>5, <1>6, <1>7, <1>8, <1>9, <1>10, <1>11 DEF Next

\* The state of every proxy, worker and counter is well typed at all times.
THEOREM GraceTypeCorrect == Spec => []TypeOK
<1>1. Init => TypeOK
  BY GraceConstants, GraceDefaults DEF Init, TypeOK, Workers, Alerts, CheckStatuses, Pcs
<1>2. QED
  BY <1>1, GraceTypeStep, PTL DEF Spec

\* A row that is coherent now is coherent later.
LEMMA CoherentLater ==
  ASSUME TypeOK, now' \in Times, now' >= now, NEW r \in Rows, Coherent(r)
  PROVE  Coherent(r)'
<1>1. now \in Nat /\ now' \in Nat /\ AlertAfter \in Nat /\ (r.since # NoTime => r.since \in Nat)
  BY GraceConstants DEF TypeOK, Times, Rows
<1>2. QED
  BY <1>1 DEF Coherent

\* Every step keeps rows, snapshots and verdicts coherent.
LEMMA CoherentStep == TypeOK /\ AllCoherent /\ [Next]_vars => AllCoherent'
<1> SUFFICES ASSUME TypeOK, AllCoherent, [Next]_vars PROVE AllCoherent'
  OBVIOUS
<1> USE DEF tables, environment, workers, failures, history
<1>t. TypeOK'
  BY GraceTypeStep
<1>n. now' \in Times /\ now' >= now
  <2>1. now \in Nat /\ now' \in Times
    BY <1>t DEF TypeOK, Times
  <2>2. now' = now \/ now' = now + 1
    BY DEF Next, WorkerNext, Poll, CheckOne, Probe, Commit, SendAlert, Create, Schedule, StartEdit,
       FinishEdit, FailEdit, Delete, Flip, Tick, Restart, vars
  <2>3. QED
    BY <2>1, <2>2
<1>f. Coherent(FreshRow)'
  BY GraceConstants DEF Coherent, FreshRow
<1>r. /\ \A p \in Proxies : row[p] \in Rows
      /\ \A p \in Proxies, w \in Workers : snap[p][w].row \in Rows /\ verdict[p][w].row \in Rows
  BY DEF TypeOK, Snapshots, Verdicts
<1>k. \A r \in Rows : Coherent(r) => Coherent(r)'
  BY <1>n, CoherentLater
<1>R. \A p \in Proxies : Coherent(row[p])
  BY DEF AllCoherent, RowsCoherent
<1>V. \A p \in Proxies, w \in Workers : Coherent(snap[p][w].row) /\ Coherent(verdict[p][w].row)
  BY DEF AllCoherent
\* What a step leaves as it was stays coherent.
<1>rr. ASSUME NEW p \in Proxies, row'[p] = row[p] PROVE Coherent(row[p])'
  BY <1>rr, <1>r, <1>k, <1>R DEF Coherent
<1>ss. ASSUME NEW p \in Proxies, NEW w \in Workers, snap'[p][w] = snap[p][w]
       PROVE Coherent(snap[p][w].row)'
  BY <1>ss, <1>r, <1>k, <1>V DEF Coherent
<1>vv. ASSUME NEW p \in Proxies, NEW w \in Workers, verdict'[p][w] = verdict[p][w]
       PROVE Coherent(verdict[p][w].row)'
  BY <1>vv, <1>r, <1>k, <1>V DEF Coherent
<1>ns. ASSUME NEW p \in Proxies, NEW w \in Workers, snap'[p][w] = NoSnapshot
       PROVE Coherent(snap[p][w].row)'
  BY <1>ns, <1>f DEF NoSnapshot, Coherent
<1>nv. ASSUME NEW p \in Proxies, NEW w \in Workers, verdict'[p][w] = NoVerdict
       PROVE Coherent(verdict[p][w].row)'
  BY <1>nv, <1>f DEF NoVerdict, Coherent
<1>ts. ASSUME NEW p \in Proxies, NEW w \in Workers, snap'[p][w] = TakeSnapshot(p)
       PROVE Coherent(snap[p][w].row)'
  BY <1>ts, <1>r, <1>k, <1>R DEF TakeSnapshot, Coherent
<1>1. CASE Poll
  <2>1. \A p \in Proxies, w \in Workers :
          /\ row'[p] = row[p] /\ verdict'[p][w] = verdict[p][w]
          /\ snap'[p][w] = snap[p][w] \/ snap'[p][w] = TakeSnapshot(p)
    BY <1>1 DEF Poll, TypeOK
  <2>2. \A p \in Proxies : Coherent(row[p])'
    BY <2>1, <1>rr DEF Workers
  <2>3. \A p \in Proxies, w \in Workers :
          Coherent(snap[p][w].row)' /\ Coherent(verdict[p][w].row)'
    BY <2>1, <1>ss, <1>vv, <1>ts
  <2>4. QED
    BY <2>2, <2>3 DEF AllCoherent, RowsCoherent
<1>2. ASSUME NEW q \in Proxies, NEW u \in Workers, WorkerNext(q, u) PROVE AllCoherent'
  <2>1. CASE CheckOne(q, u)
    <3>1. row' = row /\ verdict' = verdict
      BY <2>1 DEF CheckOne
    <3>a. snap' = snap \/ snap' = [snap EXCEPT ![q][u] = TakeSnapshot(q)]
      BY <2>1 DEF CheckOne
    <3>b. \A p \in Proxies, w \in Workers :
            snap'[p][w] = snap[p][w] \/ snap'[p][w] = TakeSnapshot(p)
      <4>1. /\ snap \in [Proxies -> [Workers -> Snapshots]]
            /\ TakeSnapshot(q) \in Snapshots
        BY DEF TypeOK, TakeSnapshot, Snapshots
      <4>2. \A p \in Proxies, w \in Workers :
              [snap EXCEPT ![q][u] = TakeSnapshot(q)][p][w] =
                IF p = q /\ w = u THEN TakeSnapshot(q) ELSE snap[p][w]
        BY <4>1, UpdateWorker
      <4>3. QED
        BY <3>a, <4>2
    <3>2. QED
      BY <3>1, <3>b, <1>rr, <1>ss, <1>vv, <1>ts DEF AllCoherent, RowsCoherent
  <2>2. CASE Probe(q, u)
    <3>1. PICK outcome \in {"working", "error"} :
            verdict' = [verdict EXCEPT ![q][u] = Evaluate(snap[q][u].row, outcome, now)]
      BY <2>2 DEF Probe
    <3>2. Coherent(Evaluate(snap[q][u].row, outcome, now).row)
      BY <1>r, <1>V, EvaluateCoherent DEF TypeOK
    <3>3. now' = now
      BY <2>2 DEF Probe
    <3>4. verdict'[q][u] = Evaluate(snap[q][u].row, outcome, now)
      BY <3>1 DEF TypeOK
    <3>5. Coherent(verdict[q][u].row)'
      BY <3>2, <3>3, <3>4 DEF Coherent
    <3>6. \A p \in Proxies, w \in Workers :
            /\ row'[p] = row[p] /\ snap'[p][w] = snap[p][w]
            /\ verdict'[p][w] = verdict[p][w] \/ (p = q /\ w = u)
      BY <2>2, <3>1 DEF Probe, TypeOK
    <3>7. QED
      BY <3>5, <3>6, <1>rr, <1>ss, <1>vv DEF AllCoherent, RowsCoherent
  <2>3. CASE Commit(q, u)
    <3>1. \A p \in Proxies, w \in Workers :
            /\ snap'[p][w] = snap[p][w] \/ snap'[p][w] = NoSnapshot
            /\ verdict'[p][w] = verdict[p][w] \/ verdict'[p][w] = NoVerdict
      BY <2>3 DEF Commit, TypeOK
    <3>2. \A p \in Proxies : row'[p] = row[p] \/ row'[p] = verdict[q][u].row
      BY <2>3 DEF Commit, TypeOK
    <3>3. ASSUME NEW p \in Proxies, row'[p] = verdict[q][u].row PROVE Coherent(row[p])'
      BY <3>3, <1>r, <1>k, <1>V DEF Coherent
    <3>4. QED
      BY <3>1, <3>2, <3>3, <1>rr, <1>ss, <1>ns, <1>vv, <1>nv DEF AllCoherent, RowsCoherent
  <2>4. CASE SendAlert(q, u)
    <3>1. \A p \in Proxies, w \in Workers :
            /\ row'[p] = row[p] /\ snap'[p][w] = snap[p][w]
            /\ verdict'[p][w] = verdict[p][w] \/ verdict'[p][w] = NoVerdict
      BY <2>4 DEF SendAlert, TypeOK
    <3>2. QED
      BY <3>1, <1>rr, <1>ss, <1>vv, <1>nv DEF AllCoherent, RowsCoherent
  <2>5. QED
    BY <1>2, <2>1, <2>2, <2>3, <2>4 DEF WorkerNext
<1>3. CASE \E p \in Proxies, w \in Checkers : FinishEdit(p, w)
  <2>1. PICK q \in Proxies, u \in Checkers : FinishEdit(q, u)
    BY <1>3
  <2>2. snap' = snap /\ verdict' = verdict /\ now' = now
    BY <2>1 DEF FinishEdit
  <2>3. row' = row \/ row' = [row EXCEPT ![q].status = "pending"]
    BY <2>1 DEF FinishEdit
  <2>4. ASSUME row' = [row EXCEPT ![q].status = "pending"] PROVE Coherent(row[q])'
    <3>1. /\ row'[q].status = "pending" /\ row'[q].since = row[q].since
          /\ row'[q].sent = row[q].sent
      BY <2>4, <1>r DEF TypeOK, Rows
    <3>2. QED
      BY <2>2, <3>1, <1>R DEF Coherent
  <2>5. \A p \in Proxies : row'[p] = row[p] \/ (p = q /\ row' = [row EXCEPT ![q].status = "pending"])
    BY <2>3 DEF TypeOK
  <2>6. QED
    BY <2>2, <2>4, <2>5, <1>rr, <1>ss, <1>vv DEF AllCoherent, RowsCoherent
<1>4. CASE Restart
  <2>1. \A p \in Proxies, w \in Workers :
          row'[p] = row[p] /\ snap'[p][w] = NoSnapshot /\ verdict'[p][w] = NoVerdict
    BY <1>4 DEF Restart
  <2>2. \A p \in Proxies : Coherent(row[p])'
    BY <2>1, <1>rr DEF Workers
  <2>3. \A p \in Proxies, w \in Workers :
          Coherent(snap[p][w].row)' /\ Coherent(verdict[p][w].row)'
    BY <2>1, <1>ns, <1>nv
  <2>4. QED
    BY <2>2, <2>3 DEF AllCoherent, RowsCoherent
\* The other steps touch none of the three.
<1>5. CASE row' = row /\ snap' = snap /\ verdict' = verdict
  BY <1>5, <1>rr, <1>ss, <1>vv DEF AllCoherent, RowsCoherent
<1>6. CASE \E p \in Proxies, w \in Checkers : Create(p, w)
  BY <1>5, <1>6 DEF Create
<1>7. CASE \E p \in Proxies : StartEdit(p) \/ FailEdit(p) \/ Delete(p) \/ Flip(p)
  BY <1>5, <1>7 DEF StartEdit, FailEdit, Delete, Flip
<1>8. CASE Tick \/ UNCHANGED vars
  BY <1>5, <1>8 DEF Tick, vars
<1>9. QED
  BY <1>1, <1>2, <1>3, <1>4, <1>6, <1>7, <1>8 DEF Next

\* Status, beginning of the outage and alert flag of every row agree at all
\* times, however stale the checks, the edits and the polls that wrote them.
THEOREM GraceRowsCoherent == Spec => []RowsCoherent
<1>1. Init => TypeOK
  BY GraceConstants, GraceDefaults DEF Init, TypeOK, Workers, Alerts, CheckStatuses, Pcs
<1>2. Init => AllCoherent
  BY GraceConstants DEF Init, AllCoherent, RowsCoherent, Coherent, FreshRow, NoSnapshot, NoVerdict
<1>3. AllCoherent => RowsCoherent
  BY DEF AllCoherent
<1>4. QED
  BY <1>1, <1>2, <1>3, GraceTypeStep, CoherentStep, PTL DEF Spec

----------------------------------------------------------------------------
(* One red alert per outage. The counter of red alerts and the alert flag   *)
(* are written by different steps of a check, from a snapshot taken         *)
(* earlier, so the invariant has to follow a check through its stages. It   *)
(* speaks of the proxies no two checks of which ever ran at the same time.  *)

\* The check has read the row and has not ended.
InCheck(p, w) == pc[p][w] \in {"probe", "commit", "alert"}

OneCheck(p) == \A w, u \in Workers : InCheck(p, w) /\ InCheck(p, u) => w = u

\* A proxy that was not created yet has no check, no alert and a fresh row.
Unborn(p) ==
  config[p] = 0 => p \notin live /\ ~Busy(p) /\ reds[p] = 0 /\ row[p] = FreshRow

\* The outage the check read is the outage the row still tells of. Its status
\* may have become `pending` meanwhile.
Follows(p) ==
  \A w \in Workers : pc[p][w] \in {"probe", "commit"} =>
    /\ snap[p][w].row.since = row[p].since
    /\ snap[p][w].row.sent = row[p].sent
    /\ row[p].status = "error" => snap[p][w].row.status = "error"

\* What a transition does to the outage of the row r: a red alert is the one
\* that raises the flag, and the flag does not fall while the outage lasts.
Grows(r, v) ==
  /\ v.alert = "red" => ~r.sent /\ v.row.sent /\ v.row.since = r.since
  /\ r.sent /\ v.row.since = r.since => v.row.sent
  /\ v.row.sent => v.alert = "red" \/ (r.sent /\ v.row.since = r.since)
  /\ r.status = "error" /\ v.row.status = "error" => v.row.since = r.since

Decided(p) ==
  \A w \in Workers : pc[p][w] = "commit" => Grows(snap[p][w].row, verdict[p][w])

\* A red alert was delivered once, and the flag remembers it, unless the row
\* was deleted under the check that sent it.
Told(p) == reds[p] <= 1 /\ (reds[p] = 1 => row[p].sent \/ (p \notin live /\ ~Busy(p)))

\* A red alert about to be sent is the first of its outage.
Telling(p) ==
  \A w \in Workers : pc[p][w] = "alert" /\ verdict[p][w].alert = "red" =>
    reds[p] = 0 /\ (row[p].sent \/ p \notin live)

\* A raised flag has its alert, delivered, on its way or lost.
Explained(p) ==
  p \in live /\ row[p].sent =>
    \/ p \in excused
    \/ reds[p] = 1
    \/ \E w \in Workers : pc[p][w] = "alert" /\ verdict[p][w].alert = "red"

ProxyInv(p) ==
  /\ OneCheck(p) /\ Unborn(p) /\ Follows(p) /\ Decided(p)
  /\ Told(p) /\ Telling(p) /\ Explained(p)

GraceInv == \A p \in Proxies \ overlapped : ProxyInv(p)

\* evaluate_transition treats the outage of a coherent row as Grows says.
LEMMA EvaluateGrows ==
  ASSUME NEW r \in Rows, Coherent(r), now \in Times, NEW outcome \in {"working", "error"}
  PROVE  Grows(r, Evaluate(r, outcome, now))
<1>0. /\ now \in Nat /\ AlertAfter \in Nat \ {0} /\ NoTime \notin Nat /\ Times \subseteq Nat
      /\ r.sent \in BOOLEAN /\ r.since \in Nat \cup {NoTime} /\ ~(now >= now + AlertAfter)
  BY GraceConstants DEF Times, Rows
<1>1. CASE outcome = "working"
  <2>1. /\ Evaluate(r, outcome, now).row = [status |-> "working", since |-> NoTime, sent |-> FALSE]
        /\ Evaluate(r, outcome, now).alert # "red"
    BY <1>1 DEF Evaluate
  <2>2. QED
    BY <1>0, <2>1 DEF Grows, Coherent
<1>2. CASE outcome = "error" /\ r.status # "error"
  <2>1. Evaluate(r, outcome, now) =
          [row |-> [status |-> "error", since |-> now, sent |-> FALSE], alert |-> "none"]
    BY <1>2 DEF Evaluate
  <2>2. QED
    BY <1>0, <1>2, <2>1 DEF Grows, Coherent
<1>3. CASE outcome = "error" /\ r.status = "error"
  <2>1. r.since # NoTime
    BY <1>3 DEF Coherent
  <2>2. CASE ~r.sent /\ now >= r.since + AlertAfter
    <3>1. Evaluate(r, outcome, now) =
            [row |-> [status |-> "error", since |-> r.since, sent |-> TRUE], alert |-> "red"]
      BY <1>3, <2>1, <2>2 DEF Evaluate
    <3>2. QED
      BY <2>2, <3>1 DEF Grows
  <2>3. CASE r.sent \/ ~(now >= r.since + AlertAfter)
    <3>1. /\ Evaluate(r, outcome, now).row.sent = r.sent
          /\ Evaluate(r, outcome, now).row.since = r.since
          /\ Evaluate(r, outcome, now).alert = "none"
      BY <1>0, <1>3, <2>1, <2>3 DEF Evaluate
    <3>2. QED
      BY <3>1 DEF Grows
  <2>4. QED
    BY <1>0, <2>2, <2>3
<1>4. QED
  BY <1>1, <1>2, <1>3

\* A step that leaves a proxy, its row and its checks alone keeps its part of
\* the invariant.
LEMMA ProxyUntouched ==
  ASSUME NEW p \in Proxies, ProxyInv(p),
         row'[p] = row[p], config'[p] = config[p], (p \in live') = (p \in live),
         reds'[p] = reds[p], excused \subseteq excused',
         \A w \in Workers :
           pc'[p][w] = pc[p][w] /\ snap'[p][w] = snap[p][w] /\ verdict'[p][w] = verdict[p][w]
  PROVE  ProxyInv(p)'
<1>1. OneCheck(p)' /\ (Busy(p)' <=> Busy(p))
  BY DEF ProxyInv, OneCheck, InCheck, Busy
<1>2. Unborn(p)' /\ Told(p)'
  BY <1>1 DEF ProxyInv, Unborn, Told
<1>3. Follows(p)' /\ Decided(p)'
  <2>1. Follows(p)'
    BY DEF ProxyInv, Follows
  <2>2. \A w \in Workers : pc'[p][w] = "commit" => Grows(snap'[p][w].row, verdict'[p][w])
    BY DEF ProxyInv, Decided
  <2>3. QED
    BY <2>1, <2>2 DEF Decided, Grows
<1>4. Telling(p)' /\ Explained(p)'
  BY DEF ProxyInv, Telling, Explained
<1>5. QED
  BY <1>1, <1>2, <1>3, <1>4 DEF ProxyInv

\* A check that begins on a proxy without one follows the row it has read.
LEMMA CheckBegins ==
  ASSUME TypeOK, NEW p \in Proxies, NEW w \in Workers, ProxyInv(p), p \in live, ~Busy(p),
         row' = row, config' = config, live' = live, reds' = reds, excused' = excused,
         verdict' = verdict,
         \A u \in Workers : pc'[p][u] = IF u = w THEN "probe" ELSE pc[p][u],
         \A u \in Workers : snap'[p][u] = IF u = w THEN TakeSnapshot(p) ELSE snap[p][u]
  PROVE  ProxyInv(p)'
<1>1. \A u \in Workers : ~InCheck(p, u)
  BY DEF Busy, InCheck
<1>2. OneCheck(p)'
  BY <1>1 DEF OneCheck, InCheck
<1>3. Unborn(p)'
  BY DEF ProxyInv, Unborn
<1>4. Follows(p)'
  <2> SUFFICES ASSUME NEW u \in Workers, pc'[p][u] \in {"probe", "commit"}
               PROVE  /\ snap'[p][u].row.since = row'[p].since
                      /\ snap'[p][u].row.sent = row'[p].sent
                      /\ row'[p].status = "error" => snap'[p][u].row.status = "error"
    BY DEF Follows
  <2>1. u = w
    BY <1>1 DEF InCheck
  <2>2. snap'[p][u].row = row[p]
    BY <2>1 DEF TakeSnapshot
  <2>3. QED
    BY <2>2
<1>5. Decided(p)'
  BY <1>1 DEF Decided, InCheck
<1>6. Told(p)'
  BY DEF ProxyInv, Told
<1>7. Telling(p)' /\ Explained(p)'
  BY <1>1 DEF ProxyInv, Telling, Explained, InCheck
<1>8. QED
  BY <1>2, <1>3, <1>4, <1>5, <1>6, <1>7 DEF ProxyInv

\* When no worker is inside a check, only the row and the counters matter.
LEMMA NoCheck ==
  ASSUME NEW p \in Proxies, \A w \in Workers : ~InCheck(p, w),
         Unborn(p), reds[p] <= 1, reds[p] = 1 => row[p].sent \/ p \notin live,
         p \in live /\ row[p].sent => p \in excused \/ reds[p] = 1
  PROVE  ProxyInv(p)
BY DEF ProxyInv, OneCheck, Follows, Decided, Told, Telling, Explained, InCheck, Busy

\* Every step of a check keeps the invariant of its proxy.
LEMMA CheckStep ==
  ASSUME TypeOK, AllCoherent, NEW p \in Proxies, NEW w \in Workers, WorkerNext(p, w),
         p \notin overlapped', ProxyInv(p)
  PROVE  ProxyInv(p)'
<1> USE DEF tables, environment, workers, failures, history
<1>0. /\ row[p] \in Rows /\ reds[p] \in Nat
      /\ \A u \in Workers : /\ snap[p][u] \in Snapshots /\ snap[p][u].row \in Rows
                            /\ verdict[p][u] \in Verdicts /\ verdict[p][u].row \in Rows
                            /\ pc[p][u] \in Pcs
  BY DEF TypeOK, Snapshots, Verdicts
<1>i. OneCheck(p) /\ Unborn(p) /\ Follows(p) /\ Decided(p) /\ Told(p) /\ Telling(p) /\ Explained(p)
  BY DEF ProxyInv
<1>1. CASE CheckOne(p, w)
  <2>1. CASE p \in live
    <3>1. ~Busy(p)
      BY <1>1, <2>1 DEF CheckOne
    <3>2. /\ \A u \in Workers : pc'[p][u] = IF u = w THEN "probe" ELSE pc[p][u]
          /\ \A u \in Workers : snap'[p][u] = IF u = w THEN TakeSnapshot(p) ELSE snap[p][u]
      BY <1>1, <2>1 DEF CheckOne, TypeOK
    <3>3. QED
      BY <1>1, <2>1, <3>1, <3>2, CheckBegins DEF CheckOne
  <2>2. CASE p \notin live
    <3>1. /\ \A u \in Workers : pc'[p][u] = IF u = w THEN "idle" ELSE pc[p][u]
          /\ pc[p][w] = "start"
          /\ row' = row /\ config' = config /\ live' = live /\ reds' = reds
          /\ excused' = excused /\ snap' = snap /\ verdict' = verdict
      BY <1>1, <2>2 DEF CheckOne, TypeOK
    <3>2. \A u \in Workers : InCheck(p, u)' <=> InCheck(p, u)
      BY <3>1 DEF InCheck
    <3>3. OneCheck(p)' /\ (Busy(p)' <=> Busy(p))
      BY <1>i, <3>2 DEF OneCheck, Busy, InCheck
    <3>4. Unborn(p)' /\ Told(p)'
      BY <1>i, <3>1, <3>3 DEF Unborn, Told
    <3>5. Follows(p)' /\ Decided(p)'
      BY <1>i, <3>1 DEF Follows, Decided, Grows
    <3>6. Telling(p)' /\ Explained(p)'
      BY <1>i, <2>2, <3>1 DEF Telling, Explained
    <3>7. QED
      BY <3>3, <3>4, <3>5, <3>6 DEF ProxyInv
  <2>3. QED
    BY <2>1, <2>2
<1>2. CASE Probe(p, w)
  <2>1. PICK outcome \in {"working", "error"} :
          verdict' = [verdict EXCEPT ![p][w] = Evaluate(snap[p][w].row, outcome, now)]
    BY <1>2 DEF Probe
  <2>2. /\ \A u \in Workers : pc'[p][u] = IF u = w THEN "commit" ELSE pc[p][u]
        /\ pc[p][w] = "probe"
        /\ row' = row /\ config' = config /\ live' = live /\ reds' = reds
        /\ excused' = excused /\ snap' = snap
    BY <1>2 DEF Probe, TypeOK
  <2>3. \A u \in Workers :
          verdict'[p][u] = IF u = w THEN Evaluate(snap[p][w].row, outcome, now) ELSE verdict[p][u]
    BY <2>1 DEF TypeOK
  <2>4. Grows(snap[p][w].row, Evaluate(snap[p][w].row, outcome, now))
    <3>1. Coherent(snap[p][w].row) /\ now \in Times
      BY DEF AllCoherent, TypeOK
    <3>2. QED
      BY <1>0, <3>1, EvaluateGrows
  <2>5. \A u \in Workers : InCheck(p, u)' <=> InCheck(p, u)
    BY <2>2 DEF InCheck
  <2>6. OneCheck(p)' /\ (Busy(p)' <=> Busy(p))
    BY <1>i, <2>5 DEF OneCheck, Busy, InCheck
  <2>7. Unborn(p)' /\ Told(p)'
    BY <1>i, <2>2, <2>6 DEF Unborn, Told
  <2>8. Follows(p)'
    BY <1>i, <2>2 DEF Follows
  <2>9. Decided(p)'
    <3> SUFFICES ASSUME NEW u \in Workers, pc'[p][u] = "commit"
                 PROVE  Grows(snap'[p][u].row, verdict'[p][u])
      BY DEF Decided, Grows
    <3>1. CASE u = w
      BY <2>2, <2>3, <2>4, <3>1
    <3>2. CASE u # w
      BY <1>i, <2>2, <2>3, <3>2 DEF Decided
    <3>3. QED
      BY <3>1, <3>2
  <2>10. Telling(p)' /\ Explained(p)'
    BY <1>i, <2>2, <2>3 DEF Telling, Explained
  <2>11. QED
    BY <2>6, <2>7, <2>8, <2>9, <2>10 DEF ProxyInv
<1>3. CASE Commit(p, w)
  <2> DEFINE v == verdict[p][w]
             r == snap[p][w].row
  <2>1. /\ pc[p][w] = "commit"
        /\ \A u \in Workers :
             pc'[p][u] = IF u = w THEN (IF v.alert = "none" THEN "idle" ELSE "alert") ELSE pc[p][u]
        /\ row'[p] = IF p \in live THEN v.row ELSE row[p]
        /\ reds'[p] = IF p \in live /\ v.row.since # row[p].since THEN 0 ELSE reds[p]
        /\ live' = live /\ config' = config /\ excused' = excused
        /\ v.alert # "none" => verdict'[p][w] = v
    BY <1>3 DEF Commit, TypeOK
  <2>2. /\ Grows(r, v) /\ r.since = row[p].since /\ r.sent = row[p].sent
    BY <1>i, <2>1 DEF Decided, Follows
  <2>3. \A u \in Workers : u # w => ~InCheck(p, u) /\ ~InCheck(p, u)'
    BY <1>i, <2>1 DEF OneCheck, InCheck
  <2>4. Busy(p)
    BY <2>1 DEF Busy
  <2>5. config[p] # 0 /\ (reds[p] = 1 => row[p].sent) /\ (v.alert = "red" => reds[p] = 0)
    <3>1. config[p] # 0
      BY <1>i, <2>4 DEF Unborn
    <3>2. reds[p] = 1 => row[p].sent
      BY <1>i, <2>4 DEF Told
    <3>3. v.alert = "red" => reds[p] = 0
      BY <1>0, <1>i, <2>2, <3>2 DEF Grows, Told
    <3>4. QED
      BY <3>1, <3>2, <3>3
  <2>6. OneCheck(p)'
    BY <2>3 DEF OneCheck
  <2>7. Unborn(p)'
    BY <2>1, <2>5 DEF Unborn
  <2>8. Follows(p)' /\ Decided(p)'
    BY <2>1, <2>3 DEF Follows, Decided, InCheck
  <2>9. Told(p)'
    <3>1. CASE p \in live
      <4>1. reds'[p] = 1 => row'[p].sent
        BY <2>1, <2>2, <2>5, <3>1 DEF Grows
      <4>2. reds'[p] <= 1
        BY <1>i, <2>1 DEF Told
      <4>3. QED
        BY <4>1, <4>2 DEF Told
    <3>2. CASE p \notin live
      BY <1>i, <2>1, <2>5, <3>2 DEF Told
    <3>3. QED
      BY <3>1, <3>2
  <2>10. Telling(p)'
    <3> SUFFICES ASSUME NEW u \in Workers, pc'[p][u] = "alert", verdict'[p][u].alert = "red"
                 PROVE  reds'[p] = 0 /\ (row'[p].sent \/ p \notin live')
      BY DEF Telling
    <3>1. u = w
      BY <2>3 DEF InCheck
    <3>2. v.alert = "red"
      BY <2>1, <3>1
    <3>3. QED
      BY <2>1, <2>2, <2>5, <3>2 DEF Grows
  <2>11. Explained(p)'
    <3> SUFFICES ASSUME p \in live, v.row.sent, p \notin excused
                 PROVE  reds'[p] = 1 \/ (pc'[p][w] = "alert" /\ verdict'[p][w].alert = "red")
      BY <2>1 DEF Explained
    <3>1. CASE v.alert = "red"
      BY <2>1, <3>1
    <3>2. CASE v.alert # "red"
      <4>1. r.sent /\ v.row.since = r.since
        BY <2>2, <3>2 DEF Grows
      <4>2. row[p].sent /\ v.row.since = row[p].since
        BY <2>2, <4>1
      <4>3. reds[p] = 1 \/ \E u \in Workers : pc[p][u] = "alert" /\ verdict[p][u].alert = "red"
        BY <1>i, <4>2 DEF Explained
      <4>4. \A u \in Workers : pc[p][u] # "alert"
        BY <2>1, <2>3 DEF InCheck
      <4>5. QED
        BY <2>1, <4>2, <4>3, <4>4
    <3>3. QED
      BY <3>1, <3>2
  <2>12. QED
    BY <2>6, <2>7, <2>8, <2>9, <2>10, <2>11 DEF ProxyInv
<1>4. CASE SendAlert(p, w)
  <2> DEFINE alert == verdict[p][w].alert
  <2>1. /\ pc[p][w] = "alert"
        /\ \A u \in Workers : pc'[p][u] = IF u = w THEN "idle" ELSE pc[p][u]
        /\ row' = row /\ live' = live /\ config' = config
    BY <1>4 DEF SendAlert, TypeOK
  <2>2. \/ excused' = excused /\ reds'[p] = IF alert = "red" THEN reds[p] + 1 ELSE reds[p]
        \/ p \in excused' /\ reds' = reds
    BY <1>4 DEF SendAlert, TypeOK
  <2>3. \A u \in Workers : ~InCheck(p, u)'
    BY <1>i, <2>1 DEF OneCheck, InCheck
  <2>4. Busy(p) /\ ~Busy(p)'
    BY <2>1, <2>3 DEF Busy, InCheck
  <2>5. Unborn(p)'
    BY <1>i, <2>1, <2>4 DEF Unborn
  <2>6. alert = "red" => reds[p] = 0 /\ (row[p].sent \/ p \notin live)
    BY <1>i, <2>1 DEF Telling
  <2>7. reds'[p] <= 1 /\ (reds'[p] = 1 => row'[p].sent \/ p \notin live')
    BY <1>i, <2>1, <2>2, <2>4, <2>6 DEF Told
  <2>8. p \in live' /\ row'[p].sent => p \in excused' \/ reds'[p] = 1
    <3> SUFFICES ASSUME p \in live, row[p].sent, p \notin excused' PROVE reds'[p] = 1
      BY <2>1
    <3>1. excused' = excused /\ reds'[p] = IF alert = "red" THEN reds[p] + 1 ELSE reds[p]
      BY <2>2
    <3>2. reds[p] = 1 \/ \E u \in Workers : pc[p][u] = "alert" /\ verdict[p][u].alert = "red"
      BY <1>i, <3>1 DEF Explained
    <3>3. (\E u \in Workers : pc[p][u] = "alert" /\ verdict[p][u].alert = "red") => alert = "red"
      BY <1>i, <2>1 DEF OneCheck, InCheck
    <3>4. QED
      BY <2>6, <3>1, <3>2, <3>3
  <2>9. QED
    BY <2>3, <2>5, <2>7, <2>8, <2>4 DEF ProxyInv, OneCheck, Follows, Decided, Told, Telling,
      Explained, InCheck
<1>5. QED
  BY <1>1, <1>2, <1>3, <1>4 DEF WorkerNext

\* An edit keeps what the row says of the outage, creation and deletion leave
\* the row alone, and a restart ends every check.
LEMMA RequestStep ==
  ASSUME TypeOK, NEW p \in Proxies, ProxyInv(p),
         \/ \E w \in Checkers : Create(p, w) \/ FinishEdit(p, w)
         \/ Delete(p)
         \/ Restart
  PROVE  ProxyInv(p)'
<1> USE DEF tables, environment, workers, failures, history
<1>0. row[p] \in Rows /\ reds[p] \in Nat /\ Checkers \subseteq Workers
  BY DEF TypeOK, Workers
<1>i. OneCheck(p) /\ Unborn(p) /\ Follows(p) /\ Decided(p) /\ Told(p) /\ Telling(p) /\ Explained(p)
  BY DEF ProxyInv
<1>1. ASSUME NEW w \in Checkers, Create(p, w) PROVE ProxyInv(p)'
  <2>1. /\ config[p] = 0 /\ config'[p] = 1
        /\ \A u \in Workers : pc'[p][u] = IF u = w THEN "start" ELSE pc[p][u]
        /\ row' = row /\ reds' = reds /\ excused' = excused
    BY <1>1, <1>0 DEF Create, Schedule, TypeOK
  <2>2. p \notin live /\ ~Busy(p) /\ reds[p] = 0 /\ ~row[p].sent
    BY <1>i, <2>1 DEF Unborn, FreshRow
  <2>3. \A u \in Workers : ~InCheck(p, u)'
    BY <2>1, <2>2 DEF InCheck, Busy
  <2>4. QED
    BY <2>1, <2>2, <2>3 DEF ProxyInv, OneCheck, Unborn, Follows, Decided, Told, Telling,
      Explained, InCheck, Busy
<1>2. ASSUME NEW w \in Checkers, FinishEdit(p, w) PROVE ProxyInv(p)'
  <2>1. /\ p \in live /\ live' = live /\ config'[p] = config[p] + 1
        /\ pc[p][w] = "idle"
        /\ \A u \in Workers : pc'[p][u] = IF u = w THEN "start" ELSE pc[p][u]
        /\ reds' = reds /\ excused' = excused /\ snap' = snap /\ verdict' = verdict
    BY <1>0, <1>2 DEF FinishEdit, Schedule, TypeOK
  <2>2. /\ row'[p].since = row[p].since /\ row'[p].sent = row[p].sent
        /\ row'[p].status = "error" => row[p].status = "error"
    BY <1>0, <1>2 DEF FinishEdit, TypeOK, Rows
  <2>3. config[p] # 0 /\ config'[p] # 0
    BY <1>i, <2>1 DEF Unborn, TypeOK
  <2>4. \A u \in Workers : InCheck(p, u)' <=> InCheck(p, u)
    BY <2>1 DEF InCheck
  <2>5. OneCheck(p)' /\ (Busy(p)' <=> Busy(p))
    BY <1>i, <2>4 DEF OneCheck, Busy, InCheck
  <2>6. Unborn(p)' /\ Told(p)'
    BY <1>i, <2>1, <2>2, <2>3, <2>5 DEF Unborn, Told
  <2>7. Follows(p)'
    BY <1>i, <2>1, <2>2 DEF Follows
  <2>8. Decided(p)'
    <3>1. \A u \in Workers : pc'[p][u] = "commit" => Grows(snap'[p][u].row, verdict'[p][u])
      BY <1>i, <2>1 DEF Decided
    <3>2. QED
      BY <3>1 DEF Decided, Grows
  <2>9. Telling(p)' /\ Explained(p)'
    BY <1>i, <2>1, <2>2 DEF Telling, Explained
  <2>10. QED
    BY <2>5, <2>6, <2>7, <2>8, <2>9 DEF ProxyInv
<1>3. CASE Delete(p)
  <2>1. /\ p \notin live' /\ p \in live /\ row' = row /\ config' = config /\ pc' = pc
        /\ reds' = reds /\ snap' = snap /\ verdict' = verdict
    BY <1>3 DEF Delete
  <2>2. config[p] # 0
    BY <1>i, <2>1 DEF Unborn
  <2>3. OneCheck(p)' /\ (Busy(p)' <=> Busy(p))
    BY <1>i, <2>1 DEF OneCheck, Busy, InCheck
  <2>4. Unborn(p)' /\ Told(p)'
    BY <1>i, <2>1, <2>2, <2>3 DEF Unborn, Told
  <2>5. Follows(p)'
    BY <1>i, <2>1 DEF Follows
  <2>6. Decided(p)'
    BY <1>i, <2>1 DEF Decided, Grows
  <2>7. Telling(p)' /\ Explained(p)'
    BY <1>i, <2>1 DEF Telling, Explained
  <2>8. QED
    BY <2>3, <2>4, <2>5, <2>6, <2>7 DEF ProxyInv
<1>4. CASE Restart
  <2>1. /\ \A u \in Workers : pc'[p][u] = "idle"
        /\ row' = row /\ config' = config /\ live' = live /\ reds' = reds
        /\ excused' = excused \cup {q \in Proxies : \E u \in Workers : pc[q][u] = "alert"}
    BY <1>4 DEF Restart
  <2>2. \A u \in Workers : ~InCheck(p, u)'
    BY <2>1 DEF InCheck
  <2>3. p \in live' /\ row'[p].sent => p \in excused' \/ reds'[p] = 1
    BY <1>i, <2>1 DEF Explained
  <2>4. QED
    BY <1>i, <2>1, <2>2, <2>3 DEF ProxyInv, OneCheck, Unborn, Follows, Decided, Told, Telling,
      Explained, InCheck, Busy
<1>5. QED
  BY <1>1, <1>2, <1>3, <1>4

\* Every step keeps the invariant of every proxy whose checks never overlapped.
LEMMA GraceInvStep == TypeOK /\ AllCoherent /\ GraceInv /\ [Next]_vars => GraceInv'
<1> SUFFICES ASSUME TypeOK, AllCoherent, GraceInv, [Next]_vars,
                    NEW p \in Proxies, p \notin overlapped'
             PROVE  ProxyInv(p)'
  BY DEF GraceInv
<1> USE DEF tables, environment, workers, failures, history
<1>0. ProxyInv(p)
  <2>1. overlapped \subseteq overlapped'
    BY DEF Next, WorkerNext, Poll, CheckOne, Probe, Commit, SendAlert, Create, StartEdit,
       FinishEdit, FailEdit, Delete, Flip, Tick, Restart, vars
  <2>2. QED
    BY <2>1 DEF GraceInv
<1>1. CASE Poll
  <2>0. Poller \in Workers
    BY DEF Workers
  <2>1. CASE p \in live
    <3>1. ~Busy(p)
      BY <1>1, <2>1 DEF Poll
    <3>2. /\ \A u \in Workers : pc'[p][u] = IF u = Poller THEN "probe" ELSE pc[p][u]
          /\ \A u \in Workers : snap'[p][u] = IF u = Poller THEN TakeSnapshot(p) ELSE snap[p][u]
      BY <1>1, <2>0, <2>1 DEF Poll, TypeOK
    <3>3. QED
      BY <1>0, <1>1, <2>0, <2>1, <3>1, <3>2, CheckBegins DEF Poll
  <2>2. CASE p \notin live
    BY <1>0, <1>1, <2>2, ProxyUntouched DEF Poll
  <2>3. QED
    BY <2>1, <2>2
<1>2. ASSUME NEW q \in Proxies, NEW w \in Workers, WorkerNext(q, w) PROVE ProxyInv(p)'
  <2>1. CASE q = p
    BY <1>0, <1>2, <2>1, CheckStep
  <2>2. CASE q # p
    <3>1. /\ row'[p] = row[p] /\ config' = config /\ live' = live /\ reds'[p] = reds[p]
          /\ excused \subseteq excused'
          /\ pc'[p] = pc[p] /\ snap'[p] = snap[p] /\ verdict'[p] = verdict[p]
      BY <1>2, <2>2 DEF WorkerNext, CheckOne, Probe, Commit, SendAlert, TypeOK
    <3>2. QED
      BY <1>0, <3>1, ProxyUntouched
  <2>3. QED
    BY <2>1, <2>2
<1>3. ASSUME NEW q \in Proxies, NEW w \in Checkers, Create(q, w) \/ FinishEdit(q, w)
      PROVE  ProxyInv(p)'
  <2>1. CASE q = p
    BY <1>0, <1>3, <2>1, RequestStep
  <2>2. CASE q # p
    <3>1. /\ row'[p] = row[p] /\ config'[p] = config[p] /\ (p \in live') = (p \in live)
          /\ reds' = reds /\ excused' = excused
          /\ pc'[p] = pc[p] /\ snap' = snap /\ verdict' = verdict
      BY <1>3, <2>2 DEF Create, FinishEdit, Schedule, TypeOK
    <3>2. QED
      BY <1>0, <3>1, ProxyUntouched
  <2>3. QED
    BY <2>1, <2>2
<1>4. ASSUME NEW q \in Proxies, Delete(q) PROVE ProxyInv(p)'
  <2>1. CASE q = p
    BY <1>0, <1>4, <2>1, RequestStep
  <2>2. CASE q # p
    <3>1. /\ row' = row /\ config' = config /\ (p \in live') = (p \in live)
          /\ reds' = reds /\ excused' = excused
          /\ pc' = pc /\ snap' = snap /\ verdict' = verdict
      BY <1>4, <2>2 DEF Delete
    <3>2. QED
      BY <1>0, <3>1, ProxyUntouched
  <2>3. QED
    BY <2>1, <2>2
<1>5. CASE Restart
  BY <1>0, <1>5, RequestStep
<1>6. CASE (\E q \in Proxies : StartEdit(q) \/ FailEdit(q) \/ Flip(q)) \/ Tick \/ UNCHANGED vars
  <2>1. /\ row' = row /\ config' = config /\ live' = live /\ reds' = reds /\ excused' = excused
        /\ pc' = pc /\ snap' = snap /\ verdict' = verdict
    BY <1>6 DEF StartEdit, FailEdit, Flip, Tick, vars
  <2>2. QED
    BY <1>0, <2>1, ProxyUntouched
<1>7. QED
  BY <1>1, <1>2, <1>3, <1>4, <1>5, <1>6 DEF Next

\* The three parts of the invariant hold together at all times.
LEMMA GraceInvariant == Spec => [](TypeOK /\ AllCoherent /\ GraceInv)
<1>1. Init => TypeOK
  BY GraceConstants, GraceDefaults DEF Init, TypeOK, Workers, Alerts, CheckStatuses, Pcs
<1>2. Init => AllCoherent
  BY GraceConstants DEF Init, AllCoherent, RowsCoherent, Coherent, FreshRow, NoSnapshot, NoVerdict
<1>3. Init => GraceInv
  BY DEF Init, GraceInv, ProxyInv, OneCheck, Unborn, Follows, Decided, Told, Telling, Explained,
    InCheck, Busy, FreshRow
<1>4. QED
  BY <1>1, <1>2, <1>3, GraceTypeStep, CoherentStep, GraceInvStep, PTL DEF Spec

\* One outage raises at most one red alert, across restarts, edits and lost
\* messages, of every proxy of which no two checks ever ran at the same time.
THEOREM GraceOneRedPerOutage == Spec => []OneRedPerOutage
<1>1. GraceInv => OneRedPerOutage
  BY DEF GraceInv, ProxyInv, Told, OneRedPerOutage
<1>2. QED
  BY <1>1, GraceInvariant, PTL

\* The alert flag of an existing proxy is up only if its red alert was
\* delivered or is just being sent, unless Telegram or a restart lost it.
THEOREM GraceFlagMeansAlert == Spec => []FlagMeansAlert
<1>1. TypeOK /\ GraceInv => FlagMeansAlert
  <2> SUFFICES ASSUME TypeOK, GraceInv, NEW p \in live \ (overlapped \cup excused), row[p].sent
               PROVE  reds[p] = 1 \/ \E w \in Workers :
                        pc[p][w] = "alert" /\ verdict[p][w].alert = "red"
    BY DEF FlagMeansAlert
  <2>1. Explained(p)
    BY DEF TypeOK, GraceInv, ProxyInv
  <2>2. QED
    BY <2>1 DEF Explained
<1>2. QED
  BY <1>1, GraceInvariant, PTL

\* A failing proxy does not reopen its grace window: no step of a check, an
\* edit or a restart moves the beginning of an outage the row still tells of.
THEOREM GraceWindowNotReopened == Spec => WindowNotReopened
<1>1. ASSUME TypeOK, GraceInv, [Next]_vars, NEW p \in Proxies, p \notin overlapped',
             row[p].status = "error", row'[p].status = "error"
      PROVE  row'[p].since = row[p].since
  <2> USE DEF tables, environment, workers, failures, history
  <2>0. row[p] \in Rows
    BY <1>1 DEF TypeOK
  <2>1. CASE \E w \in Workers : Commit(p, w)
    <3>1. PICK w \in Workers : Commit(p, w)
      BY <2>1
    <3>2. /\ pc[p][w] = "commit" /\ overlapped' = overlapped
          /\ row'[p] = row[p] \/ row'[p] = verdict[p][w].row
      BY <1>1, <3>1 DEF Commit, TypeOK
    <3>3. Follows(p) /\ Decided(p)
      BY <1>1, <3>2 DEF GraceInv, ProxyInv
    <3>4. /\ snap[p][w].row.status = "error" /\ snap[p][w].row.since = row[p].since
          /\ Grows(snap[p][w].row, verdict[p][w])
      BY <1>1, <3>2, <3>3 DEF Follows, Decided
    <3>5. QED
      BY <1>1, <3>2, <3>4 DEF Grows
  <2>2. CASE \E w \in Checkers : FinishEdit(p, w)
    BY <1>1, <2>0, <2>2 DEF FinishEdit, TypeOK, Rows
  <2>3. CASE ~(\E w \in Workers : Commit(p, w)) /\ ~(\E w \in Checkers : FinishEdit(p, w))
    <3>1. CASE \E q \in Proxies, w \in Workers : WorkerNext(q, w)
      <4>1. PICK q \in Proxies, w \in Workers : WorkerNext(q, w)
        BY <3>1
      <4>2. row' = row \/ (q # p /\ row' = [row EXCEPT ![q] = verdict[q][w].row])
        BY <2>3, <4>1 DEF WorkerNext, CheckOne, Probe, Commit, SendAlert
      <4>3. QED
        BY <1>1, <4>2 DEF TypeOK
    <3>2. CASE \E q \in Proxies, w \in Checkers : Create(q, w) \/ FinishEdit(q, w)
      <4>1. PICK q \in Proxies, w \in Checkers : Create(q, w) \/ FinishEdit(q, w)
        BY <3>2
      <4>2. row' = row \/ (q # p /\ row' = [row EXCEPT ![q].status = "pending"])
        BY <2>3, <4>1 DEF Create, FinishEdit
      <4>3. QED
        BY <1>1, <4>2 DEF TypeOK
    <3>3. CASE row' = row
      BY <3>3
    <3>4. QED
      BY <1>1, <3>1, <3>2, <3>3 DEF Next, Poll, StartEdit, FailEdit, Delete, Flip, Tick,
        Restart, vars
  <2>4. QED
    BY <2>1, <2>2, <2>3
<1>2. TypeOK /\ GraceInv /\ [Next]_vars =>
        \A p \in Proxies \ overlapped' :
          row[p].status = "error" /\ row'[p].status = "error" => row'[p].since = row[p].since
  BY <1>1
<1>3. QED
  BY <1>2, GraceInvariant, PTL DEF Spec, WindowNotReopened
=============================================================================
