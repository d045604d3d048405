------------------------- MODULE ProvisioningProofs -------------------------
(***************************************************************************)
(* Proofs about provisioning, for any number of servers, crashes and       *)
(* faults. None of the three safety properties is inductive by itself:     *)
(* each needs to know what the task of a server has already done, and what *)
(* the start of the process still has to do.                               *)
(***************************************************************************)
EXTENDS Provisioning, TLAPS

Online(s) == Live(s) /\ row[s].status = "online"

\* While the process starts nothing else runs; ids are never used twice.
Quiet ==
  /\ phase # "up" => /\ unlinking = {}
                     /\ \A s \in Servers : task[s] = "none"
                     /\ \A r \in Requests : request[r] = NoHost
  /\ phase # "write" => todo = {}
  /\ \A s \in Servers : (Live(s) \/ task[s] # "none" \/ s \in unlinking) => s \in used
  /\ \A s \in unlinking : ~Live(s)

\* An online server has its file, or the start is about to write it; a task
\* that has registered a server has written the file.
TargetInv ==
  /\ phase = "up" => \A s \in Servers \ blind : Online(s) => s \in file
  /\ phase = "write" => \A s \in Servers \ blind : Online(s) => s \in file \cup todo
  /\ \A s \in Servers : task[s] = "registered" /\ Live(s) => s \in file

\* Whatever may be written to a file has been installed.
InstalledInv ==
  /\ file \subseteq installed
  /\ todo \subseteq installed
  /\ \A s \in Servers : Online(s) \/ task[s] = "registered" => s \in installed

\* A file lacks a row only after a deletion that raced or that the disk refused;
\* a task without a row belongs to a server deleted under it.
RacedInv ==
  /\ \A s \in file : Live(s) \/ s \in unlinking \cup raced \cup kept
  /\ \A s \in Servers : task[s] # "none" => Live(s) \/ s \in raced
  /\ \A s \in todo : Live(s)

ProvisionInv == Quiet /\ TargetInv /\ InstalledInv /\ RacedInv

\* The absent row is a row, and every kind of update keeps the table typed.
LEMMA NoRowType == NoRow \in Rows
BY ProvisioningConstants DEF NoRow, Rows, Statuses

\* What setting a status does to the table: only the status and the time of a
\* row that exists change.
LEMMA SetStatusRows ==
  ASSUME TypeOK, NEW s \in Servers, NEW st \in Statuses, SetStatus(s, st)
  PROVE  /\ row' \in [Servers -> Rows]
         /\ \A t \in Servers : row'[t].host = row[t].host
         /\ \A t \in Servers : t # s => row'[t] = row[t]
         /\ Live(s) => row'[s].status = st
BY DEF TypeOK, SetStatus, Rows, Live

\* Every step keeps every variable in its type.
LEMMA ProvisionTypeStep == TypeOK /\ [Next]_vars => TypeOK'
<1> SUFFICES ASSUME TypeOK, [Next]_vars PROVE TypeOK'
  OBVIOUS
<1> USE ProvisioningConstants, NoRowType DEF database, process, bounds, history
<1>1. ASSUME NEW r \in Requests, CheckHost(r) PROVE TypeOK'
  BY <1>1 DEF CheckHost, TypeOK
<1>2. ASSUME NEW r \in Requests, Insert(r) PROVE TypeOK'
  <2>1. request' \in [Requests -> Hosts \cup {NoHost}]
    BY <1>2 DEF Insert, TypeOK
  <2>2. row' \in [Servers -> Rows]
    <3>1. [host |-> request[r], status |-> "pending", stamp |-> now] \in Rows
      BY DEF TypeOK, Rows, Statuses
    <3>2. QED
      BY <1>2, <3>1 DEF Insert, TypeOK
  <2>3. used' \subseteq Servers /\ task' \in [Servers -> Tasks]
    BY <1>2 DEF Insert, TypeOK, Tasks
  <2>4. QED
    BY <1>2, <2>1, <2>2, <2>3 DEF Insert, TypeOK
<1>3. ASSUME NEW s \in Servers, Touch(s) PROVE TypeOK'
  <2>1. row' \in [Servers -> Rows]
    BY <1>3 DEF Touch, TypeOK, Rows
  <2>2. QED
    BY <1>3, <2>1 DEF Touch, TypeOK
<1>4. ASSUME NEW s \in Servers, Delete(s) PROVE TypeOK'
  BY <1>4 DEF Delete, TypeOK
<1>5. ASSUME NEW s \in Servers, Unlink(s) PROVE TypeOK'
  BY <1>5 DEF Unlink, TypeOK
<1>6. ASSUME NEW s \in Servers, BeginInstalling(s) PROVE TypeOK'
  <2>1. row' \in [Servers -> Rows]
    BY <1>6, SetStatusRows DEF BeginInstalling, TypeOK, Statuses
  <2>2. task' \in [Servers -> Tasks]
    BY <1>6 DEF BeginInstalling, TypeOK, Tasks
  <2>3. QED
    BY <1>6, <2>1, <2>2 DEF BeginInstalling, TypeOK
<1>7. ASSUME NEW s \in Servers, Playbook(s) PROVE TypeOK'
  BY <1>7 DEF Playbook, TypeOK, Tasks
<1>8. ASSUME NEW s \in Servers, Finish(s) PROVE TypeOK'
  <2>1. row' \in [Servers -> Rows]
    BY <1>8, SetStatusRows DEF Finish, Statuses
  <2>2. QED
    BY <1>8, <2>1 DEF Finish, TypeOK, Tasks
<1>9. ASSUME NEW s \in Servers, TaskDies(s) PROVE TypeOK'
  BY <1>9 DEF TaskDies, TypeOK, Tasks
<1>10. CASE RecoverStuck
  <2>1. row' \in [Servers -> Rows]
    BY <1>10 DEF RecoverStuck, TypeOK, Rows, Statuses
  <2>2. QED
    BY <1>10, <2>1 DEF RecoverStuck, TypeOK
<1>11. CASE ListOnline \/ Serve
  BY <1>11 DEF ListOnline, Serve, TypeOK
<1>12. ASSUME NEW s \in Servers, Regenerate(s) PROVE TypeOK'
  BY <1>12 DEF Regenerate, TypeOK
<1>13. CASE StartFails
  BY <1>13 DEF StartFails, TypeOK
<1>14. CASE Restart
  BY <1>14 DEF Restart, TypeOK, Tasks
<1>15. CASE Tick
  BY <1>15 DEF Tick, TypeOK
<1>16. CASE UNCHANGED vars
  BY <1>16 DEF vars, TypeOK
<1>17. QED
  BY <1>1, <1>2, <1>3, <1>4, <1>5, <1>6, <1>7, <1>8, <1>9, <1>10, <1>11, <1>12, <1>13, <1>14,
     <1>15, <1>16 DEF Next, TaskNext, Start

\* Rows, files, tasks and the start are well typed at all times.
THEOREM ProvisionTypeCorrect == Spec => []TypeOK
<1>1. Init => TypeOK
  BY ProvisioningConstants, NoRowType DEF Init, TypeOK, Tasks
<1>2. QED
  BY <1>1, ProvisionTypeStep, PTL DEF Spec

----------------------------------------------------------------------------

\* Every step keeps the inductive invariant.
LEMMA ProvisionStep == TypeOK /\ ProvisionInv /\ [Next]_vars => ProvisionInv'
<1> SUFFICES ASSUME TypeOK, ProvisionInv, [Next]_vars PROVE ProvisionInv'
  OBVIOUS
<1> USE DEF ProvisionInv, database, process, bounds, history, Online, Live
<1>1. ASSUME NEW r \in Requests, CheckHost(r) PROVE ProvisionInv'
  BY <1>1 DEF CheckHost, Quiet, TargetInv, InstalledInv, RacedInv
<1>2. ASSUME NEW r \in Requests, Insert(r) PROVE ProvisionInv'
  <2>1. CASE UNCHANGED <<row, used, task>>
    BY <1>2, <2>1 DEF Insert, Quiet, TargetInv, InstalledInv, RacedInv
  <2>2. ASSUME NEW s \in Servers \ used,
               row' = [row EXCEPT ![s] = [host |-> request[r], status |-> "pending", stamp |-> now]],
               used' = used \cup {s},
               task' = [task EXCEPT ![s] = "scheduled"],
               phase = "up"
        PROVE  ProvisionInv'
    <3>1. /\ \A t \in Servers : t # s => row'[t] = row[t] /\ task'[t] = task[t]
          /\ row'[s].host # NoHost /\ row'[s].status = "pending" /\ task'[s] = "scheduled"
      BY <1>2, <2>2 DEF TypeOK, Insert
    <3>2. /\ file' = file /\ unlinking' = unlinking /\ phase' = phase /\ todo' = todo
          /\ UNCHANGED <<installed, blind, raced, kept>>
      BY <1>2 DEF Insert
    <3>3. Quiet'
      BY <2>2, <3>1, <3>2 DEF Quiet
    <3>4. TargetInv'
      BY <2>2, <3>1, <3>2 DEF TargetInv
    <3>5. InstalledInv'
      BY <2>2, <3>1, <3>2 DEF InstalledInv
    <3>6. RacedInv'
      BY <2>2, <3>1, <3>2 DEF RacedInv, TypeOK
    <3>7. QED
      BY <3>3, <3>4, <3>5, <3>6
  <2>3. phase = "up"
    BY <1>2 DEF Insert, Quiet
  <2>4. QED
    BY <1>2, <2>1, <2>2, <2>3 DEF Insert
<1>3. ASSUME NEW s \in Servers, Touch(s) PROVE ProvisionInv'
  <2>1. \A t \in Servers : row'[t].host = row[t].host /\ row'[t].status = row[t].status
    BY <1>3 DEF Touch, TypeOK, Rows
  <2>2. QED
    BY <1>3, <2>1 DEF Touch, Quiet, TargetInv, InstalledInv, RacedInv, TypeOK
<1>4. ASSUME NEW s \in Servers, Delete(s) PROVE ProvisionInv'
  <2>1. /\ \A t \in Servers : t # s => row'[t] = row[t]
        /\ row'[s].host = NoHost
    BY <1>4 DEF Delete, TypeOK, NoRow
  <2>2. Quiet'
    BY <1>4, <2>1 DEF Delete, Quiet, TypeOK
  <2>3. TargetInv'
    BY <1>4, <2>1 DEF Delete, TargetInv
  <2>4. InstalledInv'
    BY <1>4, <2>1 DEF Delete, InstalledInv
  <2>5. RacedInv'
    BY <1>4, <2>1 DEF Delete, RacedInv, Quiet, TypeOK
  <2>6. QED
    BY <2>2, <2>3, <2>4, <2>5
<1>5. ASSUME NEW s \in Servers, Unlink(s) PROVE ProvisionInv'
  BY <1>5 DEF Unlink, Quiet, TargetInv, InstalledInv, RacedInv, TypeOK
<1>6. ASSUME NEW s \in Servers, BeginInstalling(s) PROVE ProvisionInv'
  <2>1. /\ \A t \in Servers : row'[t].host = row[t].host
        /\ \A t \in Servers : t # s => row'[t] = row[t] /\ task'[t] = task[t]
        /\ Live(s) => row'[s].status = "installing"
    BY <1>6, SetStatusRows DEF BeginInstalling, TypeOK, Statuses
  <2>2. /\ task[s] = "scheduled"
        /\ task'[s] \in (IF Live(s) THEN {"playbook", "failed"} ELSE {"none"})
    BY <1>6 DEF BeginInstalling, TypeOK
  <2>3. /\ UNCHANGED <<used, file, unlinking, phase, todo, installed, blind, raced, kept>>
    BY <1>6 DEF BeginInstalling
  <2>4. Quiet'
    BY <2>1, <2>2, <2>3 DEF Quiet, TypeOK
  <2>5. TargetInv'
    BY <2>1, <2>2, <2>3 DEF TargetInv, TypeOK, Quiet
  <2>6. InstalledInv'
    BY <2>1, <2>2, <2>3 DEF InstalledInv, TypeOK
  <2>7. RacedInv'
    BY <2>1, <2>2, <2>3 DEF RacedInv, TypeOK
  <2>8. QED
    BY <2>4, <2>5, <2>6, <2>7
<1>7. ASSUME NEW s \in Servers, Playbook(s) PROVE ProvisionInv'
  <2>1. Quiet' /\ TargetInv'
    BY <1>7 DEF Playbook, Quiet, TargetInv, TypeOK
  <2>2. InstalledInv' /\ RacedInv'
    BY <1>7 DEF Playbook, InstalledInv, RacedInv, TypeOK
  <2>3. QED
    BY <2>1, <2>2
<1>8. ASSUME NEW s \in Servers, Finish(s) PROVE ProvisionInv'
  <2>1. /\ \A t \in Servers : row'[t].host = row[t].host
        /\ \A t \in Servers : t # s => row'[t] = row[t]
        /\ Live(s) => row'[s].status = (IF task[s] = "registered" THEN "online" ELSE "error")
    BY <1>8, SetStatusRows DEF Finish, Statuses
  <2>2. /\ task[s] # "none"
        /\ task'[s] = "none" /\ \A t \in Servers : t # s => task'[t] = task[t]
    BY <1>8 DEF Finish, TypeOK
  <2>3. /\ UNCHANGED <<used, file, unlinking, phase, todo, installed, blind, raced, kept>>
    BY <1>8 DEF Finish
  <2>4. Quiet'
    BY <2>1, <2>2, <2>3 DEF Quiet, TypeOK
  <2>5. TargetInv'
    BY <2>1, <2>2, <2>3 DEF TargetInv, TypeOK, Quiet
  <2>6. InstalledInv'
    BY <2>1, <2>2, <2>3 DEF InstalledInv, TypeOK
  <2>7. RacedInv'
    BY <2>1, <2>2, <2>3 DEF RacedInv, TypeOK
  <2>8. QED
    BY <2>4, <2>5, <2>6, <2>7
<1>9. ASSUME NEW s \in Servers, TaskDies(s) PROVE ProvisionInv'
  BY <1>9 DEF TaskDies, Quiet, TargetInv, InstalledInv, RacedInv, TypeOK
<1>10. CASE RecoverStuck
  <2>1. \A t \in Servers :
          row'[t].host = row[t].host /\ (row'[t].status = "online" => row[t].status = "online")
    BY <1>10 DEF RecoverStuck, TypeOK, Rows
  <2>2. QED
    BY <1>10, <2>1 DEF RecoverStuck, Quiet, TargetInv, InstalledInv, RacedInv, TypeOK
<1>11. CASE ListOnline
  BY <1>11 DEF ListOnline, Quiet, TargetInv, InstalledInv, RacedInv
<1>12. ASSUME NEW s \in Servers, Regenerate(s) PROVE ProvisionInv'
  BY <1>12 DEF Regenerate, Quiet, TargetInv, InstalledInv, RacedInv
<1>13. CASE Serve
  BY <1>13 DEF Serve, Quiet, TargetInv, InstalledInv, RacedInv
<1>14. CASE StartFails
  BY <1>14 DEF StartFails, Quiet, TargetInv, InstalledInv, RacedInv
<1>15. CASE Restart
  BY <1>15 DEF Restart, Quiet, TargetInv, InstalledInv, RacedInv
<1>16. CASE Tick \/ UNCHANGED vars
  BY <1>16 DEF Tick, vars, Quiet, TargetInv, InstalledInv, RacedInv
<1>17. QED
  BY <1>1, <1>2, <1>3, <1>4, <1>5, <1>6, <1>7, <1>8, <1>9, <1>10, <1>11, <1>12, <1>13, <1>14,
     <1>15, <1>16 DEF Next, TaskNext, Start

\* The invariant holds from the beginning on.
LEMMA ProvisionAlways == Spec => [](TypeOK /\ ProvisionInv)
<1>1. Init => TypeOK
  BY ProvisioningConstants, NoRowType DEF Init, TypeOK, Tasks
<1>2. Init => ProvisionInv
  BY DEF Init, ProvisionInv, Quiet, TargetInv, InstalledInv, RacedInv, Online, Live, NoRow
<1>3. QED
  BY <1>1, <1>2, ProvisionTypeStep, ProvisionStep, PTL DEF Spec

\* While requests are served, every online server has its target file, through
\* crashes and the loss of the volume, unless the disk refused it.
THEOREM ProvisionOnlineHasTarget == Spec => []OnlineHasTarget
<1>1. ProvisionInv => OnlineHasTarget
  BY DEF ProvisionInv, TargetInv, Online, OnlineHasTarget
<1>2. QED
  BY <1>1, ProvisionAlways, PTL

\* A target file never points at a host without a successful playbook.
THEOREM ProvisionTargetIsInstalled == Spec => []TargetIsInstalled
<1>1. ProvisionInv => TargetIsInstalled
  BY DEF ProvisionInv, InstalledInv, TargetIsInstalled
<1>2. QED
  BY <1>1, ProvisionAlways, PTL

\* The deletions that met a running task, a crash or an error of the disk are
\* the only source of files without a server.
THEOREM ProvisionOrphansAreRaced == Spec => []OrphansAreRaced
<1>1. ProvisionInv => OrphansAreRaced
  BY DEF ProvisionInv, RacedInv, OrphansAreRaced
<1>2. QED
  BY <1>1, ProvisionAlways, PTL
=============================================================================
