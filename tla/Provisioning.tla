---------------------------- MODULE Provisioning ----------------------------
(***************************************************************************)
(* The registry of servers, the background task that installs the exporter *)
(* on a new server, and the Prometheus target files kept beside the rows.  *)
(*                                                                         *)
(* Row and file are two stores without a common transaction: the task      *)
(* writes the file and then marks the row online, a deletion removes the   *)
(* row and then the file, and at start the files of online rows are        *)
(* written again. Nothing cancels the task of a server that is deleted.    *)
(***************************************************************************)
EXTENDS Naturals, FiniteSets

CONSTANTS
  Servers,      \* ids the database can hand out, each at most once
  Hosts,        \* IP addresses
  NoHost,       \* no server, no request
  Requests,     \* concurrent POST /api/servers
  Timeout,      \* ansible_timeout_sec, in ticks of the clock
  MaxTime,      \* bound of the clock
  MaxCrashes,   \* bound on restarts
  MaxFaults     \* bound on failed database or disk operations

ASSUME ProvisioningConstants ==
  /\ NoHost \notin Hosts
  /\ Timeout \in Nat /\ MaxTime \in Nat /\ MaxCrashes \in Nat /\ MaxFaults \in Nat

VARIABLES
  now,        \* the clock
  row,        \* the table; a row whose host is NoHost does not exist
  used,       \* ids handed out so far
  file,       \* servers that have a target file
  task,       \* the background task of each server
  request,    \* the host a creation has found to be free
  unlinking,  \* deletions between the commit and the removal of the file
  phase,      \* start of the process, or serving requests
  todo,       \* online servers whose file the start is yet to write
  crashes, faults,
  \* history, read by the properties only
  installed,  \* servers on whose host the playbook succeeded
  removed,    \* servers whose deletion was answered
  stranded,   \* servers that lost their task and were not recovered
  blind,      \* servers whose lost file could not be written again
  raced,      \* deleted while their task ran or the process crashed
  kept        \* deleted servers whose file the disk did not let go

database == <<row, used>>
process == <<task, request, unlinking, phase, todo>>
bounds == <<now, crashes, faults>>
history == <<installed, removed, stranded, blind, raced, kept>>
vars == <<database, file, process, bounds, history>>

Statuses == {"pending", "installing", "online", "error"}
Tasks == {"none", "scheduled", "playbook", "registered", "failed"}
Rows == [host : Hosts \cup {NoHost}, status : Statuses, stamp : 0 .. MaxTime]
NoRow == [host |-> NoHost, status |-> "pending", stamp |-> 0]

Live(s) == row[s].host # NoHost
HostTaken(h) == \E s \in Servers : row[s].host = h
Waiting(s) == Live(s) /\ row[s].status \in {"pending", "installing"}

Init ==
  /\ now = 0
  /\ row = [s \in Servers |-> NoRow]
  /\ used = {} /\ file = {}
  /\ task = [s \in Servers |-> "none"]
  /\ request = [r \in Requests |-> NoHost]
  /\ unlinking = {}
  /\ phase = "up" /\ todo = {}
  /\ crashes = 0 /\ faults = 0
  /\ installed = {} /\ removed = {} /\ stranded = {} /\ blind = {}
  /\ raced = {} /\ kept = {}

----------------------------------------------------------------------------
(* create_server, update_server, delete_server                              *)

\* The address is free, as far as the first query can tell.
CheckHost(r) ==
  /\ phase = "up"
  /\ request[r] = NoHost
  /\ \E h \in Hosts : ~HostTaken(h) /\ request' = [request EXCEPT ![r] = h]
  /\ UNCHANGED <<database, file, task, unlinking, phase, todo, bounds, history>>

\* INSERT, commit and create_task; or the UNIQUE address answers 409.
Insert(r) ==
  /\ request[r] # NoHost
  /\ \/ /\ ~HostTaken(request[r])
        /\ \E s \in Servers \ used :
             /\ row' = [row EXCEPT ![s] =
                          [host |-> request[r], status |-> "pending", stamp |-> now]]
             /\ used' = used \cup {s}
             /\ task' = [task EXCEPT ![s] = "scheduled"]
     \/ HostTaken(request[r]) /\ UNCHANGED <<database, task>>
  /\ request' = [request EXCEPT ![r] = NoHost]
  /\ UNCHANGED <<file, unlinking, phase, todo, bounds, history>>

\* A rename or a new order touches updated_at, which recovery reads.
Touch(s) ==
  /\ phase = "up"
  /\ Live(s)
  /\ row' = [row EXCEPT ![s].stamp = now]
  /\ UNCHANGED <<used, file, process, bounds, history>>

\* Fault: the file goes first, the row after it.
UnlinkFirst(s) ==
  /\ phase = "up"
  /\ Live(s)
  /\ IF s \in file
     THEN file' = file \ {s} /\ UNCHANGED <<row, unlinking>>
     ELSE /\ row' = [row EXCEPT ![s] = NoRow]
          /\ unlinking' = unlinking \cup {s}
          /\ UNCHANGED file
  /\ UNCHANGED <<used, task, request, phase, todo, bounds, history>>

\* The row goes first, with its commit ...
Delete(s) ==
  /\ phase = "up"
  /\ Live(s)
  /\ row' = [row EXCEPT ![s] = NoRow]
  /\ unlinking' = unlinking \cup {s}
  /\ raced' = IF task[s] # "none" THEN raced \cup {s} ELSE raced
  /\ UNCHANGED <<used, file, task, request, phase, todo, bounds,
                 installed, removed, stranded, blind, kept>>

\* Fault: the deletion is answered and the file stays.
UnlinkForgotten(s) ==
  /\ s \in unlinking
  /\ unlinking' = unlinking \ {s}
  /\ removed' = removed \cup {s}
  /\ UNCHANGED <<database, file, task, request, phase, todo, bounds,
                 installed, stranded, blind, raced, kept>>

\* ... and the file after it.  An error of the disk is not caught: the request
\* answers 500, the row is gone, and a repeated DELETE finds nothing (404).
Unlink(s) ==
  /\ s \in unlinking
  /\ unlinking' = unlinking \ {s}
  /\ \/ /\ file' = file \ {s}
        /\ removed' = removed \cup {s}
        /\ UNCHANGED <<faults, kept>>
     \/ /\ faults < MaxFaults
        /\ faults' = faults + 1
        /\ kept' = kept \cup ({s} \cap file)
        /\ UNCHANGED <<file, removed>>
  /\ UNCHANGED <<database, task, request, phase, todo, now, crashes,
                 installed, stranded, blind, raced>>

----------------------------------------------------------------------------
(* provision_server                                                         *)

SetStatus(s, status) ==
  row' = IF Live(s) THEN [row EXCEPT ![s].status = status, ![s].stamp = now] ELSE row

\* _begin_installing. A credential that cannot be decrypted fails the server.
BeginInstalling(s) ==
  /\ task[s] = "scheduled"
  /\ IF Live(s)
     THEN /\ SetStatus(s, "installing")
          /\ \E next \in {"playbook", "failed"} : task' = [task EXCEPT ![s] = next]
     ELSE task' = [task EXCEPT ![s] = "none"] /\ UNCHANGED row
  /\ UNCHANGED <<used, file, request, unlinking, phase, todo, bounds, history>>

\* Fault: the target is registered whether or not the playbook succeeded.
PlaybookUnchecked(s) ==
  /\ task[s] = "playbook"
  /\ file' = file \cup {s}
  /\ task' = [task EXCEPT ![s] = "registered"]
  /\ installed' \in {installed, installed \cup {s}}
  /\ UNCHANGED <<database, request, unlinking, phase, todo, bounds,
                 removed, stranded, blind, raced, kept>>

\* The playbook ends: success writes the file, without looking at the row;
\* a failure, a timeout or a disk error fails the server.
Playbook(s) ==
  /\ task[s] = "playbook"
  /\ \/ /\ installed' = installed \cup {s}
        /\ file' = file \cup {s}
        /\ task' = [task EXCEPT ![s] = "registered"]
        /\ UNCHANGED faults
     \/ /\ faults < MaxFaults
        /\ faults' = faults + 1
        /\ installed' = installed \cup {s}
        /\ task' = [task EXCEPT ![s] = "failed"]
        /\ UNCHANGED file
     \/ /\ task' = [task EXCEPT ![s] = "failed"]
        /\ UNCHANGED <<file, faults, installed>>
  /\ UNCHANGED <<database, request, unlinking, phase, todo, now, crashes,
                 removed, stranded, blind, raced, kept>>

\* _finish_online and _finish_error: an UPDATE by id.
Finish(s) ==
  /\ task[s] \in {"registered", "failed"}
  /\ SetStatus(s, IF task[s] = "registered" THEN "online" ELSE "error")
  /\ task' = [task EXCEPT ![s] = "none"]
  /\ UNCHANGED <<used, file, request, unlinking, phase, todo, bounds, history>>

\* A database error ends the task; nobody starts it again.
TaskDies(s) ==
  /\ task[s] \in {"scheduled", "registered", "failed"}
  /\ faults < MaxFaults
  /\ faults' = faults + 1
  /\ task' = [task EXCEPT ![s] = "none"]
  /\ stranded' = IF Waiting(s) THEN stranded \cup {s} ELSE stranded
  /\ UNCHANGED <<database, file, request, unlinking, phase, todo, now, crashes,
                 installed, removed, blind, raced, kept>>

----------------------------------------------------------------------------
(* The process stops and starts                                             *)

\* Tasks and requests are lost; the volume of target files may be lost too.
Restart ==
  /\ crashes < MaxCrashes
  /\ crashes' = crashes + 1
  /\ file' \in {file, {}}
  /\ task' = [s \in Servers |-> "none"]
  /\ request' = [r \in Requests |-> NoHost]
  /\ unlinking' = {}
  /\ raced' = raced \cup unlinking
  /\ phase' = "recover" /\ todo' = {}
  /\ UNCHANGED <<database, now, faults, installed, removed, stranded, blind, kept>>

\* Fault: recovery does not write what it found.
RecoverNothing ==
  /\ phase = "recover"
  /\ stranded' = stranded \cup
       {s \in Servers : Waiting(s) /\ ~(row[s].status = "installing" /\ row[s].stamp + Timeout < now)}
  /\ phase' = "list"
  /\ UNCHANGED <<database, file, task, request, unlinking, todo, bounds,
                 installed, removed, blind, raced, kept>>

\* recover_stuck_installing: only `installing`, and only if old enough.
RecoverStuck ==
  LET stuck == {s \in Servers :
                  Live(s) /\ row[s].status = "installing" /\ row[s].stamp + Timeout < now} IN
  /\ phase = "recover"
  /\ row' = [s \in Servers |->
       IF s \in stuck THEN [row[s] EXCEPT !.status = "error", !.stamp = now] ELSE row[s]]
  /\ stranded' = stranded \cup {s \in Servers : Waiting(s) /\ s \notin stuck}
  /\ phase' = "list"
  /\ UNCHANGED <<used, file, task, request, unlinking, todo, bounds,
                 installed, removed, blind, raced, kept>>

\* regenerate_file_sd: the online rows, then one file after another.
ListOnline ==
  /\ phase = "list"
  /\ todo' = {s \in Servers : Live(s) /\ row[s].status = "online"}
  /\ phase' = "write"
  /\ UNCHANGED <<database, file, task, request, unlinking, bounds, history>>

Regenerate(s) ==
  /\ phase = "write" /\ s \in todo
  /\ todo' = todo \ {s}
  /\ \/ /\ file' = file \cup {s}
        /\ blind' = blind \ {s}
        /\ UNCHANGED faults
     \/ /\ faults < MaxFaults
        /\ faults' = faults + 1
        /\ blind' = blind \cup ({s} \ file)
        /\ UNCHANGED file
  /\ UNCHANGED <<database, task, request, unlinking, phase, now, crashes,
                 installed, removed, stranded, raced, kept>>

Serve ==
  /\ phase = "write" /\ todo = {}
  /\ phase' = "up"
  /\ UNCHANGED <<database, file, task, request, unlinking, todo, bounds, history>>

\* A database error during the start is logged and the process serves.
StartFails ==
  /\ phase \in {"recover", "list"}
  /\ faults < MaxFaults
  /\ faults' = faults + 1
  /\ phase' = "up"
  /\ stranded' = stranded \cup {s \in Servers : Waiting(s)}
  /\ blind' = blind \cup {s \in Servers \ file : Live(s) /\ row[s].status = "online"}
  /\ UNCHANGED <<database, file, task, request, unlinking, todo, now, crashes,
                 installed, removed, raced, kept>>

Tick ==
  /\ now < MaxTime
  /\ now' = now + 1
  /\ UNCHANGED <<database, file, process, crashes, faults, history>>

----------------------------------------------------------------------------

TaskNext(s) == BeginInstalling(s) \/ Playbook(s) \/ Finish(s) \/ TaskDies(s)
Start == RecoverStuck \/ ListOnline \/ (\E s \in Servers : Regenerate(s)) \/ Serve \/ StartFails

Next ==
  \/ \E r \in Requests : CheckHost(r) \/ Insert(r)
  \/ \E s \in Servers : Touch(s) \/ Delete(s) \/ Unlink(s) \/ TaskNext(s)
  \/ Start
  \/ Restart
  \/ Tick

Spec == Init /\ [][Next]_vars

\* A task runs until it ends (the playbook has a deadline), and so does the start.
Fairness == WF_vars(Start) /\ \A s \in Servers : WF_vars(TaskNext(s))

FairSpec == Spec /\ Fairness

----------------------------------------------------------------------------
(* Properties                                                               *)

TypeOK ==
  /\ now \in 0 .. MaxTime
  /\ row \in [Servers -> Rows]
  /\ used \subseteq Servers /\ file \subseteq Servers
  /\ task \in [Servers -> Tasks]
  /\ request \in [Requests -> Hosts \cup {NoHost}]
  /\ unlinking \subseteq Servers
  /\ phase \in {"up", "recover", "list", "write"} /\ todo \subseteq Servers
  /\ crashes \in 0 .. MaxCrashes /\ faults \in 0 .. MaxFaults
  /\ installed \subseteq Servers /\ removed \subseteq Servers /\ stranded \subseteq Servers
  /\ blind \subseteq Servers /\ raced \subseteq Servers /\ kept \subseteq Servers

\* Two concurrent creations never leave two servers with one address.
OneServerPerHost ==
  \A s, t \in Servers : Live(s) /\ Live(t) /\ row[s].host = row[t].host => s = t

\* While requests are served, an online server is scraped: it has its target
\* file, through restarts and the loss of the volume. The exceptions are files
\* that the start tried to write and could not.
OnlineHasTarget ==
  phase = "up" => \A s \in Servers \ blind : Live(s) /\ row[s].status = "online" => s \in file

\* Prometheus is only pointed at hosts on which the playbook has succeeded.
TargetIsInstalled == file \subseteq installed

\* A file without a server stems from a deletion: one still between its two
\* steps, one that met a running task or a crash, or one whose file the disk
\* refused to remove.
OrphansAreRaced ==
  \A s \in file : Live(s) \/ s \in unlinking \cup raced \cup kept

\* The outcome of an installation is final: nothing moves a server that is
\* online or failed to another status.
OutcomeIsFinal ==
  [][\A s \in Servers : Live(s) /\ ~Waiting(s) /\ row'[s].host # NoHost
       => row'[s].status = row[s].status]_vars

\* A new server becomes online or failed, or is deleted; the exceptions lost
\* their task to a crash that recovery did not repair or to a database error.
InstallationSettles ==
  \A s \in Servers : Waiting(s) ~> (~Waiting(s) \/ s \in stranded)

\* docs/09-provisioning: after DELETE the target file is gone, and Prometheus
\* stops scraping.
DeletedIsNotScraped == removed \cap file = {}
=============================================================================
