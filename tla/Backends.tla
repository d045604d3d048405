------------------------------ MODULE Backends ------------------------------
(***************************************************************************)
(* The registry of backends and the checks that follow its edits           *)
(* (services/backend_service.py, backend_monitor_service.py,               *)
(* repositories/backend_repository.py, infra/backend_check.py).            *)
(*                                                                         *)
(* A request is one READ COMMITTED transaction: it reads and validates,    *)
(* then writes and commits; a reorder writes row by row and holds the lock *)
(* of each row until it commits.  A check works on the row it has read and *)
(* stores its verdict by id, whatever the row has become.  The window of   *)
(* an outage and the alerts, alike for proxies, are in GraceMonitor;       *)
(* secrets and notes are left out.                                         *)
(***************************************************************************)
EXTENDS Naturals, Sequences, FiniteSets

CONSTANTS
  MaxBackends,          \* bound on the rows ever created
  Codes,                \* codes of backends
  Hosts,                \* canonical domains
  Sites,                \* servers a backend may be linked to
  NoSite,               \* no link
  BackendClerks,        \* requests in flight
  MaxBackendRequests,   \* bound on requests
  MaxBackendTrouble     \* bound on restarts

ASSUME BackendsAssumption ==
  /\ MaxBackends \in Nat \ {0, 1} /\ MaxBackendRequests \in Nat /\ MaxBackendTrouble \in Nat
  /\ NoSite \notin Sites /\ Cardinality(Codes) > 1 /\ Hosts # {}

VARIABLES
  backends,       \* the row of each identifier that has one
  sites,          \* servers that exist
  checks,         \* the check of each row by the loop and by an immediate task
  backendReq,     \* what each request is doing
  backendBegun, backendTrouble,
  born,           \* rows created so far
  ordered,        \* rows the last committed reorder has placed
  about,          \* the domain whose verdict each row stores
  resited         \* rows whose domain changed while they were being checked

backendsVars == <<backends, sites, checks, backendReq, backendBegun,
                  backendTrouble, born, ordered, about, resited>>

Bids == 1 .. MaxBackends
CheckKinds == {"loop", "task"}
IsBackend(i) == i \in DOMAIN backends
Settings == [code : Codes, domain : Hosts, site : {NoSite} \cup Sites]
Backend == [settings : Settings, position : Nat, status : {"pending", "working", "error"}]

Unchecked == [at |-> "rest"]
Unasked == [op |-> "none"]

\* exists_by_code
exists_by_code(code, except) ==
  \E i \in DOMAIN backends \ {except} : backends[i].settings.code = code

\* _validate_server
_validate_server(site) == site = NoSite \/ site \in sites

\* The row is locked by a reorder that has not committed.
Locked(i) ==
  \E d \in BackendClerks : backendReq[d].op = "reorder" /\ i \in DOMAIN backendReq[d].placed

-----------------------------------------------------------------------------
(* The registry                                                            *)

BeginBackendRequest(c, request) ==
  /\ backendReq[c] = Unasked /\ backendBegun < MaxBackendRequests
  /\ backendReq' = [backendReq EXCEPT ![c] = request]
  /\ backendBegun' = backendBegun + 1
  /\ UNCHANGED <<backends, sites, checks, backendTrouble, born, ordered, about, resited>>

EndBackendRequest(c) ==
  /\ backendReq' = [backendReq EXCEPT ![c] = Unasked]
  /\ UNCHANGED <<sites, backendBegun, backendTrouble>>

\* The commit violates a constraint: code is unique, server_id refers to a
\* row.  The answer is backend_code_taken either way.
Violates(settings, i) == exists_by_code(settings.code, i) \/ ~_validate_server(settings.site)

\* _schedule_check; one immediate check of a row at a time is a bound.
_schedule_check(i) ==
  /\ checks[i].task = Unchecked
  /\ checks' = [checks EXCEPT ![i].task = [at |-> "start"]]

\* create_backend: domain and links are validated, the code looked up ...
BeginCreateBackend(c, settings) ==
  /\ _validate_server(settings.site) /\ ~exists_by_code(settings.code, 0)
  /\ BeginBackendRequest(c, [op |-> "create", new |-> settings])

\* ... and the row inserted; its position is the default.
FinishCreateBackend(c) ==
  LET r == backendReq[c] IN
    /\ r.op = "create" /\ born < MaxBackends
    /\ ~Violates(r.new, 0)
    /\ born' = born + 1
    /\ backends' = [i \in DOMAIN backends \cup {born'} |->
         IF i = born' THEN [settings |-> r.new, position |-> 0, status |-> "pending"]
         ELSE backends[i]]
    /\ _schedule_check(born')
    /\ EndBackendRequest(c)
    /\ UNCHANGED <<ordered, about, resited>>

\* update_backend: the row is read and the body validated; that it changes one
\* field is a bound.
BeginUpdateBackend(c, i, settings) ==
  /\ IsBackend(i)
  /\ \E f \in DOMAIN settings : settings # backends[i].settings /\ settings = [backends[i].settings EXCEPT ![f] = settings[f]]
  /\ _validate_server(settings.site) /\ ~exists_by_code(settings.code, i)
  /\ BeginBackendRequest(c, [op |-> "update", id |-> i, read |-> backends[i], new |-> settings])

\* The unit of work writes the columns that differ from what was read: a row
\* read as pending keeps the status it has by now.
Rewritten(now, read, new) ==
  [settings |-> [f \in {"code", "domain", "site"} |->
     IF new[f] = read.settings[f] THEN now.settings[f] ELSE new[f]],
   position |-> now.position,
   status |-> IF new.domain # read.settings.domain /\ read.status # "pending"
              THEN "pending" ELSE now.status]

\* ... and stored; only a new domain sends the row to a check.
FinishUpdateBackend(c) ==
  LET r == backendReq[c]
      moved == r.new.domain # r.read.settings.domain
      row == Rewritten(backends[r.id], r.read, r.new) IN
    /\ r.op = "update" /\ IsBackend(r.id) /\ ~Locked(r.id)
    /\ ~Violates(row.settings, r.id)
    /\ backends' = [backends EXCEPT ![r.id] = row]
    /\ IF moved THEN _schedule_check(r.id) ELSE UNCHANGED checks
    /\ resited' = IF /\ row.settings.domain # backends[r.id].settings.domain
                     /\ \/ \E s \in CheckKinds : checks[r.id][s].at = "check"
                        \/ backends[r.id].status # r.read.status
                  THEN resited \cup {r.id} ELSE resited
    /\ EndBackendRequest(c)
    /\ UNCHANGED <<born, ordered, about>>

\* delete_backend; the checks of the row go on.
delete_backend(c, i) ==
  /\ IsBackend(i) /\ ~Locked(i)
  /\ backendReq[c] = Unasked /\ backendBegun < MaxBackendRequests
  /\ backendBegun' = backendBegun + 1
  /\ backends' = [j \in DOMAIN backends \ {i} |-> backends[j]]
  /\ UNCHANGED <<sites, checks, backendReq, backendTrouble, born, ordered, about, resited>>

\* The full permutations of the rows, the lists reorder_backends accepts.
Orders ==
  LET n == Cardinality(DOMAIN backends)
  IN {f \in [1 .. n -> DOMAIN backends] : \A i, j \in 1 .. n : i # j => f[i] # f[j]}

\* reorder_backends: the list is checked against all_ids ...
BeginReorderBackends(c, ids) ==
  /\ BeginBackendRequest(c, [op |-> "reorder", ids |-> ids, placed |-> <<>>])

\* Fault: every position is committed by itself.
PlaceRow_committing(c) ==
  LET r == backendReq[c]
      n == Len(r.ids) - Cardinality(DOMAIN r.placed) IN
    /\ r.op = "reorder" /\ n > 0
    /\ backendReq' = [backendReq EXCEPT ![c].ids = SubSeq(r.ids, 1, n - 1)]
    /\ backends' = [i \in DOMAIN backends |->
         IF i = r.ids[n] THEN [backends[i] EXCEPT !.position = n - 1] ELSE backends[i]]
    /\ ordered' = IF n = 1 THEN DOMAIN backends ELSE ordered
    /\ UNCHANGED <<sites, checks, backendBegun, backendTrouble, born, about, resited>>

\* ... one UPDATE by id after another ...
PlaceRow(c) ==
  LET r == backendReq[c]
      n == Cardinality(DOMAIN r.placed) + 1 IN
    /\ r.op = "reorder" /\ n <= Len(r.ids) /\ ~Locked(r.ids[n])
    /\ backendReq' = [backendReq EXCEPT ![c].placed =
         [i \in DOMAIN @ \cup {r.ids[n]} |-> IF i = r.ids[n] THEN n - 1 ELSE @[i]]]
    /\ UNCHANGED <<backends, sites, checks, backendBegun, backendTrouble, born,
                   ordered, about, resited>>

\* ... and the commit.
FinishReorderBackends(c) ==
  LET r == backendReq[c] IN
    /\ r.op = "reorder" /\ Len(r.ids) = Cardinality(DOMAIN r.placed)
    /\ backends' = [i \in DOMAIN backends |->
         IF i \in DOMAIN r.placed THEN [backends[i] EXCEPT !.position = r.placed[i]] ELSE backends[i]]
    /\ ordered' = DOMAIN r.placed
    /\ EndBackendRequest(c)
    /\ UNCHANGED <<checks, born, about, resited>>

\* A constraint is violated, the row is gone, PostgreSQL ends a deadlock of two
\* reorders, or the connection is lost: the transaction is rolled back.
AbortBackendRequest(c) ==
  /\ backendReq[c] # Unasked
  /\ EndBackendRequest(c)
  /\ UNCHANGED <<backends, checks, born, ordered, about, resited>>

-----------------------------------------------------------------------------
(* The checks                                                              *)

Reading(i) == [at |-> "check", domain |-> backends[i].settings.domain]

\* poll_once: one query reads every row; the next begins when all have ended.
poll_backends ==
  /\ \A i \in Bids : checks[i].loop = Unchecked
  /\ checks' = [i \in Bids |-> IF IsBackend(i) THEN [checks[i] EXCEPT !.loop = Reading(i)]
                               ELSE checks[i]]
  /\ UNCHANGED <<backends, sites, backendReq, backendBegun, backendTrouble, born,
                 ordered, about, resited>>

\* check_one: the immediate check reads its row, if it still exists.
check_one(i) ==
  /\ checks[i].task.at = "start"
  /\ checks' = [checks EXCEPT ![i].task = IF IsBackend(i) THEN Reading(i) ELSE Unchecked]
  /\ UNCHANGED <<backends, sites, backendReq, backendBegun, backendTrouble, born,
                 ordered, about, resited>>

\* check_backend: GET {domain}health with retries: 2xx, or anything else.
check_backend == {"working", "error"}

\* update_check: an UPDATE by id, which on a deleted row does nothing.
update_check(i, verdict) ==
  IF IsBackend(i) THEN [backends EXCEPT ![i].status = verdict] ELSE backends

\* _check_snapshot: the verdict, within a deadline, then update_check, an UPDATE
\* by id, which waits for the lock of the row.
FinishCheck(i, s) ==
  LET domain == checks[i][s].domain IN
    /\ checks[i][s].at = "check" /\ ~Locked(i)
    /\ \E verdict \in check_backend :
         backends' = update_check(i, verdict)
    /\ about' = [about EXCEPT ![i] = domain]
    /\ checks' = [checks EXCEPT ![i][s] = Unchecked]
    /\ UNCHANGED <<sites, backendReq, backendBegun, backendTrouble, born, ordered, resited>>

-----------------------------------------------------------------------------
(* The world                                                               *)

\* A server is deleted by a request of its own: the foreign key clears the
\* links to it.
DeleteSite(s) ==
  /\ s \in sites /\ backendBegun < MaxBackendRequests /\ backendBegun' = backendBegun + 1
  /\ \A i \in DOMAIN backends : backends[i].settings.site = s => ~Locked(i)
  /\ sites' = sites \ {s}
  /\ backends' = [i \in DOMAIN backends |->
       IF backends[i].settings.site = s THEN [backends[i] EXCEPT !.settings.site = NoSite] ELSE backends[i]]
  /\ UNCHANGED <<checks, backendReq, backendTrouble, born, ordered, about, resited>>

\* A restart loses every task and every request.
RestartBackends ==
  /\ backendTrouble < MaxBackendTrouble /\ backendTrouble' = backendTrouble + 1
  /\ checks' = [i \in Bids |-> [s \in CheckKinds |-> Unchecked]]
  /\ backendReq' = [c \in BackendClerks |-> Unasked]
  /\ UNCHANGED <<backends, sites, backendBegun, born, ordered, about, resited>>

-----------------------------------------------------------------------------
FirstHost == CHOOSE h \in Hosts : TRUE

BackendsInit ==
  /\ \E code \in [1 .. 2 -> Codes] :
       /\ code[1] # code[2]
       /\ code = CHOOSE f \in [1 .. 2 -> Codes] : f[1] # f[2]
       /\ backends = [i \in 1 .. 2 |->
            [settings |-> [code |-> code[i], domain |-> FirstHost, site |-> NoSite],
             position |-> 0, status |-> "pending"]]
  /\ sites = Sites
  /\ checks = [i \in Bids |-> [s \in CheckKinds |-> Unchecked]]
  /\ backendReq = [c \in BackendClerks |-> Unasked]
  /\ backendBegun = 0 /\ backendTrouble = 0 /\ born = 2
  /\ ordered = {} /\ about = [i \in Bids |-> FirstHost] /\ resited = {}

CheckStep(i) == check_one(i) \/ \E s \in CheckKinds : FinishCheck(i, s)

RequestStep(c) ==
  \/ FinishCreateBackend(c) \/ FinishUpdateBackend(c)
  \/ PlaceRow(c) \/ FinishReorderBackends(c) \/ AbortBackendRequest(c)

BackendsNext ==
  \/ \E c \in BackendClerks :
       \/ RequestStep(c)
       \/ \E settings \in Settings :
            BeginCreateBackend(c, settings) \/ \E i \in Bids : BeginUpdateBackend(c, i, settings)
       \/ \E i \in Bids : delete_backend(c, i)
       \/ \E ids \in Orders : BeginReorderBackends(c, ids)
  \/ poll_backends
  \/ \E i \in Bids : CheckStep(i)
  \/ \E s \in Sites : DeleteSite(s)
  \/ RestartBackends

BackendsSpec == BackendsInit /\ [][BackendsNext]_backendsVars

-----------------------------------------------------------------------------
BackendsTypeOK ==
  /\ DOMAIN backends \subseteq 1 .. born
  /\ \A i \in DOMAIN backends : backends[i] \in Backend
  /\ sites \subseteq Sites
  /\ about \in [Bids -> Hosts] /\ resited \subseteq Bids /\ ordered \subseteq Bids

\* The rows a reorder has placed stay in one order, whatever overlapped it:
\* no two of them share a position (reorder_backends).
OrderIsTotal ==
  \A i, j \in ordered \cap DOMAIN backends :
    i # j => backends[i].position # backends[j].position

\* The status of a row is the verdict about the domain the row has, unless the
\* domain was changed while a check of the row was under way (update_backend).
VerdictIsOfDomain ==
  \A i \in DOMAIN backends \ resited :
    backends[i].status # "pending" => about[i] = backends[i].settings.domain

\* What holds of the catalogue of backends at any moment.
BackendRegistryHolds == BackendsTypeOK /\ OrderIsTotal /\ VerdictIsOfDomain
=============================================================================
