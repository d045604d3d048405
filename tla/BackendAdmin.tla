---------------------------- MODULE BackendAdmin ----------------------------
(***************************************************************************)
(* The calls the console makes to the admin API of one backend             *)
(* (infra/backend_admin_client.py, services/backend_admin_source.py,       *)
(* backend_economics_service.py, backend_user_service.py,                  *)
(* api/backend_economics.py): finding the prefix, telling the three        *)
(* meanings of 404 apart, and the record of what operators changed.        *)
(*                                                                         *)
(* A call waits for its reply; between, other calls and edits of the       *)
(* registry go on.  A request of an operator is a list of calls made by a  *)
(* client built from the row as it was.  What the backend says besides its *)
(* status is left out.                                                     *)
(***************************************************************************)
EXTENDS Naturals, Sequences, FiniteSets

CONSTANTS
  AdminHosts,        \* hosts the backend may be moved to
  NoPrefix,          \* no prefix is known, or the host has none
  Askers,            \* operators
  MaxAsks,           \* bound on requests
  MaxAdminTrouble    \* bound on failing replies, edits of the row and restarts

ASSUME BackendAdminAssumption ==
  /\ MaxAsks \in Nat /\ MaxAdminTrouble \in Nat
  /\ AdminHosts # {} /\ NoPrefix \notin {"/api/billing/admin", "/v1/admin"}

VARIABLES
  upstream,       \* the prefix and the level of the contract at each host
  entry,          \* host and admin key in the row of the backend
  cached,         \* the prefix in _prefix_cache
  asks,           \* what each operator is waiting for
  askCount, adminTrouble,
  applied,        \* changes the backend has made, by serial number
  audit,          \* changes in the log of admin actions
  unanswered,       \* changes whose reply told nothing
  moved,          \* the row was edited
  poisoned,       \* a prefix that is not the host's was remembered
  untrue          \* meanings of 404 answered that were not so

backendAdminVars == <<upstream, entry, cached, asks, askCount, adminTrouble, applied, audit,
                      unanswered, moved, poisoned, untrue>>

PREFIX_CANDIDATES == <<"/api/billing/admin", "/v1/admin">>
Prefixes == {PREFIX_CANDIDATES[n] : n \in DOMAIN PREFIX_CANDIDATES}
NoAsk == [at |-> "none"]

\* The calls of a request: pages of the economics read the capabilities too,
\* "stranger" is a user the backend does not have.
CallsOf ==
  [op \in {"products", "tariffs", "users", "card", "stranger", "tokens", "edit"} |->
     CASE op = "products" -> <<"products", "capabilities">>
       [] op = "tariffs" -> <<"pricing", "capabilities">>
       [] OTHER -> <<op>>]

\* NotFoundSemantics, given with every call.
NotFoundSemantics(call) ==
  CASE call \in {"products", "users"} -> "contract"
    [] call \in {"card", "stranger", "tokens"} -> "user"
    [] OTHER -> "extension"

Changes == {"tokens", "edit"}

-----------------------------------------------------------------------------
(* The client                                                              *)

\* Fault: a call against an unknown prefix looks for it with its own path.
Routed_by_itself(ask, prefix) ==
  [ask EXCEPT !.at = "sent", !.path = Head(ask.calls), !.detecting = prefix = NoPrefix,
              !.left = IF prefix = NoPrefix THEN PREFIX_CANDIDATES ELSE <<prefix>>]

\* _request: a call goes to the prefix the process remembers; while none is
\* known, GET /products looks for it.
Routed(ask, prefix) ==
  [ask EXCEPT !.at = "sent",
              !.path = IF prefix = NoPrefix THEN "products" ELSE Head(ask.calls),
              !.detecting = prefix = NoPrefix,
              !.left = IF prefix = NoPrefix THEN PREFIX_CANDIDATES ELSE <<prefix>>]

\* require: the row must have an admin key; the client keeps host and key.
BeginAsk(o, op) ==
  /\ asks[o] = NoAsk /\ askCount < MaxAsks /\ entry.key
  /\ askCount' = askCount + 1
  /\ asks' = [asks EXCEPT ![o] =
       Routed([at |-> "new", n |-> askCount', host |-> entry.host, calls |-> CallsOf[op],
               path |-> "", detecting |-> FALSE, left |-> <<>>, reply |-> ""], cached)]
  /\ UNCHANGED <<upstream, entry, cached, adminTrouble, applied, audit, unanswered, moved, poisoned, untrue>>

\* What the backend has at this prefix and path.
Has(host, prefix, path) ==
  LET site == upstream[host] IN
    /\ prefix = site.prefix /\ path # "stranger"
    /\ NotFoundSemantics(path) = "extension" => site.level = 2

\* The backend serves the call.  A reply that fails may come from anything in
\* front of it, whatever the prefix, and one may be lost on its way; in both
\* cases, as with a body of no use, the change may have been made.
Serve(o) ==
  LET ask == asks[o]
      has == Has(ask.host, Head(ask.left), ask.path)
      able == has /\ ask.path \in Changes IN
    /\ ask.at = "sent"
    /\ \E reply \in {"ok", "not_found", "refused", "unusable", "failed", "lost"}, done \in BOOLEAN :
         /\ done => able
         /\ reply = "ok" => has /\ (able => done)
         /\ reply = "not_found" => ~has
         /\ reply = "refused" => able /\ ~done
         /\ reply = "unusable" => has /\ (able => done)
         /\ reply \in {"unusable", "failed", "lost"} => adminTrouble < MaxAdminTrouble
         /\ adminTrouble' = adminTrouble + (IF reply \in {"unusable", "failed", "lost"} THEN 1 ELSE 0)
         /\ applied' = IF done THEN applied \cup {<<ask.path, ask.n>>} ELSE applied
         /\ unanswered' = IF reply \in {"failed", "lost"} THEN unanswered \cup {ask.n} ELSE unanswered
         /\ asks' = [asks EXCEPT ![o] = [ask EXCEPT !.at = "replied", !.reply = reply]]
    /\ UNCHANGED <<upstream, entry, cached, askCount, audit, moved, poisoned, untrue>>

\* _not_found_error: what a 404 is said to mean.
_not_found_error(ask) == IF ask.detecting THEN "contract" ELSE NotFoundSemantics(ask.path)

\* ... and whether it is so.
IsSo(meaning, ask) ==
  LET site == upstream[ask.host] IN
    CASE meaning = "contract" -> site.prefix = NoPrefix
      [] meaning = "user" -> site.prefix # NoPrefix /\ Head(ask.calls) = "stranger"
      [] meaning = "extension" -> site.prefix # NoPrefix /\ site.level = 1

\* A 404 sends the search to the next prefix or ends the request; the subquery
\* for the capabilities never fails it.
NotFound(o) ==
  LET ask == asks[o]
      meaning == _not_found_error(ask) IN
    /\ ask.at = "replied" /\ ask.reply = "not_found"
    /\ IF ask.detecting /\ Len(ask.left) > 1
       THEN /\ asks' = [asks EXCEPT ![o] = [ask EXCEPT !.at = "sent", !.left = Tail(@)]]
            /\ UNCHANGED untrue
       ELSE /\ asks' = [asks EXCEPT ![o] = NoAsk]
            /\ untrue' = IF IsSo(meaning, ask) THEN untrue ELSE untrue \cup {meaning}
    /\ UNCHANGED <<upstream, entry, cached, askCount, adminTrouble, applied, audit, unanswered,
                   moved, poisoned>>

\* _send: a timeout or a broken connection remembers nothing.
LostReply(o) ==
  /\ asks[o].at = "replied" /\ asks[o].reply = "lost"
  /\ asks' = [asks EXCEPT ![o] = NoAsk]
  /\ UNCHANGED <<upstream, entry, cached, askCount, adminTrouble, applied, audit, unanswered,
                 moved, poisoned, untrue>>

\* on_applied runs before the body of a 2xx is read; tokens are logged after.
Audited(ask) == ask.reply = "ok" \/ (ask.path = "edit" /\ ask.reply = "unusable")

\* What goes to the log of admin actions: edits and grants, by serial number.
Logged(ask) == IF ask.path \in Changes /\ Audited(ask) THEN {<<ask.path, ask.n>>} ELSE {}

\* _remember_prefix and _parse: any other status makes the prefix known; a 2xx
\* goes on with the request, whatever else ends it.
Replied(o) ==
  LET ask == asks[o]
      prefix == Head(ask.left)
      rest == IF ask.path = Head(ask.calls) THEN Tail(ask.calls) ELSE ask.calls IN
    /\ ask.at = "replied" /\ ask.reply \in {"ok", "refused", "unusable", "failed"}
    /\ cached' = prefix
    /\ poisoned' = (poisoned \/ prefix # upstream[entry.host].prefix)
    /\ audit' = audit \cup Logged(ask)
    /\ asks' = [asks EXCEPT ![o] =
         IF ask.reply = "ok" /\ rest # <<>> THEN Routed([ask EXCEPT !.calls = rest], prefix) ELSE NoAsk]
    /\ UNCHANGED <<upstream, entry, askCount, adminTrouble, applied, unanswered, moved, untrue>>

-----------------------------------------------------------------------------
(* The registry and the process                                            *)

\* A PATCH of the backend gives it another host or takes its key away and
\* leaves the prefix alone.
EditEntry(host, key) ==
  /\ adminTrouble < MaxAdminTrouble /\ adminTrouble' = adminTrouble + 1
  /\ entry' = [host |-> host, key |-> key] /\ entry' # entry
  /\ moved' = TRUE
  /\ UNCHANGED <<upstream, cached, asks, askCount, applied, audit, unanswered, poisoned, untrue>>

\* A restart forgets the prefix and every request.
RestartAdmin ==
  /\ adminTrouble < MaxAdminTrouble /\ adminTrouble' = adminTrouble + 1
  /\ cached' = NoPrefix
  /\ unanswered' = unanswered \cup {asks[o].n : o \in {p \in Askers : asks[p] # NoAsk}}
  /\ asks' = [o \in Askers |-> NoAsk]
  /\ UNCHANGED <<upstream, entry, askCount, applied, audit, moved, poisoned, untrue>>

-----------------------------------------------------------------------------
Contracts == [prefix : Prefixes, level : {1, 2}] \cup {[prefix |-> NoPrefix, level |-> 1]}
FirstAdminHost == CHOOSE h \in AdminHosts : TRUE

BackendAdminInit ==
  /\ \E contract \in Contracts :
       upstream = [h \in AdminHosts |->
         IF h = FirstAdminHost THEN contract ELSE [prefix |-> "/v1/admin", level |-> 2]]
  /\ entry = [host |-> FirstAdminHost, key |-> TRUE]
  /\ cached = NoPrefix /\ asks = [o \in Askers |-> NoAsk]
  /\ askCount = 0 /\ adminTrouble = 0
  /\ applied = {} /\ audit = {} /\ unanswered = {}
  /\ moved = FALSE /\ poisoned = FALSE /\ untrue = {}

BackendAdminNext ==
  \/ \E o \in Askers :
       \/ \E op \in DOMAIN CallsOf : BeginAsk(o, op)
       \/ Serve(o) \/ NotFound(o) \/ LostReply(o) \/ Replied(o)
  \/ \E host \in AdminHosts, key \in BOOLEAN : EditEntry(host, key)
  \/ RestartAdmin

BackendAdminSpec == BackendAdminInit /\ [][BackendAdminNext]_backendAdminVars

-----------------------------------------------------------------------------
\* Every variable keeps its range.
BackendAdminTypeOK ==
  /\ upstream \in [AdminHosts -> Contracts] /\ entry \in [host : AdminHosts, key : BOOLEAN]
  /\ cached \in {NoPrefix} \cup Prefixes
  /\ applied \cup audit \subseteq Changes \X (1 .. askCount) /\ unanswered \subseteq 1 .. askCount
  /\ untrue \subseteq {"contract", "user", "extension"}

\* What a 404 is said to mean is so (no contract, no such user, no extension),
\* as long as the prefix remembered is that of the host (_request).
NotFoundIsTrue == untrue # {} => moved \/ poisoned

\* The log of admin actions holds only changes the backend has made, and every
\* edit of a product or tariff it has made unless the reply told nothing or is
\* still to be read (update_product, update_pricing).
AuditIsHistory ==
  /\ audit \subseteq applied
  /\ \A change \in applied \ audit : change[1] = "edit" =>
       change[2] \in unanswered \cup {asks[o].n : o \in {p \in Askers : asks[p] # NoAsk}}

\* The prefix remembered for a backend with the contract is the one that works
\* there (_remember_prefix).  It does not hold: README, section 6.
PrefixWorks ==
  cached # NoPrefix /\ ~moved => upstream[entry.host].prefix \in {cached, NoPrefix}

\* What holds of the admin API's answers and of the log at any moment.
BackendAdminHolds == BackendAdminTypeOK /\ NotFoundIsTrue /\ AuditIsHistory
=============================================================================
