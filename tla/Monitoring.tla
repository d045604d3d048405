----------------------------- MODULE Monitoring -----------------------------
(***************************************************************************)
(* Reading the metrics of servers from Prometheus (services/               *)
(* monitoring_service.py, infra/prometheus.py): requests for the same      *)
(* instances and windows share one batch of queries, whoever asked first   *)
(* runs it, the others wait for its future; a result is kept for a short   *)
(* while, an error is not.  A process-wide semaphore bounds the queries,   *)
(* and those of a batch that failed run on without anybody.                *)
(*                                                                         *)
(* A value is the moment it was measured at: units, zones and the text of  *)
(* queries are left out.  The steps between two awaits of the event loop   *)
(* are one step; a request is not cancelled while the process runs.        *)
(***************************************************************************)
EXTENDS Naturals, FiniteSets

CONSTANTS
  Askers,            \* requests for metrics
  CacheKeys,         \* instances with the windows of their queries
  Queries,           \* the queries of a batch
  MaxQueries,        \* _MAX_CONCURRENT_QUERIES
  Ttl,               \* METRICS_CACHE_TTL_SEC, in steps of the clock
  MaxMoments,        \* bound on the clock
  MaxAsks,           \* bound on requests
  MaxPromTrouble     \* bound on queries that fail

ASSUME MonitoringAssumption ==
  /\ MaxQueries \in Nat \ {0} /\ Ttl \in Nat
  /\ MaxMoments \in Nat /\ MaxAsks \in Nat /\ MaxPromTrouble \in Nat
  /\ "nobody" \notin Askers

VARIABLES
  asker,             \* what each request waits for
  flight,            \* the batch each request runs
  inflight,          \* _inflight: whose batch is under way
  cache,             \* _cache
  strays,            \* queries of batches that failed
  moment,            \* time.monotonic
  asks,
  promTrouble,
  answered           \* the newest values anybody was given; older given later (ghost)

metricsVars ==
  <<asker, flight, inflight, cache, strays, moment, asks, promTrouble, answered>>

Moments == 0 .. MaxMoments
Nobody == "nobody"
Aside == [at |-> "aside"]
NoFlight == [at |-> "none"]
NoEntry == [at |-> "none"]

InstanceMetrics == [Queries -> Moments]

\* Queries holding the semaphore.
Running ==
  {p \in Askers \X Queries : flight[p[1]].at = "batch" /\ flight[p[1]].are[p[2]] = "running"}

Slot == Cardinality(Running) + strays.running < MaxQueries

-----------------------------------------------------------------------------
\* The values given to a request, against those given before (ghost).
Given(key, value) ==
  answered' = [answered EXCEPT !.newest[key] = value,
                 !.back = @ \/ \E q \in Queries : value[q] < answered.newest[key][q]]

_cache_get(key) == cache[key] # NoEntry /\ moment <= cache[key].stored_at + Ttl

\* The future to wait for, if there is one.
existing(key) == inflight[key]

\* All queries of a batch are started at once.
_execute_batch(key) ==
  [at |-> "batch", key |-> key,
   are |-> [q \in Queries |-> "queued"], got |-> [q \in Queries |-> 0]]

\* fetch_for_instances: a value of the cache, the future of another request, or
\* a batch of one's own.
fetch_for_instances(a, key) ==
  /\ asker[a] = Aside /\ asks < MaxAsks /\ asks' = asks + 1
  /\ \/ /\ _cache_get(key) /\ Given(key, cache[key].value)
        /\ UNCHANGED <<asker, flight, inflight>>
     \/ /\ ~_cache_get(key) /\ existing(key) # Nobody
        /\ asker' = [asker EXCEPT ![a] = [at |-> "waits", key |-> key, on |-> existing(key)]]
        /\ UNCHANGED <<flight, inflight, answered>>
     \/ /\ ~_cache_get(key) /\ existing(key) = Nobody
        /\ asker' = [asker EXCEPT ![a] = [at |-> "owns", key |-> key, on |-> a]]
        /\ flight' = [flight EXCEPT ![a] = _execute_batch(key)]
        /\ inflight' = [inflight EXCEPT ![key] = a]
        /\ UNCHANGED answered
  /\ UNCHANGED <<cache, strays, moment, promTrouble>>

\* A query gets the semaphore ...
_guarded_query(a, q) ==
  /\ flight[a].at = "batch" /\ flight[a].are[q] = "queued" /\ Slot
  /\ flight' = [flight EXCEPT ![a].are[q] = "running"]
  /\ UNCHANGED <<asker, inflight, cache, strays, moment, asks, promTrouble, answered>>

\* ... and has its answer, of the moment Prometheus evaluates it,
query(a, q) ==
  /\ <<a, q>> \in Running
  /\ flight' = [flight EXCEPT ![a].are[q] = "done", ![a].got[q] = moment]
  /\ UNCHANGED <<asker, inflight, cache, strays, moment, asks, promTrouble, answered>>

\* or no answer after its attempts: gather fails at once, and the queries that
\* are under way or queued run on.
PrometheusUnavailable(a, q) ==
  LET others(at) == Cardinality({p \in Queries \ {q} : flight[a].are[p] = at}) IN
    /\ <<a, q>> \in Running /\ promTrouble < MaxPromTrouble /\ promTrouble' = promTrouble + 1
    /\ flight' = [flight EXCEPT ![a] = [at |-> "failed", key |-> @.key]]
    /\ strays' = [running |-> strays.running + others("running"),
                  queued |-> strays.queued + others("queued")]
    /\ UNCHANGED <<asker, inflight, cache, moment, asks, answered>>

\* Queries that nobody waits for.
StartStray ==
  /\ strays.queued > 0 /\ Slot
  /\ strays' = [running |-> strays.running + 1, queued |-> strays.queued - 1]
  /\ UNCHANGED <<asker, flight, inflight, cache, moment, asks, promTrouble, answered>>

EndStray ==
  /\ strays.running > 0 /\ strays' = [strays EXCEPT !.running = @ - 1]
  /\ UNCHANGED <<asker, flight, inflight, cache, moment, asks, promTrouble, answered>>

\* The owner goes on: the key is free, and whoever waits for the future is told.
Land(a) ==
  /\ flight' = [flight EXCEPT ![a] = NoFlight]
  /\ inflight' = [inflight EXCEPT ![flight[a].key] = Nobody]
  /\ asker' = [b \in Askers |-> IF asker[b] # Aside /\ asker[b].on = a THEN Aside ELSE asker[b]]

\* The result is kept, stamped with the time it is there.
set_result(a) ==
  /\ flight[a].at = "batch" /\ \A q \in Queries : flight[a].are[q] = "done"
  /\ cache' = [cache EXCEPT ![flight[a].key] = [at |-> "entry", stored_at |-> moment,
                                                value |-> flight[a].got]]
  /\ Given(flight[a].key, flight[a].got) /\ Land(a)
  /\ UNCHANGED <<strays, moment, asks, promTrouble>>

\* Pages degrade to cards without metrics, the notifier leaves its poll out.
set_exception(a) ==
  /\ flight[a].at = "failed" /\ Land(a)
  /\ UNCHANGED <<cache, strays, moment, asks, promTrouble, answered>>

Tick ==
  /\ moment < MaxMoments /\ moment' = moment + 1
  /\ UNCHANGED <<asker, flight, inflight, cache, strays, asks, promTrouble, answered>>

-----------------------------------------------------------------------------
MetricsInit ==
  /\ asker = [a \in Askers |-> Aside] /\ flight = [a \in Askers |-> NoFlight]
  /\ inflight = [key \in CacheKeys |-> Nobody] /\ cache = [key \in CacheKeys |-> NoEntry]
  /\ strays = [running |-> 0, queued |-> 0]
  /\ moment = 0 /\ asks = 0 /\ promTrouble = 0
  /\ answered = [newest |-> [key \in CacheKeys |-> [q \in Queries |-> 0]], back |-> FALSE]

\* What a request or a query does of its own accord.
MetricsStep ==
  \/ \E a \in Askers : \/ set_result(a) \/ set_exception(a)
                       \/ \E q \in Queries : _guarded_query(a, q) \/ query(a, q)
  \/ StartStray \/ EndStray

MetricsNext ==
  \/ \E a \in Askers, key \in CacheKeys : fetch_for_instances(a, key)
  \/ MetricsStep
  \/ \E a \in Askers, q \in Queries : PrometheusUnavailable(a, q)
  \/ Tick

\* The event loop runs, and every attempt of a query has a timeout.
MetricsSpec == MetricsInit /\ [][MetricsNext]_metricsVars /\ WF_metricsVars(MetricsStep)

-----------------------------------------------------------------------------
\* The variables keep their shape.
MetricsTypeOK ==
  /\ \A a \in Askers : asker[a] # Aside => asker[a].key \in CacheKeys /\ asker[a].on \in Askers
  /\ inflight \in [CacheKeys -> Askers \cup {Nobody}]
  /\ \A key \in CacheKeys : cache[key] # NoEntry => cache[key].value \in InstanceMetrics
  /\ moment \in Moments /\ asks \in 0 .. MaxAsks /\ promTrouble \in 0 .. MaxPromTrouble

\* Nobody waits for a batch that has landed or that is about another key, and
\* no key is taken by a batch that is not there: a failed batch blocks nobody
\* who asks later.
NobodyIsForgotten ==
  /\ \A a \in Askers : asker[a] # Aside =>
       flight[asker[a].on] # NoFlight /\ flight[asker[a].on].key = asker[a].key
  /\ \A key \in CacheKeys : inflight[key] # Nobody =>
       flight[inflight[key]] # NoFlight /\ flight[inflight[key]].key = key

\* However requests, batches, failures and expiries cross, nobody is shown
\* metrics older than what was shown for the same key before.
MetricsNeverGoBack == ~answered.back

\* Every request comes to an end, with a value or an error.
AskersAreAnswered == <>[](\A a \in Askers : asker[a] = Aside)

\* What holds of the metrics at any moment.
MetricsHold == MetricsTypeOK /\ NobodyIsForgotten /\ MetricsNeverGoBack
=============================================================================
