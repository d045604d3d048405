------------------------------ MODULE Notifier ------------------------------
(***************************************************************************)
(* The notifier of server load (services/notifier_service.py) over the     *)
(* metrics of services/monitoring_service.py: it reads the servers and     *)
(* their stored states, asks Prometheus, sends the alerts of every server  *)
(* one by one, and stores all the new states and the log of alerts in a    *)
(* single commit at the end.                                               *)
(*                                                                         *)
(* A state is what evaluate compares: whether the server answers, and the  *)
(* zone of each metric, "null" when it is not known.  A missing row reads  *)
(* as the healthy baseline.  Percentages, windows, texts and the list of   *)
(* backends added to a text are left out, and so is whether Telegram took  *)
(* the message: the state is stored all the same.                          *)
(***************************************************************************)
EXTENDS Naturals, Sequences, FiniteSets

CONSTANTS
  Servers,            \* servers of the registry
  Metrics,            \* cpu, ram, ssd
  MaxLoadSteps,       \* bound on changes of the servers' health
  MaxPollTrouble      \* bound on failures of Prometheus, commits and crashes

ASSUME NotifierAssumption == MaxLoadSteps \in Nat /\ MaxPollTrouble \in Nat

VARIABLES
  load,            \* the state each server is really in
  registered,      \* servers in the registry
  stored,          \* notifier_server_state
  poll,            \* where the iteration is
  chat,            \* the state the chat was last told of each server
  torn,            \* servers about which an alert was sent but not stored
  loadSteps, pollTrouble

notifierVars == <<load, registered, stored, poll, chat, torn, loadSteps, pollTrouble>>

Zones == {"green", "yellow", "red"}
\* _rank: an unknown zone counts as green.
_rank(zone) == CASE zone = "red" -> 2 [] zone = "yellow" -> 1 [] OTHER -> 0

AllNull == [m \in Metrics |-> "null"]
Offline == [online |-> FALSE, zones |-> AllNull]
Dark == [online |-> TRUE, zones |-> AllNull]
_HEALTHY_BASELINE == [online |-> TRUE, zones |-> [m \in Metrics |-> "green"]]

\* _build_metrics: either all zones are known or none.
ServerAlertState == {Offline, Dark} \cup [online : {TRUE}, zones : [Metrics -> Zones]]

\* notifier_server_state: a row for each server that was ever evaluated.
NotifierServerState == [Servers -> ServerAlertState]

Same(a, b) ==
  a.online = b.online /\ \A m \in Metrics : _rank(a.zones[m]) = _rank(b.zones[m])

Asleep == [at |-> "sleep"]

-----------------------------------------------------------------------------
(* evaluate.                                                               *)

\* Fault: a metric that goes from green to red at once is missed.
RaisedByOne(base, zones, zone) ==
  {m \in Metrics : zones[m] = zone /\ _rank(zones[m]) = _rank(base[m]) + 1}

\* The metrics that rose to a zone.
Raised(base, zones, zone) ==
  {m \in Metrics : zones[m] = zone /\ _rank(zones[m]) > _rank(base[m])}

\* The zones a load is compared with: after an outage everything is news.
Base(prev) == IF prev.online THEN prev.zones ELSE AllNull

Alert(kind, items) == [kind |-> kind, items |-> items]
When(condition, alert) == IF condition THEN <<alert>> ELSE <<>>

\* The alerts of a transition, in the order they are sent.
evaluate(prev, cur) ==
  IF ~cur.online THEN When(prev.online, Alert("offline", {}))
  ELSE LET yellow == Raised(Base(prev), cur.zones, "yellow")
           red == Raised(Base(prev), cur.zones, "red")
       IN When(~prev.online, Alert("recovered", {}))
            \o When(yellow # {}, Alert("warning", yellow))
            \o When(red # {}, Alert("critical", red))

-----------------------------------------------------------------------------
(* The iteration.                                                          *)

PollTrouble == pollTrouble < MaxPollTrouble /\ pollTrouble' = pollTrouble + 1

\* list_online and load_states in a session that is closed before the metrics
\* are asked for.
ReadStates ==
  /\ poll = Asleep /\ registered # {}
  /\ poll' = [at |-> "ask", prev |-> [s \in registered |-> stored[s]]]
  /\ UNCHANGED <<load, registered, stored, chat, torn, loadSteps, pollTrouble>>

\* fetch_for_instances and the first pass of evaluate.
HearMetrics ==
  /\ poll.at = "ask"
  /\ poll' = [at |-> "send", results |-> [s \in DOMAIN poll.prev |-> load[s]],
              outbox |-> [s \in DOMAIN poll.prev |-> evaluate(poll.prev[s], load[s])],
              spoken |-> {}]
  /\ UNCHANGED <<load, registered, stored, chat, torn, loadSteps, pollTrouble>>

\* PrometheusUnavailable: nothing is sent and nothing is stored.
PrometheusDown ==
  /\ poll.at = "ask" /\ PollTrouble
  /\ poll' = Asleep
  /\ UNCHANGED <<load, registered, stored, chat, torn, loadSteps>>

\* What the chat knows after an alert about a server seen in a state.
Told(before, alert, cur) ==
  CASE alert.kind = "offline"   -> Offline
    [] alert.kind = "recovered" -> Dark
    [] OTHER -> [before EXCEPT !.zones = [m \in Metrics |->
                   IF m \in alert.items THEN cur.zones[m] ELSE @[m]]]

\* send_message: delivered or not, the loop goes on.
SendNext(s) ==
  /\ poll.at = "send" /\ s \in DOMAIN poll.outbox /\ poll.outbox[s] # <<>>
  /\ chat' = [chat EXCEPT ![s] = Told(@, Head(poll.outbox[s]), poll.results[s])]
  /\ poll' = [poll EXCEPT !.outbox[s] = Tail(@), !.spoken = @ \cup {s}]
  /\ UNCHANGED <<load, registered, stored, torn, loadSteps, pollTrouble>>

\* A load that went down is stored without a word: the next rise is news.
Lowered(told, cur) ==
  [told EXCEPT !.zones = [m \in Metrics |->
     IF _rank(cur.zones[m]) < _rank(@[m]) THEN cur.zones[m] ELSE @[m]]]

\* The states to store: every server that was evaluated.
Upserted == DOMAIN poll.results

AllSent == poll.at = "send" /\ \A s \in DOMAIN poll.outbox : poll.outbox[s] = <<>>

\* The upserts and the log, one commit.
StoreStates ==
  /\ AllSent /\ DOMAIN poll.results \subseteq registered
  /\ stored' = [s \in Servers |-> IF s \in Upserted THEN poll.results[s] ELSE stored[s]]
  /\ chat' = [s \in Servers |-> IF s \in Upserted THEN Lowered(chat[s], poll.results[s]) ELSE chat[s]]
  /\ torn' = {s \in torn : ~Same(chat'[s], stored'[s])}
  /\ poll' = Asleep
  /\ UNCHANGED <<load, registered, loadSteps, pollTrouble>>

Lost == poll' = Asleep /\ torn' = IF poll.at = "send" THEN torn \cup poll.spoken ELSE torn

\* The row of a server deleted under the iteration violates the foreign key,
\* and with it goes the commit for all the others.
DeletedUnderway ==
  /\ AllSent /\ ~(DOMAIN poll.results \subseteq registered) /\ Lost
  /\ UNCHANGED <<load, registered, stored, chat, loadSteps, pollTrouble>>

\* The commit fails, or the process stops, anywhere in the iteration.
IterationLost ==
  /\ poll # Asleep /\ PollTrouble /\ Lost
  /\ UNCHANGED <<load, registered, stored, chat, loadSteps>>

PollStep == ReadStates \/ HearMetrics \/ (\E s \in Servers : SendNext(s)) \/ StoreStates
              \/ DeletedUnderway

-----------------------------------------------------------------------------
(* The servers.                                                            *)

LoadChanges(s) ==
  /\ s \in registered /\ loadSteps < MaxLoadSteps /\ loadSteps' = loadSteps + 1
  /\ \E state \in ServerAlertState : state # load[s] /\ load' = [load EXCEPT ![s] = state]
  /\ UNCHANGED <<registered, stored, poll, chat, torn, pollTrouble>>

\* Its state goes with it, and the log keeps the text alone.
DeleteServer(s) ==
  /\ s \in registered /\ loadSteps < MaxLoadSteps /\ loadSteps' = loadSteps + 1
  /\ registered' = registered \ {s}
  /\ UNCHANGED <<load, stored, poll, chat, torn, pollTrouble>>

-----------------------------------------------------------------------------
NotifierInit ==
  /\ load = [s \in Servers |-> _HEALTHY_BASELINE] /\ registered = Servers
  /\ stored = load /\ chat = load /\ torn = {} /\ poll = Asleep
  /\ loadSteps = 0 /\ pollTrouble = 0

NotifierNext ==
  \/ PollStep \/ PrometheusDown \/ IterationLost
  \/ \E s \in Servers : LoadChanges(s) \/ DeleteServer(s)

\* run() polls again after every iteration, failed or not.
NotifierSpec == NotifierInit /\ [][NotifierNext]_notifierVars /\ WF_notifierVars(PollStep)

-----------------------------------------------------------------------------
\* Every variable keeps its range.
NotifierTypeOK ==
  /\ load \in [Servers -> ServerAlertState] /\ stored \in NotifierServerState
  /\ registered \subseteq Servers /\ torn \subseteq Servers
  /\ chat \in [Servers -> [online : BOOLEAN, zones : [Metrics -> Zones \cup {"null"}]]]
  /\ poll.at \in {"sleep", "ask", "send"}
  /\ loadSteps \in 0..MaxLoadSteps /\ pollTrouble \in 0..MaxPollTrouble

\* Between iterations the chat knows of every server what is stored: no rise,
\* outage or recovery was stored unsaid, and none said that is not stored, so
\* that it would be said again.  Only an iteration that spoke and could not
\* store its states leaves the two apart, until they agree again.
ChatKnowsStored ==
  poll = Asleep => \A s \in registered \ torn : Same(chat[s], stored[s])

\* When the servers come to rest, the state of each is stored and the chat
\* knows it.
LoadIsTold ==
  <>[](\A s \in registered : Same(stored[s], load[s]) /\ (s \in torn \/ Same(chat[s], load[s])))

\* What holds of load alerts at any moment.
NotifierHolds == NotifierTypeOK /\ ChatKnowsStored
=============================================================================
