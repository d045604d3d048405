------------------------------- MODULE MCLoops -------------------------------
(***************************************************************************)
(* The background loops of the application, which share no state the       *)
(* modules look at: a behaviour belongs to one of them, and the others     *)
(* stay as they began.  One run then checks them all, in the sum of their  *)
(* states.                                                                 *)
(***************************************************************************)
EXTENDS AiKeys, BackendUsersSnapshot, Notifier, Monitoring

VARIABLE loop        \* the loop this behaviour is about

loopsVars == <<loop, aiKeysVars, snapshotVars, notifierVars, metricsVars>>

LoopsInit ==
  /\ loop \in {"keys", "snapshot", "notifier", "metrics"}
  /\ AiKeysInit /\ SnapshotInit /\ NotifierInit /\ MetricsInit
  /\ loop # "keys" => loops = CHOOSE group \in LoopGroups : TRUE
  /\ loop # "snapshot" => revenue

LoopsNext ==
  \/ loop = "keys" /\ AiKeysNext /\ UNCHANGED <<loop, snapshotVars, notifierVars, metricsVars>>
  \/ loop = "snapshot" /\ SnapshotNext /\ UNCHANGED <<loop, aiKeysVars, notifierVars, metricsVars>>
  \/ loop = "notifier" /\ NotifierNext /\ UNCHANGED <<loop, aiKeysVars, snapshotVars, metricsVars>>
  \/ loop = "metrics" /\ MetricsNext /\ UNCHANGED <<loop, aiKeysVars, snapshotVars, notifierVars>>

\* The fairness of each loop, of the steps it takes when it is the one at work.
KeysFair(step) == loop = "keys" /\ step /\ UNCHANGED <<loop, snapshotVars, notifierVars, metricsVars>>
SnapshotFair(step) ==
  loop = "snapshot" /\ step /\ UNCHANGED <<loop, aiKeysVars, notifierVars, metricsVars>>
NotifierFair(step) ==
  loop = "notifier" /\ step /\ UNCHANGED <<loop, aiKeysVars, snapshotVars, metricsVars>>
MetricsFair(step) ==
  loop = "metrics" /\ step /\ UNCHANGED <<loop, aiKeysVars, snapshotVars, notifierVars>>

LoopsSpec ==
  /\ LoopsInit /\ [][LoopsNext]_loopsVars
  /\ \A kind \in Kinds : WF_loopsVars(KeysFair(poll_once(kind)))
  /\ \A k \in AiKeyIds, s \in Slots : WF_loopsVars(KeysFair(TaskStep(k, s)))
  /\ WF_loopsVars(SnapshotFair(WorkerStep))
  /\ WF_loopsVars(SnapshotFair(\E t \in touches : _touch_snapshot(t)))
  /\ WF_loopsVars(NotifierFair(PollStep))
  /\ WF_loopsVars(MetricsFair(MetricsStep))

(***************************************************************************)
(* The properties of each loop, asked of its own behaviours only:          *)
(* elsewhere its state never changes.                                      *)
(***************************************************************************)
\* AI keys: an alert is not repeated while the verdict stays, and the stored
\* balance is that of the stored key.
KeysHold == loop = "keys" => AiKeysHold

\* The users snapshot: a page that shows no error and is not called partial sums
\* the costs of all its rows.
SnapshotHolds == loop = "snapshot" => UsersSnapshotHolds

\* What holds of the readers of metrics: the notifier, and the requests that
\* share its way to Prometheus.
ReadersHold ==
  /\ loop = "notifier" => NotifierHolds
  /\ loop = "metrics" => MetricsHold

\* Every loop comes to say what is so once the world comes to rest: keys have
\* the provider's verdict, the snapshot is the backend's list, the chat knows
\* the load; and whoever asks for metrics is answered.
LoopsSettle == KeyVerdictsSettle /\ SnapshotSettles /\ LoadIsTold /\ AskersAreAnswered
=============================================================================
