------------------------------- MODULE AiKeys -------------------------------
(***************************************************************************)
(* The registry of AI keys and its three background loops: the check of    *)
(* validity (services/ai_key_monitor_service.py), the hourly credit probe  *)
(* (ai_key_credit_probe_service.py) and the balance sync                   *)
(* (ai_key_balance_sync_service.py), with the edits of ai_key_service.py.  *)
(*                                                                         *)
(* A task reads a snapshot of the row, asks the provider with no session   *)
(* open, stores its verdict with an unconditional UPDATE in a session of   *)
(* its own, and sends the alert after the commit.  Tasks come from the     *)
(* loop ("poll") or from an edit ("spawn").  An edit of the console loads  *)
(* the row first and writes the columns it has changed later, and anything *)
(* may fall in between.  A secret is a number, new with every change of    *)
(* the key or of the provider it is for; an amount is the level it falls   *)
(* into.  Names, positions, timestamps and error texts are left out.       *)
(***************************************************************************)
EXTENDS Naturals, FiniteSets

CONSTANTS
  AiKeyIds,          \* identifiers of keys
  Editors,           \* requests of the console that edit a key
  MaxKeyEdits,       \* bound on edits of the console
  MaxKeyTrouble,     \* bound on changes at the provider and on crashes
  FailThreshold,     \* _SYNC_FAIL_ALERT_THRESHOLD
  BalanceLevels,     \* bound: levels a balance takes
  LoopGroups         \* bound: sets of kinds of tasks that run side by side

ASSUME AiKeysAssumption ==
  /\ MaxKeyEdits \in Nat /\ MaxKeyTrouble \in Nat /\ FailThreshold \in Nat \ {0}
  /\ "normal" \in BalanceLevels /\ BalanceLevels \subseteq {"normal", "low", "depleted"}
  /\ LoopGroups \subseteq SUBSET {"check", "probe", "sync"}

VARIABLES
  aiKey,        \* the row of each key
  provider,     \* what is true of each key at its provider
  aiTask,       \* the task in each slot of each key
  edit,         \* what each edit in flight has loaded
  astray,       \* keys an edit has left with a balance it did not mean to: the
                \* row had changed under it, or the provider alone was changed
                \* beside a cached identifier
  keyEdits,     \* edits so far
  keyTrouble,   \* changes at the provider and crashes so far
  told,         \* the last alert of each kind about each key; "twice" when it
                \* repeats the one before, "mixed" once tasks of the kind have
                \* overlapped, with each other or an edit, or a crash ate an alert
  loops         \* the kinds of tasks that run in this behaviour

aiKeysVars == <<aiKey, provider, aiTask, edit, astray, keyEdits, keyTrouble, told, loops>>
editVars == <<edit, astray, keyEdits>>

Kinds == {"check", "probe", "sync"}
Slots == (Kinds \X {"poll"}) \cup ({"check", "sync"} \X {"spawn"})
Levels == {"normal", "low", "depleted"}
Amounts == IF "sync" \in loops THEN BalanceLevels ELSE {"normal"}
NoKey == 0
Idle == [at |-> "idle"]

AiKeyRow == [life : {"new", "here", "gone"}, secret : Nat,
             check : {"pending", "working", "error"}, credit : {"none", "ok", "depleted"},
             on : BOOLEAN, level : Levels \cup {"none"},
             sync : {"none", "ok", "error", "unknown"}, streak : 0..FailThreshold, billed : Nat]

ProviderTruth == [up : BOOLEAN, check : {"working", "error"}, credit : {"ok", "depleted"},
                  bill : {"ok", "error"}, level : Levels]

Here(k) == aiKey[k].life = "here"
Busy(k, kind) == {s \in Slots : s[1] = kind /\ aiTask[k][s] # Idle}

-----------------------------------------------------------------------------
(* Verdicts.                                                               *)

\* check_key: 200, a 4xx, or no answer after the retries.
check_key(k, t) == IF ~provider[k].up THEN {"unknown"}
                   ELSE IF t.old THEN {"working", "error"} ELSE {provider[k].check}

\* probe_credits: a rejected key says nothing of its credits.
probe_credits(k, t) ==
  IF ~provider[k].up THEN {"unknown"}
  ELSE IF t.old THEN {"ok", "depleted", "unknown"}
  ELSE IF provider[k].check = "error" THEN {"unknown"} ELSE {provider[k].credit}

\* The identifier the costs are summed over: the cached one, else that of the
\* key with the fragments of the snapshot.
billing_id(t) == IF t.billed = NoKey THEN t.secret ELSE t.billed

\* The sum of the costs since the anchor: those of another key say nothing of
\* this one.
Remaining(k, t) ==
  IF t.old \/ billing_id(t) # t.secret THEN Amounts \cup {"error"}
  ELSE IF provider[k].bill = "error" THEN {"error"} ELSE {provider[k].level}

sync_balance(k, t) == IF ~provider[k].up THEN {"unknown"} ELSE Remaining(k, t)

Ask(k, kind, t) == CASE kind = "check" -> check_key(k, t)
                     [] kind = "probe" -> probe_credits(k, t)
                     [] kind = "sync"  -> sync_balance(k, t)

evaluate_transition(old, outcome) ==
  CASE outcome = "error" /\ old # "error" -> "error"
    [] outcome = "working" /\ old = "error" -> "recovery"
    [] OTHER -> "none"

evaluate_credit_transition(old, outcome) ==
  CASE outcome = "depleted" /\ old # "depleted" -> "depleted"
    [] outcome = "ok" /\ old = "depleted" -> "recovered"
    [] OTHER -> "none"

evaluate_balance_alert_transition(old, outcome) ==
  CASE outcome \in {"low", "depleted"} /\ old # outcome -> outcome
    [] outcome = "normal" /\ old \in {"low", "depleted"} -> "recovered"
    [] OTHER -> "none"

\* The third failure in a row is told, and every one after it.
Streak(t) == IF t.streak < FailThreshold THEN t.streak + 1 ELSE FailThreshold

SyncAlert(t) == IF t.answer \in Levels THEN evaluate_balance_alert_transition(t.prev, t.answer)
                ELSE IF Streak(t) = FailThreshold THEN "sync_failed" ELSE "none"

\* update_balance_sync: the whole verdict is written, with the level and the
\* streak of the snapshot; the cached identifier is left alone when there is none.
update_balance_sync(row, t) ==
  IF t.answer \in Levels
  THEN [row EXCEPT !.level = t.answer, !.sync = "ok", !.streak = 0, !.billed = billing_id(t)]
  ELSE [row EXCEPT !.level = t.prev, !.sync = t.answer, !.streak = Streak(t),
                   !.billed = IF t.answer = "unknown" /\ t.billed # NoKey THEN t.billed ELSE @]

\* update_check and update_credit_probe.
update_check(row, t) == [row EXCEPT !.check = t.answer]
update_credit_probe(row, t) == [row EXCEPT !.credit = t.answer]

-----------------------------------------------------------------------------
(* Tasks.                                                                  *)

\* Fault: a key is checked only until it has a verdict.
EligiblePendingOnly(k, kind) ==
  /\ Here(k)
  /\ kind = "check" => aiKey[k].check = "pending"
  /\ kind = "probe" => aiKey[k].check = "working"
  /\ kind = "sync" => aiKey[k].on

\* A key known to work is probed (poll_once of the credit probe).
Probed(k) == aiKey[k].check = "working"

\* Every key is checked, one known to work is probed, a monitored one synced;
\* no loop looks at what its last verdict was.
Eligible(k, kind) ==
  /\ Here(k)
  /\ kind = "probe" => Probed(k)
  /\ kind = "sync" => aiKey[k].on

Snapshot(k, kind) ==
  LET row == aiKey[k] IN
    [at |-> "ask", old |-> FALSE, secret |-> row.secret,
     prev |-> CASE kind = "check" -> row.check [] kind = "probe" -> row.credit
                [] kind = "sync" -> row.level,
     streak |-> IF kind = "sync" THEN row.streak ELSE 0,
     billed |-> IF kind = "sync" THEN row.billed ELSE NoKey]

\* poll_once: an iteration waits for all the tasks of the one before it.
poll_once(kind) ==
  /\ kind \in loops /\ \A k \in AiKeyIds : aiTask[k][<<kind, "poll">>] = Idle
  /\ \E k \in AiKeyIds : Eligible(k, kind)
  /\ aiTask' = [k \in AiKeyIds |->
       IF Eligible(k, kind) THEN [aiTask[k] EXCEPT ![<<kind, "poll">>] = Snapshot(k, kind)]
       ELSE aiTask[k]]
  /\ told' = [k \in AiKeyIds |->
       IF Eligible(k, kind) /\ Busy(k, kind) # {} THEN [told[k] EXCEPT ![kind] = "mixed"] ELSE told[k]]
  /\ UNCHANGED <<aiKey, provider, editVars, keyTrouble, loops>>

\* check_one, sync_one: the row as it is when the spawned task runs.
BeginSpawned(k, s) ==
  /\ aiTask[k][s].at = "read"
  /\ aiTask' = [aiTask EXCEPT ![k][s] = IF Eligible(k, s[1]) THEN Snapshot(k, s[1]) ELSE Idle]
  /\ UNCHANGED <<aiKey, provider, editVars, keyTrouble, told, loops>>

\* A check or a probe without a verdict writes nothing.
HearProvider(k, s) ==
  LET t == aiTask[k][s] IN
    /\ t.at = "ask"
    /\ \E answer \in Ask(k, s[1], t) :
         aiTask' = [aiTask EXCEPT ![k][s] =
           IF answer = "unknown" /\ s[1] # "sync" THEN Idle
           ELSE [at |-> "store", old |-> t.old, secret |-> t.secret, prev |-> t.prev,
                 streak |-> t.streak, billed |-> t.billed, answer |-> answer]]
    /\ UNCHANGED <<aiKey, provider, editVars, keyTrouble, told, loops>>

\* The UPDATE by id: on a key deleted meanwhile it touches no row, and the
\* alert is sent all the same.
StoreVerdict(k, s) ==
  LET t == aiTask[k][s]
      alert == CASE s[1] = "check" -> evaluate_transition(t.prev, t.answer)
                 [] s[1] = "probe" -> evaluate_credit_transition(t.prev, t.answer)
                 [] s[1] = "sync"  -> SyncAlert(t)
  IN /\ t.at = "store"
     /\ aiKey' = IF ~Here(k) THEN aiKey
                 ELSE [aiKey EXCEPT ![k] = CASE s[1] = "check" -> update_check(@, t)
                                             [] s[1] = "probe" -> update_credit_probe(@, t)
                                             [] s[1] = "sync"  -> update_balance_sync(@, t)]
     /\ aiTask' = [aiTask EXCEPT ![k][s] =
                     IF alert = "none" THEN Idle ELSE [at |-> "tell", alert |-> alert]]
     /\ UNCHANGED <<provider, editVars, keyTrouble, told, loops>>

\* _send_alert, after the commit.
SendAlert(k, s) ==
  LET t == aiTask[k][s] IN
    /\ t.at = "tell"
    /\ aiTask' = [aiTask EXCEPT ![k][s] = Idle]
    /\ told' = [told EXCEPT ![k][s[1]] =
                   IF t.alert = "sync_failed" \/ @ = "mixed" THEN @
                   ELSE IF @ = t.alert THEN "twice" ELSE t.alert]
    /\ UNCHANGED <<aiKey, provider, editVars, keyTrouble, loops>>

TaskStep(k, s) ==
  BeginSpawned(k, s) \/ HearProvider(k, s) \/ StoreVerdict(k, s) \/ SendAlert(k, s)

-----------------------------------------------------------------------------
(* Edits.                                                                  *)

OneMoreEdit == keyEdits < MaxKeyEdits /\ keyEdits' = keyEdits + 1

\* A commit that wakes tasks of some kinds and starts others' stories anew;
\* tasks in flight know the row as it was.
Edited(k, kinds, anew) ==
  /\ \A kind \in kinds : aiTask[k][<<kind, "spawn">>] = Idle
  /\ aiTask' = [aiTask EXCEPT ![k] = [s \in Slots |->
       CASE s[2] = "spawn" /\ s[1] \in kinds \cap loops -> [at |-> "read"]
         [] aiTask[k][s].at \in {"ask", "store"} -> [aiTask[k][s] EXCEPT !.old = TRUE]
         [] OTHER -> aiTask[k][s]]]
  /\ told' = [told EXCEPT ![k] = [kind \in Kinds |->
       CASE Busy(k, kind) # {} -> "mixed"
         [] Busy(k, kind) = {} /\ kind \in anew /\ @[kind] # "mixed" -> "none"
         [] OTHER -> @[kind]]]
  /\ UNCHANGED <<keyTrouble, loops>>

\* _balance_create_fields, and the anchor of _apply_balance_patch and
\* reset_balance: the level is set without a word.
Anchored(row, level) ==
  [row EXCEPT !.on = TRUE, !.level = level, !.sync = "ok", !.streak = 0, !.billed = NoKey]

\* create_key: pending, and looked at once.
create_key(k, on, level) ==
  /\ aiKey[k].life = "new"
  /\ aiKey' = [aiKey EXCEPT ![k] = IF on THEN Anchored([@ EXCEPT !.life = "here"], level)
                                   ELSE [@ EXCEPT !.life = "here"]]
  /\ on => "sync" \in loops
  /\ level # "normal" => on
  /\ provider' = [provider EXCEPT ![k].level = level]
  /\ Edited(k, IF on THEN {"check", "sync"} ELSE {"check"}, {})
  /\ OneMoreEdit /\ UNCHANGED <<edit, astray>>

\* update_key and reset_balance load the row.
LoadKey(e, k) ==
  /\ edit[e] = Idle /\ Here(k) /\ OneMoreEdit
  /\ edit' = [edit EXCEPT ![e] = [at |-> "edit", key |-> k, row |-> aiKey[k], fresh |-> keyEdits + 2]]
  /\ UNCHANGED <<aiKey, provider, aiTask, astray, keyTrouble, told, loops>>

\* A refusal, or a row deleted since it was loaded: nothing is written.
RefuseEdit(e) ==
  /\ edit[e] # Idle /\ edit' = [edit EXCEPT ![e] = Idle]
  /\ UNCHANGED <<aiKey, provider, aiTask, astray, keyEdits, keyTrouble, told, loops>>

\* _apply_balance_patch: what a PATCH does to the balance fields.  Monitoring
\* is turned on only with an admin key and a balance, turned off it is erased.
_apply_balance_patch(row, patch, level) ==
  CASE patch = "anchor"  -> Anchored(row, level)
    [] patch = "disable" -> [row EXCEPT !.on = FALSE, !.level = "none", !.sync = "none",
                                        !.streak = 0, !.billed = NoKey]
    [] patch = "admin"   -> [row EXCEPT !.billed = NoKey]
    [] OTHER             -> row

\* Fault: the new key keeps the identifier of the old one.
SetKeyOnly(row, secret) == [row EXCEPT !.secret = secret, !.check = "pending"]

\* A new key, and a new provider for the key there is, which keeps what is cached.
SetKey(row, secret) == [row EXCEPT !.secret = secret, !.check = "pending", !.billed = NoKey]
SetProvider(row, secret) == [row EXCEPT !.secret = secret, !.check = "pending"]

\* The row a PATCH makes of the one it has before it.
Patched(row, what, secret, patch, level) ==
  _apply_balance_patch(CASE what = "key" -> SetKey(row, secret)
                         [] what = "provider" -> SetProvider(row, secret)
                         [] OTHER -> row, patch, level)

\* The flush of the session: a column is written when the edit has changed the
\* value it loaded, and has what others wrote meanwhile when it has not.
Flushed(row, loaded, wanted) ==
  LET Column(c) == IF wanted[c] # loaded[c] THEN wanted[c] ELSE row[c] IN
    [row EXCEPT !.secret = Column("secret"), !.check = Column("check"), !.on = Column("on"),
                !.level = Column("level"), !.sync = Column("sync"), !.streak = Column("streak"),
                !.billed = Column("billed")]

\* The columns of the balance, and the key it is reckoned for.
BalanceOf(row) == <<row.secret, row.on, row.level, row.sync, row.streak, row.billed>>

\* The commit of an edit that makes "wanted" of what it loaded, and would have
\* made "meant" of the row as it is now.
CommitEdit(e, wanted, meant, what) ==
  LET k == edit[e].key
      new == Flushed(aiKey[k], edit[e].row, wanted)
  IN /\ Here(k) /\ aiKey' = [aiKey EXCEPT ![k] = new]
     /\ edit' = [edit EXCEPT ![e] = Idle]
     /\ astray' = IF BalanceOf(new) = BalanceOf(meant) /\ (what = "provider" => new.billed = NoKey)
                  THEN astray ELSE astray \cup {k}
     /\ UNCHANGED keyEdits

\* update_key: the check starts over with a new key or provider, the sync after
\* a change of what it depends on; a new key alone wakes no sync.
update_key(e, what, patch, level) ==
  LET k == edit[e].key
      loaded == edit[e].row
      secret == edit[e].fresh
      renewed == what # "none"
  IN /\ edit[e] # Idle /\ (renewed \/ patch # "none")
     /\ patch \in {"disable", "admin", "threshold"} => loaded.on
     /\ patch # "none" => "sync" \in loops
     /\ level # "normal" => patch \in {"anchor", "threshold"}
     /\ CommitEdit(e, Patched(loaded, what, secret, patch, level),
                      Patched(aiKey[k], what, secret, patch, level), what)
     /\ \E check \in IF renewed THEN {"working", "error"} ELSE {provider[k].check} :
          provider' = [provider EXCEPT ![k].check = check,
                         ![k].level = IF patch \in {"anchor", "threshold"} THEN level ELSE @]
     /\ Edited(k, (IF renewed THEN {"check"} ELSE {})
                    \cup (IF patch # "none" /\ aiKey'[k].on THEN {"sync"} ELSE {}),
                  (IF renewed THEN {"check"} ELSE {})
                    \cup (IF patch \in {"anchor", "disable"} THEN {"sync"} ELSE {}))

\* reset_balance: the anchor anew after a payment.
reset_balance(e, level) ==
  LET k == edit[e].key IN
    /\ edit[e] # Idle /\ edit[e].row.on
    /\ CommitEdit(e, Anchored(edit[e].row, level), Anchored(aiKey[k], level), "none")
    /\ provider' = [provider EXCEPT ![k].level = level]
    /\ Edited(k, {"sync"}, {"sync"})

\* delete_key: one DELETE, whatever is in flight.
delete_key(k) ==
  /\ Here(k)
  /\ aiKey' = [aiKey EXCEPT ![k].life = "gone"]
  /\ Edited(k, {}, {}) /\ OneMoreEdit /\ UNCHANGED <<provider, edit, astray>>

EditKey(k) ==
  \/ \E on \in BOOLEAN, level \in Amounts : create_key(k, on, level)
  \/ \E e \in Editors : LoadKey(e, k)
  \/ delete_key(k)

EditStep(e) ==
  \/ \E what \in {"none", "key", "provider"}, level \in Amounts,
        patch \in {"none", "anchor", "disable", "admin", "threshold"} :
       update_key(e, what, patch, level)
  \/ \E level \in Amounts : reset_balance(e, level)
  \/ RefuseEdit(e)

-----------------------------------------------------------------------------
(* The environment.                                                        *)

\* The provider goes down or comes back, or one truth about the key changes.
ProviderChanges(k) ==
  /\ Here(k) /\ keyTrouble < MaxKeyTrouble /\ keyTrouble' = keyTrouble + 1
  /\ \/ provider' = [provider EXCEPT ![k].up = ~@]
     \/ \E check \in {"working", "error"} : provider' = [provider EXCEPT ![k].check = check]
     \/ \E credit \in {"ok", "depleted"} : provider' = [provider EXCEPT ![k].credit = credit]
     \/ "sync" \in loops /\ \E bill \in {"ok", "error"} : provider' = [provider EXCEPT ![k].bill = bill]
     \/ \E level \in Amounts : provider' = [provider EXCEPT ![k].level = level]
  /\ provider' # provider
  /\ UNCHANGED <<aiKey, aiTask, editVars, told, loops>>

\* The process stops: edits and tasks are gone, and the alerts not yet sent.
CrashKeys ==
  /\ keyTrouble < MaxKeyTrouble /\ keyTrouble' = keyTrouble + 1
  /\ \E k \in AiKeyIds, s \in Slots : aiTask[k][s] # Idle
  /\ aiTask' = [k \in AiKeyIds |-> [s \in Slots |-> Idle]]
  /\ told' = [k \in AiKeyIds |-> [kind \in Kinds |->
       IF \E s \in Busy(k, kind) : aiTask[k][s].at = "tell" THEN "mixed" ELSE told[k][kind]]]
  /\ edit' = [e \in Editors |-> Idle]
  /\ UNCHANGED <<aiKey, provider, astray, keyEdits, loops>>

-----------------------------------------------------------------------------
AiKeysInit ==
  /\ loops \in LoopGroups
  /\ aiKey = [k \in AiKeyIds |->
       [life |-> "new", secret |-> 1, check |-> "pending", credit |-> "none", on |-> FALSE,
        level |-> "none", sync |-> "none", streak |-> 0, billed |-> NoKey]]
  /\ provider = [k \in AiKeyIds |-> [up |-> TRUE, check |-> "working", credit |-> "ok",
                                     bill |-> "ok", level |-> "normal"]]
  /\ aiTask = [k \in AiKeyIds |-> [s \in Slots |-> Idle]]
  /\ edit = [e \in Editors |-> Idle] /\ astray = {}
  /\ keyEdits = 0 /\ keyTrouble = 0
  /\ told = [k \in AiKeyIds |-> [kind \in Kinds |-> "none"]]

AiKeysNext ==
  \/ \E kind \in Kinds : poll_once(kind)
  \/ \E k \in AiKeyIds, s \in Slots : TaskStep(k, s)
  \/ \E k \in AiKeyIds : EditKey(k) \/ ProviderChanges(k)
  \/ \E e \in Editors : EditStep(e)
  \/ CrashKeys

\* The loops come round again and every task goes on: run() survives a failed
\* iteration, and each request to a provider has a timeout.
AiKeysFairness ==
  /\ \A kind \in Kinds : WF_aiKeysVars(poll_once(kind))
  /\ \A k \in AiKeyIds, s \in Slots : WF_aiKeysVars(TaskStep(k, s))

AiKeysSpec == AiKeysInit /\ [][AiKeysNext]_aiKeysVars /\ AiKeysFairness

-----------------------------------------------------------------------------
\* Every variable keeps its range.
AiKeysTypeOK ==
  /\ aiKey \in [AiKeyIds -> AiKeyRow]
  /\ provider \in [AiKeyIds -> ProviderTruth]
  /\ \A k \in AiKeyIds, s \in Slots : aiTask[k][s].at \in {"idle", "read", "ask", "store", "tell"}
  /\ \A e \in Editors : edit[e] # Idle => edit[e].key \in AiKeyIds /\ edit[e].row \in AiKeyRow
  /\ astray \subseteq AiKeyIds
  /\ keyEdits \in 0..MaxKeyEdits /\ keyTrouble \in 0..MaxKeyTrouble
  /\ told \in [AiKeyIds -> [Kinds -> {"none", "error", "recovery", "depleted", "low", "recovered",
                                       "twice", "mixed"}]]
  /\ loops \in LoopGroups

\* The same alert is not sent twice in a row about a key, over checks, probes,
\* syncs, restarts and outages of the provider, as long as tasks of the kind
\* neither overlapped nor lost an alert to a crash: the status in the row is
\* the only memory of what was told.  An edit of the key or of its provider
\* starts the checks anew, one of the anchor the syncs.
AlertsNotRepeated == \A k \in AiKeyIds, kind \in Kinds : told[k][kind] # "twice"

\* The costs a balance is reckoned from are those of the key in the row, and a
\* key without monitoring keeps nothing of it, unless syncs overlapped or one
\* was in flight at the commit of an edit; the row had changed in the columns
\* of the balance since the edit loaded it, so that what it left out or wrote
\* over is another's; or the provider alone was changed, beside an identifier
\* that stays cached.
BalanceBelongsToKey ==
  \A k \in AiKeyIds : told[k]["sync"] # "mixed" /\ k \notin astray =>
    /\ aiKey[k].billed \in {NoKey, aiKey[k].secret}
    /\ ~aiKey[k].on => aiKey[k].level = "none" /\ aiKey[k].sync = "none"
                         /\ aiKey[k].streak = 0 /\ aiKey[k].billed = NoKey

Settled(k) ==
  LET row == aiKey[k] truth == provider[k] IN
    Here(k) /\ truth.up =>
      /\ "check" \in loops => row.check = truth.check
      /\ "probe" \in loops /\ row.check = "working" => row.credit = truth.credit
      /\ "sync" \in loops /\ row.on /\ row.billed \in {NoKey, row.secret}
           => row.sync = truth.bill /\ (truth.bill = "ok" => row.level = truth.level)

\* Whatever the interleaving of tasks, edits, crashes and outages, when they
\* end the row comes to say of the key what the provider does.
KeyVerdictsSettle == <>[](\A k \in AiKeyIds : Settled(k))

\* What holds of keys at any moment.
AiKeysHold == AiKeysTypeOK /\ AlertsNotRepeated /\ BalanceBelongsToKey
=============================================================================
