--------------------------- MODULE DeliveryLedger ---------------------------
(***************************************************************************)
(* What a table of deliveries promises, whatever writes it: a letter is a  *)
(* message for one chat, its row goes from `pending` to `sent` or `dead`,  *)
(* possibly by way of `failed`, and its chat gets one copy, before the row *)
(* says `sent` and never after it was given up.                            *)
(*                                                                         *)
(* The promise may be waived, letter by letter, when the design accepts a  *)
(* repetition; even then `sent` means that a copy arrived.  SmsDelivery    *)
(* and MailDispatch say when they waive it and implement this module.      *)
(***************************************************************************)
EXTENDS Naturals

CONSTANT Letters

VARIABLES
  stage,       \* status of the row of a letter, "none" without a row
  arrived,     \* copies of it that have arrived
  waived       \* letters that may be repeated

ledger == <<stage, arrived, waived>>

Stages == {"none", "pending", "sent", "failed", "dead"}
Underway(p) == stage[p] \in {"pending", "failed"}

LedgerInit ==
  /\ stage = [p \in Letters |-> "none"]
  /\ arrived = [p \in Letters |-> 0]
  /\ waived = {}

\* The row is inserted.
Reserved(p) ==
  /\ stage[p] = "none"
  /\ stage' = [stage EXCEPT ![p] = "pending"]
  /\ UNCHANGED <<arrived, waived>>

\* A copy arrives; the row does not know it yet.
Arrives(p) ==
  /\ Underway(p) /\ arrived[p] = 0
  /\ arrived' = [arrived EXCEPT ![p] = 1]
  /\ UNCHANGED <<stage, waived>>

\* The outcome of an attempt is recorded: `sent` if a copy has arrived, otherwise
\* another attempt follows or none.
Recorded(p, outcome) ==
  /\ Underway(p)
  /\ IF outcome = "sent" THEN arrived[p] = 1
     ELSE outcome \in {"failed", "dead"} /\ arrived[p] = 0
  /\ stage' = [stage EXCEPT ![p] = outcome]
  /\ UNCHANGED <<arrived, waived>>

\* The promise about some letters is waived, or was: to them anything may
\* happen, except that `sent` is said of a copy that did not arrive.
Waives ==
  /\ waived \subseteq waived' /\ waived' \subseteq Letters
  /\ stage' \in [Letters -> Stages]
  /\ arrived' \in [Letters -> Nat]
  /\ \A p \in Letters :
       /\ arrived[p] <= arrived'[p]
       /\ stage'[p] = "sent" => arrived'[p] > 0
       /\ p \notin waived' => stage'[p] = stage[p] /\ arrived'[p] = arrived[p]

LedgerNext ==
  \/ \E p \in Letters :
       \/ Reserved(p)
       \/ Arrives(p)
       \/ \E outcome \in {"sent", "failed", "dead"} : Recorded(p, outcome)
  \/ Waives

LedgerSpec == LedgerInit /\ [][LedgerNext]_ledger

-----------------------------------------------------------------------------
LedgerTypeOK ==
  /\ stage \in [Letters -> Stages]
  /\ arrived \in [Letters -> Nat]
  /\ waived \subseteq Letters

\* A letter that is not waived arrives at most once, and not at all if its row
\* is missing, has failed for good or is still to be tried after a failure.
LedgerTruth ==
  \A p \in Letters :
    /\ stage[p] = "sent" => arrived[p] > 0
    /\ p \notin waived => /\ arrived[p] <= 1
                          /\ arrived[p] = 1 => stage[p] \in {"pending", "failed", "sent"}
=============================================================================
