--------------------------- MODULE MCSmsDelivery ---------------------------
(***************************************************************************)
(* Two instances of SmsDelivery in one run: a webhook at a time with a     *)
(* list of several chats, so that a fan-out can stop half-way, or          *)
(* concurrent webhooks for one chat among changes by people.               *)
(***************************************************************************)
EXTENDS SmsDelivery

CONSTANTS Second,      \* the handler that is idle in the first instance
          Other        \* the chat that nobody links in the second

VARIABLE fanOut        \* whether this behaviour is of the first instance

\* Bounds of the two instances.
Narrowed ==
  IF fanOut THEN pc[Second] = "idle" /\ changes = 0
  ELSE link[Other] = NoLink /\ Other \notin blocked

MCInit == Init /\ fanOut \in BOOLEAN /\ Narrowed

MCNext == Next /\ UNCHANGED fanOut /\ Narrowed'

MCSpec == MCInit /\ [][MCNext]_<<vars, fanOut>> /\ Fairness
============================================================================
