----------------------------- MODULE MCMailDown -----------------------------
(***************************************************************************)
(* Two instances of MailDown in one run: requests that overlap while every *)
(* alert reaches the first chat, or one request at a time among several    *)
(* chats, blocks and lost alerts.                                          *)
(***************************************************************************)
EXTENDS MailDown, TLC

CONSTANTS a1, a2, ann,
          h1           \* the only handler of the second instance

VARIABLE overlap       \* whether this behaviour is of the first instance

\* Ann has one chat or two.
OnlyAnn == a1 :> ann
TwoOfAnn == (a1 :> ann) @@ (a2 :> ann)

\* Bounds of the two instances.
Narrowed ==
  IF overlap THEN trouble = 0 /\ seesAll \subseteq {a1}
  ELSE \A h \in Requests \ {h1} : request[h] = Nobody

MCInit == Init /\ overlap \in BOOLEAN /\ Narrowed

MCNext == Next /\ UNCHANGED overlap /\ Narrowed'

MCSpec == MCInit /\ [][MCNext]_<<vars, overlap>> /\ WF_vars(PassC)
=============================================================================
