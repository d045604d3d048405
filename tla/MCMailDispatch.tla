--------------------------- MODULE MCMailDispatch ---------------------------
(***************************************************************************)
(* Instances of MailDispatch for TLC.                                      *)
(***************************************************************************)
EXTENDS MailDispatch, TLC

CONSTANTS a1, a2, ann

\* Ann has one chat or two.
OnlyAnn == a1 :> ann
TwoOfAnn == (a1 :> ann) @@ (a2 :> ann)

\* Handlers, messages, and the chats of one user are interchangeable.
Symmetry == Permutations(Handlers) \cup Permutations(Uids) \cup Permutations(Chats)
=============================================================================
