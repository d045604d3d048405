----------------------------- MODULE MCConsole ------------------------------
(***************************************************************************)
(* The services behind the console's pages, which share no state the       *)
(* modules look at: a behaviour belongs to one of them, and the others     *)
(* stay as they began.  One run then checks them all, in the sum of their  *)
(* states.                                                                 *)
(***************************************************************************)
EXTENDS Documents, DocumentAttachments, Teams, Accounts, Backends, BackendAdmin

VARIABLE part        \* the service this behaviour is about

consoleVars == <<part, documentsVars, attachmentsVars, teamsVars, accountsVars,
                 backendsVars, backendAdminVars>>

\* A part that may begin in several ways does so only in its own behaviours.
ConsoleInit ==
  /\ part \in {"documents", "attachments", "teams", "accounts", "backends", "admin"}
  /\ DocumentsInit /\ AttachmentsInit /\ TeamsInit
  /\ AccountsInit /\ BackendsInit /\ BackendAdminInit
  /\ part # "documents" => nodes[1].mode = "inherit"
  /\ part # "admin" => upstream[FirstAdminHost] = [prefix |-> NoPrefix, level |-> 1]

ConsoleNext ==
  \/ part = "documents" /\ DocumentsNext
     /\ UNCHANGED <<part, attachmentsVars, teamsVars, accountsVars, backendsVars, backendAdminVars>>
  \/ part = "attachments" /\ AttachmentsNext
     /\ UNCHANGED <<part, documentsVars, teamsVars, accountsVars, backendsVars, backendAdminVars>>
  \/ part = "teams" /\ TeamsNext
     /\ UNCHANGED <<part, documentsVars, attachmentsVars, accountsVars, backendsVars, backendAdminVars>>
  \/ part = "accounts" /\ AccountsNext
     /\ UNCHANGED <<part, documentsVars, attachmentsVars, teamsVars, backendsVars, backendAdminVars>>
  \/ part = "backends" /\ BackendsNext
     /\ UNCHANGED <<part, documentsVars, attachmentsVars, teamsVars, accountsVars, backendAdminVars>>
  \/ part = "admin" /\ BackendAdminNext
     /\ UNCHANGED <<part, documentsVars, attachmentsVars, teamsVars, accountsVars, backendsVars>>

ConsoleSpec == ConsoleInit /\ [][ConsoleNext]_consoleVars

(***************************************************************************)
(* The properties of each service, asked of its own behaviours only:       *)
(* elsewhere its state never changes.                                      *)
(***************************************************************************)
\* Documents: a list and a lookup agree on what exists, and a node has role rows
\* only while it is restricted.
DocumentsHold == part = "documents" => DocumentTreeHolds

\* Attachments: a stored file is served, and a copy stands without its original.
AttachmentsHold == part = "attachments" => DocumentAttachmentsHold

\* Teams: the leader is a member, and nobody's extra of a channel is a team he is
\* a member of.
TeamsHold == part = "teams" => MembershipsHold

\* Accounts: every user has a role, one without a password is not active, and
\* nobody has a right that was not in the reach of who gave it.
AccountsHold == part = "accounts" => AccountsAndRolesHold

\* Backends: rows placed by a reorder share no position, and a stored verdict is
\* of the stored domain.
BackendsHold == part = "backends" => BackendRegistryHolds

\* The admin API: what is answered as absent is absent, and the audit is history.
AdminHolds == part = "admin" => BackendAdminHolds
=============================================================================
