------------------------------ MODULE Accounts ------------------------------
(***************************************************************************)
(* Sign-in, users and roles (services/auth_service.py, user_service.py,    *)
(* role_service.py, api/deps.py, infra/jwt.py): who may act, with what     *)
(* rights, and what happens when requests about one user overlap.          *)
(*                                                                         *)
(* A request is one READ COMMITTED transaction of two steps: what it reads *)
(* and checks, then its writes with the commit; the unit of work writes a  *)
(* column only when it differs from what was loaded.  A right stands for   *)
(* an action of the catalogue; "users" for the pages Users and Roles.      *)
(* Names, telegrams, teams and the contents of passwords are left out.     *)
(***************************************************************************)
EXTENDS Naturals, FiniteSets

CONSTANTS
  Accts,               \* identifiers of users
  AcctRoles,           \* identifiers of roles
  Catalogue,           \* all rights, "users" among them
  Console,             \* the superadmin of the environment
  AcctClerks,          \* requests in flight
  MaxAcctRequests      \* bound on requests

ASSUME AccountsAssumption ==
  /\ "users" \in Catalogue /\ Console \notin Accts /\ MaxAcctRequests \in Nat
  /\ \E r, q \in AcctRoles : r # q

VARIABLES
  acct,            \* the row of each user with his rows of user_roles
  perms,           \* permissions of each role that exists
  tokens,          \* tokens each user holds
  acctReq,         \* what each request is doing
  acctBegun,       \* requests begun
  granted,         \* rights someone who had them has put in a user's reach
  retired,         \* identifiers of deleted users and roles
  tangled          \* users two requests worked on at once

accountsVars == <<acct, perms, tokens, acctReq, acctBegun, granted, retired, tangled>>

NoAcct == [row |-> FALSE, active |-> FALSE, password |-> FALSE, entered |-> FALSE, roles |-> {}]
\* The tables user_roles of a user, users and roles, and what may be asked for.
Assigned == SUBSET AcctRoles
Account == [row : BOOLEAN, active : BOOLEAN, password : BOOLEAN, entered : BOOLEAN,
            roles : Assigned]
Rights == SUBSET Catalogue
Role == [perms : Rights]
TokenKinds == {"access", "setup"}
Principals == Accts \cup {Console}

Quiet == [op |-> "quiet"]
KnownRoles == DOMAIN perms
HasRow(u) == acct[u].row

\* union_permissions: what a user may do is what any of his roles allows.
union_permissions(roles) == UNION {perms[r] : r \in roles}

\* is_admin_level: the whole catalogue, from however many roles.
is_admin_level(rights) == Catalogue \subseteq rights

permissions_subset(child, parent) == child \subseteq parent

\* get_current_principal: an access token of a user who is still active; his
\* rights are read anew for every request.
get_current_principal(a) ==
  a # Console => "access" \in tokens[a] /\ HasRow(a) /\ acct[a].active

RightsOf(a) == IF a = Console THEN Catalogue ELSE union_permissions(acct[a].roles)

require(a, right) == get_current_principal(a) /\ right \in RightsOf(a)

-----------------------------------------------------------------------------
CanOpen(c) == acctReq[c] = Quiet /\ acctBegun < MaxAcctRequests

Open(c, request) ==
  /\ acctReq' = [acctReq EXCEPT ![c] = request]
  /\ acctBegun' = acctBegun + 1
  /\ UNCHANGED <<acct, perms, tokens, granted, retired, tangled>>

\* The commit: requests that have read what this one writes are tangled.
Close(c) ==
  LET r == acctReq[c] IN
    /\ acctReq' = [d \in AcctClerks |->
         IF d = c THEN Quiet
         ELSE IF acctReq[d] # Quiet /\ acctReq[d].touched \cap r.touched # {}
              THEN [acctReq[d] EXCEPT !.tangled = TRUE] ELSE acctReq[d]]
    /\ tangled' = IF r.tangled THEN tangled \cup (r.touched \cap Accts) ELSE tangled
    /\ UNCHANGED <<acctBegun, retired>>

Holders(roles) == {u \in Accts : acct[u].roles \cap roles # {}}

-----------------------------------------------------------------------------
(* Sign-in.                                                                *)

\* login: a wrong password and an inactive user change nothing.
BeginLogin(c, u) ==
  /\ CanOpen(c) /\ HasRow(u) /\ acct[u].active
  /\ Open(c, [op |-> IF acct[u].password THEN "login" ELSE "setup", user |-> u,
              entered |-> acct[u].entered, touched |-> {u}, tangled |-> FALSE])

\* The first entry is stamped once; the token is issued after the commit.
FinishLogin(c) ==
  LET r == acctReq[c] IN
    /\ r.op = "login"
    /\ acct' = IF r.entered \/ ~HasRow(r.user) THEN acct
               ELSE [acct EXCEPT ![r.user].entered = TRUE]
    /\ tokens' = [tokens EXCEPT ![r.user] = @ \cup {"access"}]
    /\ Close(c) /\ UNCHANGED <<perms, granted>>

\* issue_setup_token: nobody is let in without a password.
IssueSetup(c) ==
  LET r == acctReq[c] IN
    /\ r.op = "setup"
    /\ tokens' = [tokens EXCEPT ![r.user] = @ \cup {"setup"}]
    /\ Close(c) /\ UNCHANGED <<acct, perms, granted>>

\* set_password: refused when a password is there by now.
BeginSetPassword(c, u) ==
  /\ CanOpen(c) /\ "setup" \in tokens[u] /\ HasRow(u) /\ acct[u].active /\ ~acct[u].password
  /\ Open(c, [op |-> "set", user |-> u, entered |-> acct[u].entered, touched |-> {u},
              tangled |-> FALSE])

FinishSetPassword(c) ==
  LET r == acctReq[c] IN
    /\ r.op = "set" /\ HasRow(r.user)
    /\ acct' = [acct EXCEPT ![r.user].password = TRUE,
                            ![r.user].entered = IF r.entered THEN @ ELSE TRUE]
    /\ tokens' = [tokens EXCEPT ![r.user] = @ \cup {"access"}]
    /\ Close(c) /\ UNCHANGED <<perms, granted>>

\* A token runs out.
Expire(u, token) ==
  /\ token \in tokens[u]
  /\ tokens' = [tokens EXCEPT ![u] = @ \ {token}]
  /\ UNCHANGED <<acct, perms, acctReq, acctBegun, granted, retired, tangled>>

-----------------------------------------------------------------------------
(* Users.  "actor" keeps the rights his principal had.                     *)

\* Fault: roles are compared one at a time with a single role of the actor.
_assert_roles_unchecked(roles, rights) == TRUE

\* _assert_roles_within_actor: no role beyond the actor's own rights.
_assert_roles_within_actor(roles, rights) ==
  is_admin_level(rights) \/ \A r \in roles : permissions_subset(perms[r], rights)

\* _assert_can_touch: an administrator is left to administrators.
_assert_can_touch(u, rights) ==
  is_admin_level(union_permissions(acct[u].roles)) => is_admin_level(rights)

\* create_user: at least one role, a password or none.
BeginCreateUser(c, a, u) ==
  /\ CanOpen(c) /\ require(a, "users") /\ ~HasRow(u) /\ u \notin retired
  /\ \E roles \in (SUBSET KnownRoles) \ {{}}, password \in BOOLEAN :
       /\ _assert_roles_within_actor(roles, RightsOf(a))
       /\ Open(c, [op |-> "create", user |-> u, roles |-> roles, password |-> password,
                   rights |-> RightsOf(a), touched |-> {u} \cup roles, tangled |-> FALSE])

FinishCreateUser(c) ==
  LET r == acctReq[c] IN
    /\ r.op = "create" /\ ~HasRow(r.user) /\ r.roles \subseteq KnownRoles
    /\ acct' = [acct EXCEPT ![r.user] = [row |-> TRUE, active |-> TRUE, password |-> r.password,
                                         entered |-> FALSE, roles |-> r.roles]]
    /\ granted' = [granted EXCEPT ![r.user] = r.rights]
    /\ tokens' = [tokens EXCEPT ![r.user] = {}]
    /\ Close(c) /\ UNCHANGED perms

\* update_user: roles, password and status, any of them.
BeginUpdateAccount(c, a, u) ==
  /\ CanOpen(c) /\ require(a, "users") /\ HasRow(u) /\ _assert_can_touch(u, RightsOf(a))
  /\ \E roles \in {{}} \cup SUBSET KnownRoles, password \in BOOLEAN,
        active \in {acct[u].active, FALSE, TRUE} :
       /\ _assert_roles_within_actor(roles, RightsOf(a))
       /\ Open(c, [op |-> "update", user |-> u, roles |-> roles, had |-> acct[u].roles,
                   password |-> password, active |-> active, was |-> acct[u].active,
                   rights |-> RightsOf(a), touched |-> {u} \cup roles, tangled |-> FALSE])

\* set_roles: the rows removed and added are those that differ from the rows
\* that were read; without role_ids in the request nothing is.
set_roles(r, now) ==
  IF r.roles = {} THEN now ELSE (now \ (r.had \ r.roles)) \cup (r.roles \ r.had)

FinishUpdateAccount(c) ==
  LET r == acctReq[c] IN
    /\ r.op = "update" /\ HasRow(r.user)
    /\ r.roles \ r.had \subseteq KnownRoles
    /\ (r.roles \ r.had) \cap acct[r.user].roles = {}
    /\ acct' = [acct EXCEPT ![r.user].roles = set_roles(r, @),
                            ![r.user].password = @ \/ r.password,
                            ![r.user].active = IF r.active # r.was THEN r.active ELSE @]
    /\ granted' = IF r.roles = {} THEN granted
                  ELSE [granted EXCEPT ![r.user] = @ \cup r.rights]
    /\ Close(c) /\ UNCHANGED <<perms, tokens>>

BeginReset(c, a, u) ==
  /\ CanOpen(c) /\ require(a, "users") /\ HasRow(u) /\ _assert_can_touch(u, RightsOf(a))
  /\ Open(c, [op |-> "reset", user |-> u, password |-> acct[u].password,
              entered |-> acct[u].entered, touched |-> {u}, tangled |-> FALSE])

\* reset_password: back to a first entry without a password.
reset_password(r, row) ==
  [row EXCEPT !.password = IF r.password THEN FALSE ELSE @,
              !.entered = IF r.entered THEN FALSE ELSE @]

FinishReset(c) ==
  LET r == acctReq[c] IN
    /\ r.op = "reset" /\ HasRow(r.user)
    /\ acct' = [acct EXCEPT ![r.user] = reset_password(r, @)]
    /\ Close(c) /\ UNCHANGED <<perms, tokens, granted>>

\* delete_user; a user who owns documents stays (AbortAcct).
DeleteAccount(a, u) ==
  /\ acctBegun < MaxAcctRequests /\ acctBegun' = acctBegun + 1
  /\ require(a, "users") /\ HasRow(u) /\ _assert_can_touch(u, RightsOf(a))
  /\ acct' = [acct EXCEPT ![u] = NoAcct] /\ retired' = retired \cup {u}
  /\ UNCHANGED <<perms, tokens, acctReq, granted, tangled>>

-----------------------------------------------------------------------------
(* Roles.                                                                  *)

create_role(a, r) ==
  /\ acctBegun < MaxAcctRequests /\ acctBegun' = acctBegun + 1
  /\ require(a, "users") /\ r \notin KnownRoles \cup retired
  /\ \E rights \in Rights :
       /\ is_admin_level(RightsOf(a)) \/ permissions_subset(rights, RightsOf(a))
       /\ perms' = [q \in KnownRoles \cup {r} |-> IF q = r THEN rights ELSE perms[q]]
  /\ UNCHANGED <<acct, tokens, acctReq, granted, retired, tangled>>

\* update_role: the new rights are within the actor's own.
BeginUpdateRole(c, a, r) ==
  /\ CanOpen(c) /\ require(a, "users") /\ r \in KnownRoles
  /\ \E rights \in Rights :
       /\ is_admin_level(RightsOf(a)) \/ permissions_subset(rights, RightsOf(a))
       /\ Open(c, [op |-> "role", role |-> r, perms |-> rights, rights |-> RightsOf(a),
                   touched |-> {r} \cup Holders({r}), tangled |-> FALSE])

FinishUpdateRole(c) ==
  LET r == acctReq[c] IN
    /\ r.op = "role" /\ r.role \in KnownRoles
    /\ perms' = [perms EXCEPT ![r.role] = r.perms]
    /\ granted' = [u \in Accts |-> IF r.role \in acct[u].roles THEN granted[u] \cup r.rights
                                   ELSE granted[u]]
    /\ Close(c) /\ UNCHANGED <<acct, tokens>>

\* delete_role: refused by the check or by the foreign key while anyone holds it.
delete_role(a, r) ==
  /\ acctBegun < MaxAcctRequests /\ acctBegun' = acctBegun + 1
  /\ require(a, "users") /\ r \in KnownRoles /\ Holders({r}) = {}
  /\ perms' = [q \in KnownRoles \ {r} |-> perms[q]]
  /\ retired' = retired \cup {r}
  /\ UNCHANGED <<acct, tokens, acctReq, granted, tangled>>

AbortAcct(c) ==
  /\ acctReq[c] # Quiet
  /\ acctReq' = [acctReq EXCEPT ![c] = Quiet]
  /\ UNCHANGED <<acct, perms, tokens, acctBegun, granted, retired, tangled>>

FirstAcct == CHOOSE u \in Accts : TRUE
FirstRole == CHOOSE r \in AcctRoles : TRUE

OtherRole == CHOOSE r \in AcctRoles : r # FirstRole

\* One user who may edit users, and a role that allows everything.
AccountsInit ==
  /\ perms = [r \in {FirstRole, OtherRole} |-> IF r = FirstRole THEN {"users"} ELSE Catalogue]
  /\ acct = [u \in Accts |->
       IF u = FirstAcct THEN [row |-> TRUE, active |-> TRUE, password |-> TRUE,
                              entered |-> FALSE, roles |-> {FirstRole}]
       ELSE NoAcct]
  /\ tokens = [u \in Accts |-> {}] /\ acctReq = [c \in AcctClerks |-> Quiet]
  /\ acctBegun = 0 /\ tangled = {} /\ retired = {}
  /\ granted = [u \in Accts |-> IF u = FirstAcct THEN {"users"} ELSE {}]

AccountsNext ==
  \/ \E c \in AcctClerks :
       \/ \E u \in Accts : BeginLogin(c, u) \/ BeginSetPassword(c, u)
       \/ FinishLogin(c) \/ IssueSetup(c) \/ FinishSetPassword(c)
       \/ \E a \in Principals :
            \/ \E u \in Accts : BeginCreateUser(c, a, u) \/ BeginUpdateAccount(c, a, u)
                                \/ BeginReset(c, a, u)
            \/ \E r \in AcctRoles : BeginUpdateRole(c, a, r)
       \/ FinishCreateUser(c) \/ FinishUpdateAccount(c) \/ FinishReset(c)
       \/ FinishUpdateRole(c) \/ AbortAcct(c)
  \/ \E a \in Principals :
       \/ \E u \in Accts : DeleteAccount(a, u)
       \/ \E r \in AcctRoles : create_role(a, r) \/ delete_role(a, r)
  \/ \E u \in Accts, token \in TokenKinds : Expire(u, token)

AccountsSpec == AccountsInit /\ [][AccountsNext]_accountsVars

-----------------------------------------------------------------------------
\* The shape of users, roles and tokens; roles of users exist.
AccountsTypeOK ==
  /\ acct \in [Accts -> Account] /\ KnownRoles \subseteq AcctRoles
  /\ \A r \in KnownRoles : [perms |-> perms[r]] \in Role
  /\ \A u \in Accts : acct[u].roles \subseteq KnownRoles
  /\ tokens \in [Accts -> SUBSET TokenKinds]

\* A user always has a role: no order of assignments and of deletions of roles
\* leaves him without one, unless two requests rewrote his roles at once.
EveryUserHasRole ==
  \A u \in Accts \ tangled : HasRow(u) => acct[u].roles # {}

\* Without a password a user is pending: the status never says that he is
\* active before he has chosen one, unless two requests worked on him at once.
NoPasswordMeansPending ==
  \A u \in Accts \ tangled : HasRow(u) /\ ~acct[u].password => ~acct[u].entered

\* Nobody has a right that was not put in his reach by someone who had it when
\* he did so, whether by giving him a role or by changing one he has.
RightsAreGranted ==
  \A u \in Accts \ tangled : union_permissions(acct[u].roles) \subseteq granted[u]

\* What holds of users and roles at any moment.
AccountsAndRolesHold == AccountsTypeOK /\ EveryUserHasRole /\ NoPasswordMeansPending /\ RightsAreGranted
=============================================================================
