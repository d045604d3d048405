------------------------------- MODULE Teams -------------------------------
(***************************************************************************)
(* Teams of the CRM, their leaders and members, and the teams a user is    *)
(* given for one channel (mail or SMS) beyond his own                      *)
(* (services/team_service.py, services/user_service.py).                   *)
(*                                                                         *)
(* Members are written by two services: through the team and through the   *)
(* user.  Each request is a READ COMMITTED transaction, here of two steps: *)
(* what it reads and checks, and its writes with the commit.  Members are  *)
(* kept in the order of user_teams.created_at, which new rows end.  One    *)
(* channel stands for both: requests treat them alike.                     *)
(***************************************************************************)
EXTENDS Naturals, Sequences, FiniteSets

CONSTANTS
  Staff,             \* identifiers of users
  TeamIds,           \* identifiers of teams
  TeamClerks,        \* requests in flight
  MaxTeamRequests,   \* bound on requests
  Nobody,            \* a leader_id of NULL
  Keep               \* a field absent from the request

ASSUME TeamsAssumption ==
  /\ Nobody \notin Staff /\ MaxTeamRequests \in Nat
  /\ Keep \notin Staff \cup {Nobody} /\ Keep \notin Seq(Staff)

VARIABLES
  userRow,           \* "none", then "live", then "gone"
  teamRow,           \* the same for teams
  leader,            \* teams.leader_id
  members,           \* user_teams, oldest row first
  extras,            \* user_channel_teams of a user
  teamReq,           \* what each request is doing
  teamBegun,         \* requests begun
  raced              \* teams two requests worked on at once

teamsVars == <<userRow, teamRow, leader, members, extras, teamReq, teamBegun, raced>>

Waiting == [op |-> "wait"]
RowStates == {"none", "live", "gone"}

\* The tables: user_teams as a list of members for each team, teams.leader_id
\* and user_channel_teams as a set of teams for each user.
UserTeams == [TeamIds -> Seq(Staff)]
TeamLeaders == [TeamIds -> Staff \cup {Nobody}]
UserChannelTeams == [Staff -> SUBSET TeamIds]

Users == {u \in Staff : userRow[u] = "live"}
LiveTeams == {t \in TeamIds : teamRow[t] = "live"}

Elements(s) == {s[i] : i \in DOMAIN s}
MembersOf(t) == Elements(members[t])

\* The members of a list that are of a set, in their order.
Kept(s, T) ==
  LET at == {i \in DOMAIN s : s[i] \in T}
  IN  [n \in 1 .. Cardinality(at) |->
         s[CHOOSE i \in at : Cardinality({j \in at : j <= i}) = n]]

Without(s, u) == Kept(s, Elements(s) \ {u})

\* Lists without repetition, as dict.fromkeys leaves them.
Lists == UNION {{s \in [1 .. k -> Users] : Cardinality(Elements(s)) = k} :
                  k \in 0 .. Cardinality(Users)}

team_ids_of_user(u) == {t \in TeamIds : u \in MembersOf(t)}
ids_led_by(u) == {t \in TeamIds : leader[t] = u}

\* The teams whose objects of the channel a user sees.
scope_team_ids(u) == team_ids_of_user(u) \cup extras[u]

First(s) == IF s = <<>> THEN Nobody ELSE s[1]

get_first_member(s) == First(s)

\* promote_next_leader: the oldest member but the one who leaves.
promote_next_leader(t, u) == First(Without(members[t], u))

-----------------------------------------------------------------------------
Counted == teamBegun < MaxTeamRequests /\ teamBegun' = teamBegun + 1

\* A commit that touches teams others have read: their requests are raced.
Crossing(c, touched) ==
  [d \in TeamClerks |->
     IF d = c THEN Waiting
     ELSE IF teamReq[d] # Waiting /\ teamReq[d].touched \cap touched # {}
          THEN [teamReq[d] EXCEPT !.raced = TRUE] ELSE teamReq[d]]

EndRequest(c) ==
  LET r == teamReq[c] IN
    /\ teamReq' = Crossing(c, r.touched)
    /\ raced' = IF r.raced THEN raced \cup r.touched ELSE raced
    /\ UNCHANGED teamBegun

\* The same for a request of one step, which nothing can cross.
AtOnce(touched) == teamReq' = Crossing(Nobody, touched) /\ UNCHANGED raced

\* create_team: a leader is a member, and without one the first member leads.
create_team(t) ==
  /\ Counted /\ teamRow[t] = "none"
  /\ \E lead \in Users \cup {Nobody}, given \in Lists :
       LET ordered == IF lead # Nobody /\ lead \notin Elements(given)
                      THEN Append(given, lead) ELSE given
       IN  /\ members' = [members EXCEPT ![t] = ordered]
           /\ leader' = [leader EXCEPT ![t] = IF lead # Nobody THEN lead ELSE First(ordered)]
           /\ extras' = [u \in Staff |->
                           IF u \in Elements(ordered) THEN extras[u] \ {t} ELSE extras[u]]
  /\ teamRow' = [teamRow EXCEPT ![t] = "live"]
  /\ AtOnce({t}) /\ UNCHANGED userRow

delete_team(t) ==
  /\ Counted /\ teamRow[t] = "live"
  /\ teamRow' = [teamRow EXCEPT ![t] = "gone"]
  /\ members' = [members EXCEPT ![t] = <<>>] /\ leader' = [leader EXCEPT ![t] = Nobody]
  /\ extras' = [u \in Staff |-> extras[u] \ {t}]
  /\ AtOnce({t}) /\ UNCHANGED userRow

\* update_team: the team is read with its members.
BeginUpdateTeam(c, t) ==
  /\ Counted /\ teamReq[c] = Waiting /\ teamRow[t] = "live"
  /\ \E lead \in Users \cup {Nobody, Keep}, given \in Lists \cup {Keep} :
       LET wanted == IF given = Keep /\ lead \in Users THEN members[t] ELSE given
           desired == IF lead \in Users /\ lead \notin Elements(wanted)
                      THEN Append(wanted, lead) ELSE wanted
       IN  teamReq' = [teamReq EXCEPT ![c] =
             [op |-> "team", team |-> t, leader |-> lead, desired |-> desired,
              old |-> leader[t], touched |-> {t}, raced |-> FALSE]]
  /\ UNCHANGED <<userRow, teamRow, leader, members, extras, raced>>

\* replace_members: remaining rows keep their dates, new ones come after.
replace_members(t, desired) ==
  Kept(members[t], Elements(desired)) \o Kept(desired, Elements(desired) \ MembersOf(t))

remove_team_for_users(t, list) ==
  [u \in Staff |-> IF u \in Elements(list) THEN extras[u] \ {t} ELSE extras[u]]

_resolve_leader(r, rows) ==
  IF r.leader # Keep THEN r.leader
  ELSE IF r.desired = Keep \/ r.old \in Elements(r.desired) THEN r.old
  ELSE get_first_member(rows)

\* A user or the team that has gone meanwhile fails the request; a leader is
\* written only when he is not the one that was loaded.
FinishUpdateTeam(c) ==
  LET r == teamReq[c]
      rows == IF r.desired = Keep THEN members[r.team] ELSE replace_members(r.team, r.desired)
      next == _resolve_leader(r, rows)
  IN
    /\ r.op = "team" /\ teamRow[r.team] = "live"
    /\ Elements(rows) \subseteq Users
    /\ next # r.old => next \in Users \cup {Nobody}
    /\ members' = [members EXCEPT ![r.team] = rows]
    /\ extras' = IF r.desired = Keep THEN extras ELSE remove_team_for_users(r.team, r.desired)
    /\ leader' = [leader EXCEPT ![r.team] = IF next # r.old THEN next ELSE @]
    /\ EndRequest(c)
    /\ UNCHANGED <<userRow, teamRow>>

-----------------------------------------------------------------------------
\* create_user: the extras are stored without the user's own teams.
create_user(u) ==
  /\ Counted /\ userRow[u] = "none"
  /\ \E own, extra \in SUBSET LiveTeams :
       /\ members' = [t \in TeamIds |->
                        IF t \in own THEN Append(members[t], u) ELSE members[t]]
       /\ extras' = [extras EXCEPT ![u] = extra \ own]
       /\ AtOnce(own \cup extra)
  /\ userRow' = [userRow EXCEPT ![u] = "live"]
  /\ UNCHANGED <<teamRow, leader>>

\* update_user reads the rows it will compare with.
BeginUpdateUser(c, u) ==
  /\ Counted /\ teamReq[c] = Waiting /\ userRow[u] = "live"
  /\ \E own \in {Keep} \cup SUBSET LiveTeams, extra \in {Keep} \cup SUBSET LiveTeams :
       teamReq' = [teamReq EXCEPT ![c] =
         [op |-> "user", user |-> u, own |-> own, extra |-> extra,
          current |-> team_ids_of_user(u), led |-> ids_led_by(u), stored |-> extras[u],
          touched |-> scope_team_ids(u) \cup ids_led_by(u) \cup (IF own = Keep THEN {} ELSE own)
                      \cup (IF extra = Keep THEN {} ELSE extra),
          raced |-> FALSE]]
  /\ UNCHANGED <<userRow, teamRow, leader, members, extras, raced>>

set_membership(r) ==
  [t \in TeamIds |->
     IF t \in r.own \ r.current THEN Append(members[t], r.user)
     ELSE IF t \in r.current \ r.own THEN Without(members[t], r.user)
     ELSE members[t]]

\* Fault: leaving a team one leads does not hand it over.
_replace_membership_keeping(r) == leader

\* _replace_membership_with_transfer: who leaves a team he leads hands it over.
_replace_membership_with_transfer(r) ==
  [t \in TeamIds |-> IF t \in r.led \cap (r.current \ r.own)
                     THEN promote_next_leader(t, r.user) ELSE leader[t]]

\* _normalize_extras: the user's own teams are taken out of what is stored.
_normalize_extras(r) ==
  LET base == IF r.own # Keep THEN r.own ELSE r.current
      target == IF r.extra # Keep THEN r.extra ELSE r.stored
  IN  IF r.own = Keep /\ r.extra = Keep THEN extras ELSE [extras EXCEPT ![r.user] = target \ base]

\* A team that has gone, or a row another request has inserted, fails it.
FinishUpdateUser(c) ==
  LET r == teamReq[c] IN
    /\ r.op = "user" /\ userRow[r.user] = "live"
    /\ r.own # Keep => \A t \in r.own \ r.current : t \in LiveTeams /\ r.user \notin MembersOf(t)
    /\ _normalize_extras(r)[r.user] \subseteq LiveTeams
    /\ members' = IF r.own = Keep THEN members ELSE set_membership(r)
    /\ leader' = IF r.own = Keep THEN leader ELSE _replace_membership_with_transfer(r)
    /\ extras' = _normalize_extras(r)
    /\ EndRequest(c)
    /\ UNCHANGED <<userRow, teamRow>>

BeginDeleteUser(c, u) ==
  /\ Counted /\ teamReq[c] = Waiting /\ userRow[u] = "live"
  /\ teamReq' = [teamReq EXCEPT ![c] =
       [op |-> "delete", user |-> u, led |-> ids_led_by(u),
        touched |-> scope_team_ids(u) \cup ids_led_by(u), raced |-> FALSE]]
  /\ UNCHANGED <<userRow, teamRow, leader, members, extras, raced>>

\* delete_user: the teams he leads are handed over; his rows go by cascade and
\* a leader_id that still names him becomes NULL.
FinishDeleteUser(c) ==
  LET r == teamReq[c] IN
    /\ r.op = "delete" /\ userRow[r.user] = "live"
    /\ userRow' = [userRow EXCEPT ![r.user] = "gone"]
    /\ members' = [t \in TeamIds |-> Without(members[t], r.user)]
    /\ leader' = [t \in TeamIds |->
                    IF t \in r.led /\ teamRow[t] = "live" THEN promote_next_leader(t, r.user)
                    ELSE IF leader[t] = r.user THEN Nobody ELSE leader[t]]
    /\ extras' = [extras EXCEPT ![r.user] = {}]
    /\ EndRequest(c)
    /\ UNCHANGED teamRow

\* A refusal (the user owns documents), an error or a restart.
AbortTeamRequest(c) ==
  /\ teamReq[c] # Waiting
  /\ teamReq' = [teamReq EXCEPT ![c] = Waiting]
  /\ UNCHANGED <<userRow, teamRow, leader, members, extras, teamBegun, raced>>

OldUser == CHOOSE u \in Staff : TRUE
OldTeam == CHOOSE t \in TeamIds : TRUE

\* One user and one team without members are there already.
TeamsInit ==
  /\ userRow = [u \in Staff |-> IF u = OldUser THEN "live" ELSE "none"]
  /\ teamRow = [t \in TeamIds |-> IF t = OldTeam THEN "live" ELSE "none"]
  /\ leader = [t \in TeamIds |-> Nobody] /\ members = [t \in TeamIds |-> <<>>]
  /\ extras = [u \in Staff |-> {}] /\ teamReq = [c \in TeamClerks |-> Waiting]
  /\ teamBegun = 0 /\ raced = {}

TeamsNext ==
  \/ \E t \in TeamIds : create_team(t) \/ delete_team(t)
  \/ \E u \in Staff : create_user(u)
  \/ \E c \in TeamClerks :
       \/ \E t \in TeamIds : BeginUpdateTeam(c, t)
       \/ \E u \in Staff : BeginUpdateUser(c, u) \/ BeginDeleteUser(c, u)
       \/ FinishUpdateTeam(c) \/ FinishUpdateUser(c) \/ FinishDeleteUser(c)
       \/ AbortTeamRequest(c)

TeamsSpec == TeamsInit /\ [][TeamsNext]_teamsVars

-----------------------------------------------------------------------------
\* The shape of the registry.
TeamsTypeOK ==
  /\ userRow \in [Staff -> RowStates] /\ teamRow \in [TeamIds -> RowStates]
  /\ leader \in TeamLeaders /\ \A t \in TeamIds : leader[t] \in Users \cup {Nobody}
  /\ members \in UserTeams
  /\ \A t \in TeamIds : MembersOf(t) \subseteq Users
                        /\ (members[t] # <<>> => teamRow[t] = "live")
  /\ extras \in UserChannelTeams /\ \A u \in Staff : extras[u] \subseteq LiveTeams

\* A leader is a member of his team, whichever of the two services wrote the
\* row last, except in a team that two requests worked on at once.
LeaderIsMember ==
  \A t \in TeamIds \ raced : leader[t] # Nobody => leader[t] \in MembersOf(t)

\* No user keeps, as an extra of a channel, a team he is a member of: leaving
\* the team, on either path, then ends his access to its mail and SMS.
ExtrasAreExtra ==
  \A u \in Staff : extras[u] \cap team_ids_of_user(u) \subseteq raced

\* docs/08-design-system.md and modules/teams/README.md: a team with members
\* always has a leader.  It does not hold: README, section 6.
MembersHaveLeader ==
  \A t \in TeamIds : members[t] # <<>> => leader[t] # Nobody

\* What holds of teams at any moment, whichever service wrote them.
MembershipsHold == TeamsTypeOK /\ LeaderIsMember /\ ExtrasAreExtra
=============================================================================
