--------------------------- MODULE SeasonRosters ---------------------------
(***************************************************************************)
(* Teams, one season and the rosters it freezes.  A request is a sequence  *)
(* of reads and writes of the database with the requests of other users in *)
(* between; a batch of writes is one transaction (docs/18-season-system.md *)
(* :403).  A request can also stop anywhere: the connection or the server  *)
(* process goes away, or a statement fails.                                *)
(***************************************************************************)
EXTENDS Integers, FiniteSets

CONSTANTS
    User, Team,
    Request,      \* requests under way at a time
    Founder,      \* the users that create teams: Founder[t] creates t
    Existing,     \* teams that are there already
    MaxMembers,   \* max_team_members
    MaxRequests   \* bound: requests

None == "none"
Idle == [op |-> None, user |-> None, team |-> None, pc |-> "", seen |-> {}, add |-> {}, del |-> {}, todo |-> {}, sent |-> FALSE, late |-> FALSE]

VARIABLES
    users,        \* users that have not deleted their account
    teams, fresh, \* teams, and the identifiers still to be drawn
    members,      \* team_members per team
    auto,         \* auto_register_season per team
    status,       \* the season: not created, or deriveSeasonStatus
    allow,        \* its flags: "registration" and "withdrawal" after the start, "roster" changes
    registered,   \* season_teams
    roster,       \* season_team_members: at most one team per user
    req,          \* requests under way
    made,
    own,          \* the rows, by their UUIDs, that a registration has written and is about to undo
    strayed,      \* history: roster rows <<u, t>> written while, or after, the registration of t goes
    confirmed     \* history: teams whose owner was told that they are registered

db == <<users, teams, fresh, members, auto, status, allow, registered, roster>>
vars == <<db, req, made, own, strayed, confirmed>>

OnRoster(t) == {u \in User : roster[u] = t}
Taken(us) == \E u \in us : roster[u] # None
RegistersItself == {t \in teams \ registered : auto[t]}
Owns(u, t) == u = Founder[t] /\ u \in members[t]
Goto(r, pc) == req' = [req EXCEPT ![r].pc = pc]
Done(r) == req' = [req EXCEPT ![r] = Idle]
At(r, op, pc) == req[r].op = op /\ req[r].pc = pc

-----------------------------------------------------------------------------
(* The season's clock, and requests arriving and going away.               *)

Elapse ==
    /\ status \in {"upcoming", "active"}
    /\ status' = IF status = "upcoming" THEN "active" ELSE "ended"
    /\ UNCHANGED <<users, teams, fresh, members, auto, allow, registered, roster, req, made, confirmed>>

\* A request passes its checks and goes on at a step; one that does not
\* pass them changes nothing.
Begin(r, op, u, t, pc) ==
    /\ req[r] = Idle /\ made < MaxRequests /\ made' = made + 1
    /\ req' = [req EXCEPT ![r] = [Idle EXCEPT !.op = op, !.user = u, !.team = t, !.pc = pc, !.late = status = "ended"]]
    /\ UNCHANGED <<users, members, auto, registered, roster, confirmed>>

Vanish(r) == req[r] # Idle /\ Done(r) /\ UNCHANGED <<db, made, confirmed>>

-----------------------------------------------------------------------------
(* Teams.                                                                  *)

\* POST /api/teams: the team, then its owner.
CreateTeam(r) ==
    \/ \E t \in fresh :
         /\ Founder[t] \in users /\ Begin(r, "create team", Founder[t], t, "owner")
         /\ teams' = teams \cup {t} /\ fresh' = fresh \ {t} /\ UNCHANGED <<status, allow>>
    \/ /\ At(r, "create team", "owner") /\ Done(r)
       /\ members' = [members EXCEPT ![req[r].team] = @ \cup {req[r].user}]
       /\ UNCHANGED <<users, teams, fresh, auto, status, allow, registered, roster, made, confirmed>>

\* PATCH /api/teams/[teamId]: one read and one write.
SetAuto(t) ==
    /\ t \in teams /\ Owns(Founder[t], t)
    /\ made < MaxRequests /\ made' = made + 1 /\ auto' = [auto EXCEPT ![t] = ~@]
    /\ UNCHANGED <<users, teams, fresh, members, status, allow, registered, roster, req, confirmed>>

\* DELETE FROM season_team_members WHERE team_id = t
WithoutTeam(t) == [u \in User |-> IF roster[u] = t THEN None ELSE roster[u]]

\* The season's rosters follow the teams.
Follows == "roster" \in allow /\ status = "active"

HasRoom(t) == Cardinality(members[t]) < MaxMembers

\* POST /api/teams/join with the invite code, which the owner gives out once
\* the team is made: the limit is checked by the insert itself.
Join(r) ==
    LET u == req[r].user
        t == req[r].team
    IN  \/ /\ \E v \in users, x \in teams : members[x] # {} /\ v \notin members[x] /\ Begin(r, "join", v, x, "insert")
           /\ UNCHANGED <<teams, fresh, status, allow>>
        \/ /\ At(r, "join", "insert")
           /\ IF t \in teams /\ u \in users \ members[t] /\ HasRoom(t)
              THEN members' = [members EXCEPT ![t] = @ \cup {u}] /\ Goto(r, "seasons")
              ELSE UNCHANGED members /\ Done(r)
           /\ UNCHANGED <<users, teams, fresh, auto, status, allow, registered, roster, made, confirmed>>

\* DELETE /api/teams/[teamId]/members/[userId], by the owner.
Kick(r) ==
    LET u == req[r].user
        t == req[r].team
    IN  \/ /\ \E x \in teams : \E v \in members[x] \ {Founder[x]} : Owns(Founder[x], x) /\ Begin(r, "kick", v, x, "delete")
           /\ UNCHANGED <<teams, fresh, status, allow>>
        \/ /\ At(r, "kick", "delete") /\ Goto(r, "seasons")
           /\ members' = [members EXCEPT ![t] = @ \ {u}]
           /\ UNCHANGED <<users, teams, fresh, auto, status, allow, registered, roster, made, confirmed>>

\* Mutant: only a season that has started and not ended counts.
LockedWhileActive(t) == t \in registered /\ status = "active" /\ "withdrawal" \notin allow

\* A season in which a team may no longer be withdrawn.
Locked(t) == t \in registered /\ (status = "ended" \/ (status = "active" /\ "withdrawal" \notin allow))

\* What the DELETE of team_members asks itself.
MayLeave(u, t) == (~Owns(u, t) \/ members[t] = {u}) /\ (members[t] # {u} \/ ~Locked(t))

\* DELETE /api/teams/[teamId]: four statements, one transaction; the last
\* member's leaving deletes the team.
Leave(r) ==
    LET u == req[r].user
        t == req[r].team
    IN  \/ /\ \E x \in teams : \E v \in members[x] : ~(Owns(v, x) /\ members[x] # {v}) /\ Begin(r, "leave", v, x, "delete")
           /\ UNCHANGED <<teams, fresh, status, allow>>
        \/ /\ At(r, "leave", "delete") /\ Done(r)
           /\ members' = IF u \in members[t] /\ MayLeave(u, t) THEN [members EXCEPT ![t] = @ \ {u}] ELSE members
           /\ LET gone == members'[t] = {} /\ ~Locked(t)
              IN  /\ teams' = IF gone THEN teams \ {t} ELSE teams
                  /\ registered' = IF gone THEN registered \ {t} ELSE registered
                  /\ roster' = IF gone THEN WithoutTeam(t)
                               ELSE IF roster[u] = t /\ u \notin members'[t] /\ Follows THEN [roster EXCEPT ![u] = None]
                               ELSE roster
                  /\ confirmed' = IF gone THEN confirmed \ {t} ELSE confirmed
           /\ UNCHANGED <<users, fresh, auto, status, allow, made>>

\* DELETE /api/account/delete, one transaction; foreign keys keep those who
\* created a team.
DeleteAccount(u) ==
    /\ u \in users /\ \A t \in teams : Founder[t] # u
    /\ users' = users \ {u}
    /\ members' = [t \in Team |-> members[t] \ {u}]
    /\ roster' = [roster EXCEPT ![u] = None]
    /\ UNCHANGED <<teams, fresh, auto, status, allow, registered, req, made, confirmed>>

-----------------------------------------------------------------------------
(* syncSeasonRosters, after a join or a kick, and syncAllRostersForSeason. *)

SyncSeasons(r) ==
    /\ req[r].op \in {"join", "kick"} /\ req[r].pc = "seasons"
    /\ IF req[r].team \in registered /\ Follows THEN Goto(r, "members") ELSE Done(r)
    /\ UNCHANGED <<db, made, confirmed>>

ReadMembers(r) ==
    /\ req[r].pc = "members"
    /\ req' = [req EXCEPT ![r].pc = "roster", ![r].seen = members[req[r].team]]
    /\ UNCHANGED <<db, made, confirmed>>

ReadRoster(r) ==
    /\ req[r].pc = "roster"
    /\ LET on == OnRoster(req[r].team)
       IN  req' = [req EXCEPT ![r].pc = "write", ![r].add = req[r].seen \ on, ![r].del = on \ req[r].seen]
    /\ UNCHANGED <<db, made, confirmed>>

\* One statement at a time, INSERT OR IGNORE for one team per user; an insert for a user or a team that is gone fails the rest.
SyncWrite(r) ==
    /\ req[r].pc = "write"
    /\ LET t == req[r].team
       IN  \/ \E u \in req[r].add :
                /\ IF u \in users /\ t \in teams
                   THEN /\ roster' = IF roster[u] = None THEN [roster EXCEPT ![u] = t] ELSE roster
                        /\ req' = [req EXCEPT ![r].add = @ \ {u}]
                   ELSE UNCHANGED roster /\ Done(r)
           \/ \E u \in req[r].del :
                /\ req[r].add = {}
                /\ roster' = IF roster[u] = t THEN [roster EXCEPT ![u] = None] ELSE roster
                /\ req' = [req EXCEPT ![r].del = @ \ {u}]
           \/ /\ req[r].add = {} /\ req[r].del = {}
              /\ IF req[r].todo = {} THEN Done(r) ELSE Goto(r, "team")
              /\ UNCHANGED roster
    /\ UNCHANGED <<users, teams, fresh, members, auto, status, allow, registered, made, confirmed>>

\* The next team of a sync of all.
NextTeam(r) ==
    /\ req[r].op \in {"sync rosters", "update season"} /\ req[r].pc = "team"
    /\ IF req[r].todo = {} THEN Done(r)
       ELSE \E t \in req[r].todo : req' = [req EXCEPT ![r].pc = "members", ![r].team = t, ![r].todo = @ \ {t}]
    /\ UNCHANGED <<db, made, confirmed>>

\* POST .../sync-rosters by an admin.
SyncRosters(r) ==
    /\ status = "active" /\ "roster" \in allow /\ registered # {}
    /\ Begin(r, "sync rosters", None, None, "all") /\ UNCHANGED <<teams, fresh, status, allow>>

\* The teams registered now.
AllTeams(r) ==
    /\ req[r].pc = "all"
    /\ req' = [req EXCEPT ![r].pc = "team", ![r].todo = registered]
    /\ UNCHANGED <<db, made, confirmed>>

\* PATCH /api/admin/seasons/[seasonId]: a flag; turning roster changes on in
\* an active season synchronises all.
UpdateSeason(r) ==
    /\ status # "none"
    /\ \E flag \in {"registration", "withdrawal", "roster"} :
         /\ allow' = IF flag \in allow THEN allow \ {flag} ELSE allow \cup {flag}
         /\ IF flag = "roster" /\ flag \notin allow /\ status = "active" /\ registered # {}
            THEN Begin(r, "update season", None, None, "all")
            ELSE made < MaxRequests /\ made' = made + 1 /\ UNCHANGED <<users, members, auto, registered, roster, req, confirmed>>
    /\ UNCHANGED <<teams, fresh, status>>

-----------------------------------------------------------------------------
(* Registration.                                                           *)

\* The registration and the roster in one batch, refused when a row is there
\* already or a user or the team has gone.
Accepts(t, us) == t \in teams \ registered /\ us \subseteq users /\ ~Taken(us)
Enrol(t, us) ==
    /\ registered' = registered \cup {t}
    /\ roster' = [u \in User |-> IF u \in us THEN t ELSE roster[u]]

\* POST /api/admin/seasons: the season, then the teams that register themselves.
CreateSeason(r) ==
    \/ /\ status = "none" /\ status' = "upcoming"
       /\ Begin(r, "create season", None, None, "auto") /\ UNCHANGED <<teams, fresh, allow>>
    \/ /\ At(r, "create season", "auto")
       /\ IF status # "upcoming" \/ RegistersItself = {} THEN Done(r)
          ELSE req' = [req EXCEPT ![r].pc = "next", ![r].todo = RegistersItself]
       /\ UNCHANGED <<db, made, confirmed>>
    \/ /\ At(r, "create season", "next")
       /\ IF req[r].todo = {} THEN Done(r)
          ELSE \E t \in req[r].todo :
               req' = [req EXCEPT ![r].todo = @ \ {t}, ![r].team = t, ![r].seen = members[t],
                                  ![r].pc = IF Taken(members[t]) THEN "next" ELSE "enrol"]
       /\ UNCHANGED <<db, made, confirmed>>
    \/ /\ At(r, "create season", "enrol") /\ Goto(r, "next")
       /\ \/ status = "upcoming" /\ Accepts(req[r].team, req[r].seen) /\ Enrol(req[r].team, req[r].seen)
          \/ UNCHANGED <<registered, roster>>
       /\ UNCHANGED <<users, teams, fresh, members, auto, status, allow, made, confirmed>>

RegistrationOpen == status = "upcoming" \/ (status = "active" /\ "registration" \in allow)

\* Mutant: the registration is deleted by its season and team.
OfItsTeam(r) == {req[r].team}

\* The registration a failed request deletes: the row with its own UUID.
OfItsOwn(r) == own[r] \cap Team

\* POST .../register by the owner: checks, the members and who of them is
\* taken, then the batch.  When it is refused, or its answer is lost, the
\* request deletes the rows it wrote itself, first those of the roster; a
\* batch on its way may be applied before, between, after, or never.
Register(r) ==
    LET t == req[r].team
    IN  \/ /\ \E x \in teams \ registered : RegistrationOpen /\ Owns(Founder[x], x) /\ Begin(r, "register", None, x, "read")
           /\ UNCHANGED <<teams, fresh, status, allow>>
        \/ /\ At(r, "register", "read")
           /\ req' = [req EXCEPT ![r].pc = "conflict", ![r].seen = members[t]]
           /\ UNCHANGED <<db, made, confirmed>>
        \/ /\ At(r, "register", "conflict")
           /\ IF Taken(req[r].seen) THEN Done(r) ELSE Goto(r, "batch")
           /\ UNCHANGED <<db, made, confirmed>>
        \/ /\ At(r, "register", "batch") /\ Done(r)
           /\ Accepts(t, req[r].seen) /\ Enrol(t, req[r].seen) /\ confirmed' = confirmed \cup {t}
           /\ UNCHANGED <<users, teams, fresh, members, auto, status, allow, made>>
        \/ /\ At(r, "register", "batch")
           /\ \E lost \in BOOLEAN :
                /\ lost \/ ~Accepts(t, req[r].seen)
                /\ req' = [req EXCEPT ![r].pc = "undo rows", ![r].sent = lost]
           /\ UNCHANGED <<db, made, confirmed>>
        \/ /\ req[r].sent /\ Accepts(t, req[r].seen) /\ Enrol(t, req[r].seen)
           /\ IF req[r].pc = "landing" THEN Done(r) ELSE req' = [req EXCEPT ![r].sent = FALSE]
           /\ UNCHANGED <<users, teams, fresh, members, auto, status, allow, made, confirmed>>
        \/ /\ At(r, "register", "undo rows") /\ Goto(r, "undo registration")
           /\ roster' = [u \in User |-> IF u \in own[r] THEN None ELSE roster[u]]
           /\ UNCHANGED <<users, teams, fresh, members, auto, status, allow, registered, made, confirmed>>
        \/ /\ At(r, "register", "undo registration") /\ IF req[r].sent THEN Goto(r, "landing") ELSE Done(r)
           /\ registered' = registered \ OfItsOwn(r)
           /\ UNCHANGED <<users, teams, fresh, members, auto, status, allow, roster, made, confirmed>>

WithdrawalOpen == status = "upcoming" \/ (status = "active" /\ "withdrawal" \in allow)

\* DELETE .../register by the owner: the roster, then the registration.
Withdraw(r) ==
    LET t == req[r].team
    IN  \/ /\ \E x \in registered : WithdrawalOpen /\ Owns(Founder[x], x) /\ Begin(r, "withdraw", None, x, "roster rows")
           /\ UNCHANGED <<teams, fresh, status, allow>>
        \/ /\ At(r, "withdraw", "roster rows") /\ Goto(r, "registration")
           /\ roster' = WithoutTeam(t)
           /\ UNCHANGED <<users, teams, fresh, members, auto, status, allow, registered, made, confirmed>>
        \/ /\ At(r, "withdraw", "registration") /\ Done(r)
           /\ registered' = registered \ {t} /\ confirmed' = confirmed \ {t}
           /\ UNCHANGED <<users, teams, fresh, members, auto, status, allow, roster, made>>

\* No season yet, or one the existing teams have registered for.
Init ==
    /\ users = User /\ teams = Existing /\ fresh = Team \ Existing
    /\ members = [t \in Team |-> IF t \in Existing THEN {Founder[t]} ELSE {}]
    /\ \E on \in BOOLEAN : auto = [t \in Team |-> on]
    /\ allow \in SUBSET {"registration", "withdrawal", "roster"}
    /\ \/ status = "none" /\ registered = {} /\ roster = [u \in User |-> None]
       \/ status = "upcoming" /\ registered = Existing
          /\ roster = [u \in User |-> IF \E t \in Existing : Founder[t] = u THEN CHOOSE t \in Existing : Founder[t] = u ELSE None]
    /\ req = [r \in Request |-> Idle] /\ made = 0
    /\ own = [r \in Request |-> {}] /\ strayed = {} /\ confirmed = registered

-----------------------------------------------------------------------------
(* What a step leaves behind.                                              *)

\* The rows a step inserts, and those of a request that are still there.
Inserted == {u \in User : roster'[u] \notin {None, roster[u]}} \cup (registered' \ registered)
StillThere(r) == {u \in own[r] \cap User : roster'[u] = roster[u]} \cup (own[r] \cap registered')

\* A failed registration knows its rows until it has undone them; a row
\* that another request deletes and writes again has a UUID of its own.
Identify ==
    own' = [r \in Request |->
        IF req'[r].pc \notin {"undo rows", "undo registration"} THEN {}
        ELSE IF req[r].sent /\ ~req'[r].sent THEN StillThere(r) \cup Inserted ELSE StillThere(r)]

\* The registration of t is about to go and rows written from now on stay:
\* a withdrawal has deleted the roster, or a failed registration goes by
\* the rows it wrote.
IsGoing(t) ==
    \/ \E r \in Request : req[r].team = t /\ (At(r, "withdraw", "registration") \/ At(r, "register", "undo registration"))
    \/ \E r \in Request : t \in own[r]

Stray == strayed' = strayed \cup {<<u, roster'[u]>> : u \in {u \in Inserted \cap User : IsGoing(roster'[u]) \/ roster'[u] \notin registered'}}

Step(r) ==
    \/ CreateTeam(r) \/ Join(r) \/ Kick(r) \/ Leave(r)
    \/ SyncSeasons(r) \/ ReadMembers(r) \/ ReadRoster(r) \/ SyncWrite(r) \/ NextTeam(r) \/ SyncRosters(r) \/ AllTeams(r)
    \/ UpdateSeason(r) \/ CreateSeason(r) \/ Register(r) \/ Withdraw(r)

Next ==
    /\ \/ Elapse \/ \E u \in User : DeleteAccount(u)
       \/ \E t \in Team : SetAuto(t)
       \/ \E r \in Request : Vanish(r) \/ Step(r)
    /\ Identify /\ Stray

Spec == Init /\ [][Next]_vars

-----------------------------------------------------------------------------
(* Properties.                                                             *)

Quiet == \A r \in Request : req[r] = Idle

\* A user on a season's roster is on that of a team registered for it,
\* between requests: a row left behind would keep the user out of the season
\* for good.  Only a row written while or after the registration goes, by a
\* withdrawal or by the undoing of a failed request, is left behind.
NoOrphanOnRoster ==
    Quiet => \A u \in User : roster[u] # None => roster[u] \in registered \/ <<u, roster[u]>> \in strayed

\* A registration the owner was told of stays until the team is withdrawn or
\* deleted: a failed request beside it undoes only what it wrote itself.
AcceptedStays == confirmed \subseteq registered

\* A team with members has its owner among them, whoever leaves, joins or is
\* removed meanwhile: nobody else could register, withdraw or delete it.
OwnerStays == \A t \in Team : members[t] # {} => t \in teams /\ Owns(Founder[t], t)

\* Joins that run side by side never make a team larger than allowed.
NeverOverfull == \A t \in Team : Cardinality(members[t]) <= MaxMembers

\* No request that arrives after the season has ended changes who took part.
ClosedStep ==
    status = "ended" =>
        \/ registered' = registered /\ \A u \in User : roster[u] \in registered => roster'[u] = roster[u]
        \/ users' # users
        \/ \E r \in Request : ~req[r].late /\ req[r] # Idle /\ req'[r] # req[r]
ClosedIsClosed == [][ClosedStep]_vars
=============================================================================
