--------------------------- MODULE SeasonSnapshot ---------------------------
(***************************************************************************)
(* A season that has ended: the admins' snapshots of its leaderboard, with *)
(* late uploads, roster writes still under way, accounts being deleted and *)
(* readers of the leaderboard in between.  A batch is one transaction; a   *)
(* snapshot is several, and can stop between any two.                      *)
(***************************************************************************)
EXTENDS Integers, FiniteSets, FiniteSetsExt

CONSTANTS
    Person, Squad,       \* users and the teams that took part, Squad = 1..n in the order of their ids
    Snapshot,            \* snapshot requests
    MaxUse, MaxLate      \* bounds: usage per user; late roster writes

NoRow == [rank |-> 0, total |-> -1]
Asleep == [pc |-> "none", squads |-> {}, seen |-> <<>>]

VARIABLES
    account,     \* users that have not deleted their account
    use,         \* their usage within the season
    on,          \* season_team_members: the team of a user, 0 for none
    enrolled,    \* season_teams
    ready,       \* seasons.snapshot_ready
    rows,        \* season_snapshots, per team
    memberRows,  \* season_member_snapshots: tokens, -1 for no row
    snap,        \* snapshot requests
    page,        \* a leaderboard being read
    late,        \* roster writes since the end
    disagreed,   \* history: snapshots side by side had read different rosters
    leftover     \* history: rows of users who left their team met an account deletion, or a snapshot
                 \* that found nobody left in the team

state == <<account, use, on, enrolled>>
saved == <<ready, rows, memberRows>>
vars == <<state, saved, snap, page, late, disagreed, leftover>>

\* Position by tokens, then by team.
Rank(f, t) == 1 + Cardinality({s \in DOMAIN f : f[s] > f[t] \/ (f[s] = f[t] /\ s < t)})
Ranked(f) == [t \in Squad |-> IF t \in DOMAIN f THEN [rank |-> Rank(f, t), total |-> f[t]] ELSE NoRow]

Listed == {t \in Squad : rows[t] # NoRow}
Totals == [t \in Listed |-> rows[t].total]
MembersOf(t) == {u \in Person : memberRows[t, u] >= 0}

-----------------------------------------------------------------------------
(* The world around a snapshot.                                            *)

Upload(u) ==
    /\ u \in account /\ use[u] < MaxUse /\ use' = [use EXCEPT ![u] = @ + 1]
    /\ UNCHANGED <<account, on, enrolled, saved, snap, page, late, disagreed, leftover>>

\* A join, a removal or a withdrawal that passed its checks before the end.
LateRoster(u, t) ==
    /\ late < MaxLate /\ late' = late + 1 /\ t \in enrolled
    /\ \/ u \in account /\ on[u] = 0 /\ on' = [on EXCEPT ![u] = t] /\ UNCHANGED enrolled
       \/ on[u] = t /\ on' = [on EXCEPT ![u] = 0] /\ UNCHANGED enrolled
       \/ on' = [v \in Person |-> IF on[v] = t THEN 0 ELSE on[v]] /\ enrolled' = enrolled \ {t}
    /\ UNCHANGED <<account, use, saved, snap, page, disagreed, leftover>>

RankAgain(f) == Ranked(f)

Without(u) == [t \in Listed |-> Max({0, rows[t].total - IF memberRows[t, u] >= 0 THEN memberRows[t, u] ELSE 0})]

\* DELETE /api/account/delete, one transaction.
EraseAccount(u) ==
    /\ u \in account /\ account' = account \ {u}
    /\ rows' = IF \E t \in Squad : memberRows[t, u] >= 0 THEN RankAgain(Without(u)) ELSE rows
    /\ memberRows' = [k \in Squad \X Person |-> IF k[2] = u THEN -1 ELSE memberRows[k]]
    /\ use' = [use EXCEPT ![u] = 0] /\ on' = [on EXCEPT ![u] = 0]
    /\ leftover' = (leftover \/ \E t \in Squad : memberRows[t, u] >= 0 /\ on[u] # t)
    /\ UNCHANGED <<enrolled, ready, snap, page, late, disagreed>>

-----------------------------------------------------------------------------
(* POST .../snapshot, by an admin.                                         *)

Move(s, pc) == snap' = [snap EXCEPT ![s].pc = pc]
Finish(s) == snap' = [snap EXCEPT ![s] = [Asleep EXCEPT !.pc = "done"]]

\* getRegisteredTeamIds
ReadSquads(s) ==
    /\ snap[s].pc = "none" /\ snap' = [snap EXCEPT ![s].pc = "members", ![s].squads = enrolled]
    /\ UNCHANGED <<state, saved, page, late, disagreed, leftover>>

\* aggregateMemberTokens, of the teams read
AggregateMembers(s) ==
    /\ snap[s].pc = "members"
    /\ snap' = [snap EXCEPT ![s].pc = "flag",
                            ![s].seen = [u \in {v \in Person : on[v] \in snap[s].squads} |-> <<on[u], use[u]>>]]
    /\ disagreed' = (disagreed \/ \E o \in Snapshot \ {s} :
          /\ snap[o].pc \notin {"none", "members", "done"}
          /\ \/ snap[o].squads # snap[s].squads
             \/ \E u \in account : (u \in DOMAIN snap'[s].seen) # (u \in DOMAIN snap[o].seen))
    /\ leftover' = (leftover \/ \E t \in Squad : MembersOf(t) # {} /\ \A u \in DOMAIN snap'[s].seen : snap'[s].seen[u][1] # t)
    /\ UNCHANGED <<state, saved, page, late>>

Unready(s) ==
    /\ snap[s].pc = "flag" /\ ready' = FALSE /\ Move(s, "batch")
    /\ UNCHANGED <<state, rows, memberRows, page, late, disagreed, leftover>>

Sum(s, t) == MapThenSumSet(LAMBDA u : IF snap[s].seen[u][1] = t THEN snap[s].seen[u][2] ELSE 0, DOMAIN snap[s].seen)

\* Mutant: rows of users that are gone are inserted all the same.
RefusesNone(s) == FALSE

\* A row of a user that is gone fails the batch.
Refuses(s) == ~(DOMAIN snap[s].seen \subseteq account)

\* INSERT OR REPLACE of the teams' and the members' rows together.
WriteBatch(s) ==
    LET seen == snap[s].seen
        f == [t \in snap[s].squads |-> Sum(s, t)]
    IN  /\ snap[s].pc = "batch"
        /\ IF Refuses(s)
           THEN Finish(s) /\ UNCHANGED <<rows, memberRows>>
           ELSE /\ rows' = [t \in Squad |-> IF t \in DOMAIN f THEN Ranked(f)[t] ELSE rows[t]]
                /\ memberRows' = [k \in Squad \X Person |->
                      IF k[2] \in DOMAIN seen /\ seen[k[2]][1] = k[1] THEN seen[k[2]][2] ELSE memberRows[k]]
                /\ Move(s, "squads gone")
        /\ UNCHANGED <<state, ready, page, late, disagreed, leftover>>

\* Rows of teams that were not read.
PruneSquads(s) ==
    /\ snap[s].pc = "squads gone" /\ Move(s, "members gone")
    /\ rows' = [t \in Squad |-> IF t \in snap[s].squads THEN rows[t] ELSE NoRow]
    /\ memberRows' = [k \in Squad \X Person |-> IF k[1] \in snap[s].squads THEN memberRows[k] ELSE -1]
    /\ UNCHANGED <<state, ready, page, late, disagreed, leftover>>

\* A row of a team with members of whom this is not one.
Stale(s, t, u) ==
    /\ \E v \in DOMAIN snap[s].seen : snap[s].seen[v][1] = t
    /\ ~(u \in DOMAIN snap[s].seen /\ snap[s].seen[u][1] = t)

PruneMembers(s) ==
    /\ snap[s].pc = "members gone" /\ Move(s, "ready")
    /\ memberRows' = [k \in Squad \X Person |-> IF Stale(s, k[1], k[2]) THEN -1 ELSE memberRows[k]]
    /\ UNCHANGED <<state, ready, rows, page, late, disagreed, leftover>>

Ready(s) ==
    /\ snap[s].pc = "ready" /\ ready' = TRUE /\ Finish(s)
    /\ UNCHANGED <<state, rows, memberRows, page, late, disagreed, leftover>>

\* The request or its server goes away, or a statement fails.
Abort(s) ==
    /\ snap[s].pc \notin {"none", "done"} /\ Finish(s)
    /\ UNCHANGED <<state, saved, page, late, disagreed, leftover>>

-----------------------------------------------------------------------------
(* GET .../leaderboard: the season, then the teams' rows, frozen or live.  *)

NoPage == [pc |-> "none", frozen |-> FALSE, shown |-> {}]

ReadSeason ==
    /\ page.pc = "none" /\ page' = [NoPage EXCEPT !.pc = "rows", !.frozen = ready]
    /\ UNCHANGED <<state, saved, snap, late, disagreed, leftover>>

\* getSeasonSnapshots, or getSeasonTeamTokens over the rosters as they are
Live == Ranked([t \in enrolled |-> MapThenSumSet(LAMBDA u : IF on[u] = t THEN use[u] ELSE 0, Person)])

\* What matters of the rows: their ranks, and those their totals would give.
ReadRows ==
    LET r == IF page.frozen THEN rows ELSE Live
        t == {x \in Squad : r[x] # NoRow}
    IN  /\ page.pc = "rows"
        /\ page' = [NoPage EXCEPT !.shown = {[rank |-> r[x].rank, due |-> Rank([y \in t |-> r[y].total], x)] : x \in t}]
        /\ UNCHANGED <<state, saved, snap, late, disagreed, leftover>>

Init ==
    /\ account = Person /\ enrolled = Squad
    /\ use = [u \in Person |-> 0]
    /\ on \in [Person -> Squad \cup {0}]
    /\ ready = FALSE /\ rows = [t \in Squad |-> NoRow] /\ memberRows = [k \in Squad \X Person |-> -1]
    /\ snap = [s \in Snapshot |-> Asleep] /\ page = NoPage /\ late = 0 /\ disagreed = FALSE /\ leftover = FALSE

Next ==
    \/ \E u \in Person : Upload(u) \/ EraseAccount(u) \/ \E t \in Squad : LateRoster(u, t)
    \/ \E s \in Snapshot :
          ReadSquads(s) \/ AggregateMembers(s) \/ Unready(s) \/ WriteBatch(s) \/ PruneSquads(s) \/ PruneMembers(s) \/ Ready(s) \/ Abort(s)
    \/ ReadSeason \/ ReadRows

Spec == Init /\ [][Next]_vars

-----------------------------------------------------------------------------
(* Properties.                                                             *)

AllAsleep == \A s \in Snapshot : snap[s].pc \in {"none", "done"}

\* A frozen leaderboard adds up: a team's tokens are those of its members'
\* rows, whatever accounts were deleted and whatever snapshots failed on the
\* way.  Snapshots side by side that read different rosters can break it, and
\* so can the row of a user who left the team: it is subtracted from a total
\* it is no longer part of, and nothing prunes it in a team without members.
FrozenAddsUp ==
    ready /\ AllAsleep /\ ~disagreed /\ ~leftover =>
        \A t \in Listed : rows[t].total = MapThenSumSet(LAMBDA u : memberRows[t, u], MembersOf(t))

\* Nothing of a deleted account comes back with a snapshot that had read it.
ErasedStaysErased == \A u \in Person \ account : \A t \in Squad : memberRows[t, u] = -1

\* A frozen leaderboard is ranked by the tokens it shows, ties by team,
\* without gaps: also after an account deletion lowered a total, and on a
\* page that a snapshot overtook (but for a team withdrawn after the end).
PageIsRanked == enrolled = Squad => \A x \in page.shown : x.rank = x.due
=============================================================================
