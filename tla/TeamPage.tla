------------------------------ MODULE TeamPage ------------------------------
(* The page of one team as its owner sees it: two lists fetched on their     *)
(* own, overrides laid over them, a switch that keeps a value of its own,    *)
(* and dialogs whose words are chosen from the list that is shown.  Others   *)
(* use the same team meanwhile, the owner's other tab among them.            *)
EXTENDS FiniteSets, Integers

CONSTANTS
    Mate,  \* those who may be members beside the owner
    MaxTeamClicks, MaxOthers, MaxTeamFailures

VARIABLES
    exists, mates, auto, registered, rivals, \* the team, and the other teams of the season
    team, teams,           \* what the page fetched: the team, and the season's number of teams
    getTeam, getTeams,     \* the fetches under way whose answers will be kept
    enabled, hides, prev,  \* the switch, the section's own copy, and what it was copied from
    override,              \* the override of the season's row
    toggling, entering, kicking, leaving, \* handlers under way
    teamClicks, others, teamFailures,
    teamForeign,           \* history: changed elsewhere, or by a request whose answer was lost
    unread                 \* history: a member was removed and the list not read since

teamVars == <<exists, mates, auto, registered, rivals>>
listVars == <<team, teams, getTeam, getTeams>>
switchVars == <<enabled, hides, prev, toggling>>
teamCountVars == <<teamClicks, others, teamFailures>>
teamPageVars == <<teamVars, listVars, switchVars, override, entering, kicking, leaving, teamCountVars, teamForeign, unread>>

NoOverride == [registered |-> FALSE, delta |-> 0]
NoFetch == [pc |-> "idle"]
NotLeaving == [told |-> "nothing", shown |-> {}]
TeamNow == [mates |-> mates, auto |-> auto, registered |-> registered]
TeamsNow == rivals + (IF registered THEN 1 ELSE 0)

TeamInit ==
    /\ exists = TRUE /\ mates \in SUBSET Mate /\ auto \in BOOLEAN /\ registered \in BOOLEAN /\ rivals = 0
    /\ team = TeamNow /\ teams = TeamsNow /\ getTeam = NoFetch /\ getTeams = NoFetch
    /\ enabled = auto /\ hides = auto /\ prev = auto /\ override = NoOverride
    /\ toggling = "no" /\ entering = "no" /\ kicking = {} /\ leaving = NotLeaving
    /\ teamClicks = 0 /\ others = 0 /\ teamFailures = 0 /\ teamForeign = FALSE /\ unread = FALSE

ClickTeam == teamClicks < MaxTeamClicks /\ teamClicks' = teamClicks + 1 /\ UNCHANGED <<others, teamFailures>>
Fails == teamFailures < MaxTeamFailures /\ teamFailures' = teamFailures + 1 /\ UNCHANGED <<teamClicks, others>>

-----------------------------------------------------------------------------
\* The two lists. Coming back to the page fetches both; a new fetch of a list
\* makes the answer to the old one worthless.
FocusTeam ==
    /\ exists /\ getTeam = NoFetch /\ getTeams = NoFetch
    /\ (team # TeamNow \/ teams # TeamsNow \/ prev # team.auto)
    /\ getTeam' = [pc |-> "asked"] /\ getTeams' = [pc |-> "asked"]
    /\ UNCHANGED <<teamVars, team, teams, switchVars, override, entering, kicking, leaving, teamCountVars, teamForeign, unread>>

ReadTeam ==
    /\ getTeam.pc = "asked" /\ getTeam' = [pc |-> "read", team |-> TeamNow]
    /\ UNCHANGED <<teamVars, team, teams, getTeams, switchVars, override, entering, kicking, leaving, teamCountVars, teamForeign>>
    /\ unread' = FALSE

\* The section copies the setting whenever the list brings another value than
\* the last time; the switch does not.
ShowTeam ==
    /\ getTeam.pc = "read" /\ getTeam' = NoFetch /\ team' = getTeam.team
    /\ prev' = getTeam.team.auto
    /\ hides' = IF prev # prev' THEN prev' ELSE hides
    /\ UNCHANGED <<teamVars, teams, getTeams, enabled, toggling, override, entering, kicking, leaving, teamCountVars, teamForeign, unread>>

ReadTeams ==
    /\ getTeams.pc = "asked" /\ getTeams' = [pc |-> "read", teams |-> TeamsNow]
    /\ UNCHANGED <<teamVars, team, teams, getTeam, switchVars, override, entering, kicking, leaving, teamCountVars, teamForeign, unread>>

OverrideKept(o) == o

ShowTeams ==
    /\ getTeams.pc = "read" /\ getTeams' = NoFetch /\ teams' = getTeams.teams
    /\ override' = OverrideKept(override)
    /\ UNCHANGED <<teamVars, team, getTeam, switchVars, entering, kicking, leaving, teamCountVars, teamForeign, unread>>

-----------------------------------------------------------------------------
\* The switch: shown at once, taken back when the request fails.
Flip ==
    /\ exists /\ toggling = "no" /\ ClickTeam /\ toggling' = "sent"
    /\ enabled' = ~enabled /\ hides' = enabled'
    /\ UNCHANGED <<teamVars, listVars, prev, override, entering, kicking, leaving, teamForeign, unread>>

TakenBack(value) == ~value

SetAuto ==
    /\ toggling = "sent"
    /\ \/ auto' = enabled /\ toggling' = "done" /\ UNCHANGED <<enabled, hides, teamCountVars>>
       \/ /\ Fails /\ toggling' = "no" /\ UNCHANGED auto
          /\ enabled' = TakenBack(enabled) /\ hides' = TakenBack(enabled)
    /\ UNCHANGED <<exists, mates, registered, rivals, listVars, prev, override, entering, kicking, leaving, teamForeign, unread>>

Flipped ==
    /\ toggling = "done" /\ toggling' = "no"
    /\ \/ UNCHANGED <<enabled, hides, teamCountVars, teamForeign>>
       \/ Fails /\ teamForeign' = TRUE /\ enabled' = ~enabled /\ hides' = ~enabled
    /\ UNCHANGED <<teamVars, listVars, prev, override, entering, kicking, leaving, unread>>

-----------------------------------------------------------------------------
\* The season's row: an override is laid over it, and never lifted.
ShownRegistered == IF override = NoOverride THEN team.registered ELSE override.registered
Enter ==
    /\ exists /\ ~hides /\ entering = "no" /\ ClickTeam
    /\ entering' = IF ShownRegistered THEN "withdraw" ELSE "register"
    /\ UNCHANGED <<teamVars, listVars, switchVars, override, kicking, leaving, teamForeign, unread>>

\* The routes refuse what is the case already.
Entered ==
    /\ entering \in {"register", "withdraw"}
    /\ IF registered = (entering = "withdraw")
         THEN registered' = ~registered /\ entering' = IF registered THEN "withdrawn" ELSE "registered"
         ELSE UNCHANGED registered /\ entering' = "no"
    /\ UNCHANGED <<exists, mates, auto, rivals, listVars, switchVars, override, kicking, leaving, teamCountVars, teamForeign, unread>>

Laid ==
    /\ entering \in {"withdrawn", "registered"} /\ entering' = "no"
    /\ \/ /\ override' = IF entering = "registered" THEN [registered |-> TRUE, delta |-> 1]
                                                    ELSE [registered |-> FALSE, delta |-> -1]
          /\ UNCHANGED <<teamCountVars, teamForeign>>
       \/ Fails /\ teamForeign' = TRUE /\ UNCHANGED override
    /\ UNCHANGED <<teamVars, listVars, switchVars, kicking, leaving, unread>>

-----------------------------------------------------------------------------
\* Removing a member, after which the team is fetched again.
Kick(m) ==
    /\ exists /\ m \in team.mates \ kicking /\ ClickTeam /\ kicking' = kicking \cup {m}
    /\ UNCHANGED <<teamVars, listVars, switchVars, override, entering, leaving, teamForeign, unread>>

SharedFetch == IF getTeam = NoFetch THEN [pc |-> "asked"] ELSE getTeam
Refetch == [pc |-> "asked"]

Kicked(m) ==
    /\ m \in kicking /\ kicking' = kicking \ {m}
    /\ mates' = mates \ {m}
    /\ \/ getTeam' = Refetch /\ unread' = (m \in mates \/ unread) /\ UNCHANGED teamCountVars
       \/ Fails /\ UNCHANGED <<getTeam, unread>>
    /\ UNCHANGED <<exists, auto, registered, rivals, team, teams, getTeams, switchVars, override, entering, leaving, teamForeign>>

-----------------------------------------------------------------------------
\* Leaving or deleting: the dialog goes by the list, the server by the table.
Told == IF team.mates = {} THEN "delete" ELSE "leave"

AskToLeave ==
    /\ exists /\ leaving = NotLeaving /\ ClickTeam /\ leaving' = [told |-> Told, shown |-> team.mates]
    /\ UNCHANGED <<teamVars, listVars, switchVars, override, entering, kicking, teamForeign, unread>>

Leave ==
    /\ leaving # NotLeaving /\ leaving' = NotLeaving
    /\ exists' = (mates # {})
    /\ UNCHANGED <<mates, auto, registered, rivals, listVars, switchVars, override, entering, kicking, teamCountVars, teamForeign, unread>>

\* The others.
Meanwhile ==
    /\ others < MaxOthers /\ others' = others + 1
    /\ \/ \E m \in Mate : mates' = (mates \ {m}) \cup ({m} \ mates) /\ UNCHANGED <<auto, registered, rivals, teamForeign>>
       \/ auto' = ~auto /\ teamForeign' = TRUE /\ UNCHANGED <<mates, registered, rivals>>
       \/ registered' = ~registered /\ teamForeign' = TRUE /\ UNCHANGED <<mates, auto, rivals>>
       \/ rivals' = 1 - rivals /\ UNCHANGED <<mates, auto, registered, teamForeign>>
    /\ UNCHANGED <<exists, listVars, switchVars, override, entering, kicking, leaving, teamClicks, teamFailures, unread>>

TeamNext ==
    \/ FocusTeam \/ ReadTeam \/ ShowTeam \/ ReadTeams \/ ShowTeams
    \/ Flip \/ SetAuto \/ Flipped \/ Enter \/ Entered \/ Laid
    \/ \E m \in Mate : Kick(m) \/ Kicked(m)
    \/ AskToLeave \/ Leave \/ (exists /\ Meanwhile)

TeamSpec == TeamInit /\ [][TeamNext]_teamPageVars

-----------------------------------------------------------------------------
\* Between clicks the switch says what the server has, and the section hides
\* its list by the same value or by one it has read since and will read again,
\* unless the setting was changed elsewhere or the answer to a change was lost.
SwitchIsTrue ==
    toggling = "no" /\ ~teamForeign => /\ enabled = auto
                                       /\ hides # auto => team.auto # auto

\* Between clicks the row shows whether the team is registered, whatever lists
\* arrive late, unless that was changed elsewhere or an answer was lost.
RegistrationIsTrue == entering = "no" /\ ~teamForeign => ShownRegistered = registered

\* Once no fetch is under way the page has read its members after it removed
\* one.
RemovalIsShown == getTeam = NoFetch => ~unread

\* The team is deleted only after the dialog said so, unless the last member
\* has left, or was removed by this page, since the list it went by was read.
ToldSo == exists /\ ~exists' => leaving.told = "delete" \/ leaving.shown # mates
DeletedOnlyIfTold == [][ToldSo]_teamPageVars
=============================================================================
