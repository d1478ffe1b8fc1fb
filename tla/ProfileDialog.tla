---------------------------- MODULE ProfileDialog ----------------------------
(* The dialog that shows a user's numbers: its tabs depend on two answers,   *)
(* whether the viewer is an administrator and whether a season is active,    *)
(* and the page that opens it asks for one of the tabs.                      *)
CONSTANTS Season, NoSeason

VARIABLES
    admin,          \* the viewer is one
    isAdmin,        \* what the check has answered: a set of at most one answer
    active,         \* the season that is active now
    seasons,        \* the answers of the active-season list so far, the last one
    opened,         \* what the dialog was opened with, if it is open
    tab             \* the tab shown, once the content is there

dialogVars == <<admin, isAdmin, active, seasons, opened, tab>>

Tab == {"season", "7d", "30d", "total"}
Closed == [is |-> FALSE, wanted |-> "7d", season |-> NoSeason]
Checked == isAdmin # {}
IsAdmin == TRUE \in isAdmin
Loaded == seasons # {}

DialogInit ==
    /\ admin \in BOOLEAN /\ isAdmin = {} /\ active \in Season \cup {NoSeason} /\ seasons = {}
    /\ opened = Closed /\ tab = {}

-----------------------------------------------------------------------------
(* What the hooks know.                                                    *)

\* A check that fails counts as no.
CheckAnswers ==
    /\ ~Checked /\ \E ok \in BOOLEAN : isAdmin' = {ok /\ admin}
    /\ UNCHANGED <<admin, active, seasons, opened, tab>>

\* SWR reads the list at first and when the window is looked at again; a list
\* that cannot be read at first counts as no season.
ReadSeasons ==
    /\ seasons' = {active} \/ (seasons = {} /\ seasons' = {NoSeason})
    /\ seasons' # seasons
    /\ UNCHANGED <<admin, isAdmin, active, opened, tab>>

Turn(s) ==
    /\ s # active /\ active' = s
    /\ UNCHANGED <<admin, isAdmin, seasons, opened, tab>>

-----------------------------------------------------------------------------
(* The dialog.                                                             *)

\* A season leaderboard passes its own season, the other pages none.
Open(w, s) ==
    /\ ~opened.is /\ opened' = [is |-> TRUE, wanted |-> w, season |-> s]
    /\ UNCHANGED <<admin, isAdmin, active, seasons, tab>>

\* Props take precedence over the list.
Resolved == IF opened.season # NoSeason THEN opened.season
            ELSE IF seasons = {} THEN NoSeason ELSE CHOOSE s \in seasons : TRUE
ConfigReady == Checked /\ (opened.season # NoSeason \/ Loaded)

Offered == (IF Resolved = NoSeason THEN {} ELSE {"season"}) \cup {"7d"}
           \cup IF IsAdmin THEN {"30d", "total"} ELSE {}

First == IF Resolved = NoSeason THEN "7d" ELSE "season"

\* The tab is chosen once, when the content appears.
Mount ==
    /\ opened.is /\ ConfigReady /\ tab = {}
    /\ tab' = {IF opened.wanted \in Offered THEN opened.wanted ELSE First}
    /\ UNCHANGED <<admin, isAdmin, active, seasons, opened>>

Select(t) ==
    /\ tab # {} /\ t \in Offered \ tab /\ tab' = {t}
    /\ UNCHANGED <<admin, isAdmin, active, seasons, opened>>

Shut ==
    /\ opened.is /\ opened' = Closed /\ tab' = {}
    /\ UNCHANGED <<admin, isAdmin, active, seasons>>

DialogNext ==
    \/ CheckAnswers \/ ReadSeasons \/ Mount \/ Shut
    \/ \E s \in Season \cup {NoSeason} : Turn(s) \/ (\E w \in Tab : Open(w, s))
    \/ \E t \in Tab : Select(t)

DialogSpec == DialogInit /\ [][DialogNext]_dialogVars

-----------------------------------------------------------------------------
(* Properties.                                                             *)

\* The dialog opens on the tab its page asked for, in whatever order the check
\* and the list answer: another tab only because the check said no, or because
\* the list has no active season.
OpensWanted ==
    tab = {} /\ tab' # {} =>
        \/ opened.wanted \in tab'
        \/ opened.wanted \in {"30d", "total"} /\ isAdmin = {FALSE}
        \/ opened.wanted = "season" /\ seasons = {NoSeason}
WantedTabOpens == [][OpensWanted]_dialogVars
=============================================================================
