-------------------------- MODULE LeaderboardScope --------------------------
(* Which board the leaderboard pages ask for.  The choice of an organization  *)
(* or a team is kept in the browser, whoever uses it; it counts once the     *)
(* session and the lists of the user's own organizations and teams are       *)
(* known.  Memberships change, lists fail, and another user signs in.        *)
EXTENDS Integers, FiniteSets

CONSTANTS Org, Team, Account, MaxChanges, MaxOpens

Global == "global"
Page == {"board", "models", "harness"}
Group == Org \cup Team
None == [scope |-> "none"]
Default == "default"
Filter == {Default, "other"}

VARIABLES
    mine,            \* groups of each account
    ever,            \* history: groups each account has been in
    session,         \* "loading", "out" or "in"
    account,         \* whose session it is
    orgs, teams,     \* the lists loaded: "loading", "error" or what they hold
    stored, raw,     \* the choice in the browser's storage, and in the page
    page, filter,    \* the page shown, and the model or agent in its address
    asked,           \* the board it asked for last
    opens            \* pages opened, and changes of membership (bounds)

scopeVars == <<mine, ever, session, account, orgs, teams, stored, raw, page, filter, asked, opens>>
choice == <<stored, raw, page, filter>>
lists == <<orgs, teams>>
loading == [status |-> "loading", has |-> {}]

ScopeInit ==
    /\ mine \in [Account -> SUBSET Group] /\ ever = mine
    /\ session = "loading" /\ account \in Account /\ orgs = loading /\ teams = loading
    /\ stored = Global /\ raw = Global /\ page = "board" /\ filter = Default /\ asked = None /\ opens = <<0, 0>>

Member ==
    /\ opens[2] < MaxChanges /\ opens' = [opens EXCEPT ![2] = @ + 1]
    /\ \E a \in Account, g \in Group :
          /\ mine' = [mine EXCEPT ![a] = IF g \in @ THEN @ \ {g} ELSE @ \cup {g}]
          /\ ever' = [ever EXCEPT ![a] = @ \cup {g}]
    /\ UNCHANGED <<session, account, lists, choice, asked>>

\* The session is known; signed out, no list is asked for.
SessionKnown ==
    /\ session = "loading" /\ session' \in {"in", "out"}
    /\ UNCHANGED <<mine, ever, account, lists, choice, asked, opens>>

Answers(kinds) == {[status |-> "ok", has |-> mine[account] \cap kinds], [status |-> "error", has |-> {}]}

\* A list is loaded, or asked for again; an error leaves what there was.
LoadOrganizations ==
    /\ session = "in" /\ orgs' \in Answers(Org) /\ orgs' # orgs
    /\ orgs'.status = "error" => orgs.has = {}
    /\ UNCHANGED <<mine, ever, session, account, teams, choice, asked, opens>>

LoadTeams ==
    /\ session = "in" /\ teams' \in Answers(Team) /\ teams' # teams
    /\ teams'.status = "error" => teams.has = {}
    /\ UNCHANGED <<mine, ever, session, account, orgs, choice, asked, opens>>

-----------------------------------------------------------------------------
(* The scope in force.                                                     *)

OrgsLoaded == \/ orgs # loading /\ teams # loading
              \/ "error" \in {orgs.status, teams.status}

ScopeInitialized == session = "out" \/ (session = "in" /\ OrgsLoaded)

Scope ==
    CASE session # "in" -> Global
      [] session = "in" /\ ~ScopeInitialized -> raw
      [] OTHER -> IF raw \in orgs.has \cup teams.has THEN raw ELSE Global

LoadScopeFromStorage(s) == s

Offered == {Global} \cup orgs.has \cup teams.has

\* The dropdown is there for who is signed in.
SetScope ==
    /\ session = "in"
    /\ \E s \in Offered : raw' = s /\ stored' = s
    /\ raw' # raw \/ stored' # stored
    /\ UNCHANGED <<mine, ever, session, account, lists, page, filter, asked, opens>>

Enabled == ScopeInitialized /\ session # "loading"

Ask ==
    /\ Enabled /\ asked' = [scope |-> Scope, filter |-> filter] /\ asked' # asked
    /\ UNCHANGED <<mine, ever, session, account, lists, choice, opens>>

PickModel ==
    /\ page = "models" /\ filter' \in Filter \ {filter}
    /\ UNCHANGED <<mine, ever, session, account, lists, stored, raw, page, asked, opens>>

PickAgent ==
    /\ page = "harness" /\ filter' \in Filter \ {filter}
    /\ UNCHANGED <<mine, ever, session, account, lists, stored, raw, page, asked, opens>>

\* Another page of the board: the lists are still there.
OpenPage ==
    /\ opens[1] < MaxOpens /\ opens' = [opens EXCEPT ![1] = @ + 1]
    /\ page' \in Page \ {page} /\ filter' = Default
    /\ raw' = LoadScopeFromStorage(stored) /\ asked' = None
    /\ UNCHANGED <<mine, ever, session, account, lists, stored>>

\* Someone signs in or out: everything is loaded anew but the stored choice.
Reload ==
    /\ opens[1] < MaxOpens /\ opens' = [opens EXCEPT ![1] = @ + 1]
    /\ account' \in Account /\ session' = "loading" /\ orgs' = loading /\ teams' = loading
    /\ raw' = LoadScopeFromStorage(stored) /\ asked' = None
    /\ UNCHANGED <<mine, ever, stored, page, filter>>

ScopeNext == Member \/ SessionKnown \/ LoadOrganizations \/ LoadTeams \/ SetScope \/ Ask \/ PickModel \/ PickAgent
             \/ OpenPage \/ Reload

ScopeSpec == ScopeInit /\ [][ScopeNext]_scopeVars

-----------------------------------------------------------------------------
(* Properties.                                                             *)

\* A board of a group is asked for only in the session of someone who has been in the
\* group, though the browser remembers what another user chose.
NeverAnothers == asked.scope \in Group => session = "in" /\ asked.scope \in ever[account]

\* Once both lists are loaded, the last choice is in force on every page if the user
\* is in the group, whatever failed or was missing before.
ChoiceComesBack ==
    session = "in" /\ orgs.status = "ok" /\ teams.status = "ok" /\ stored \in orgs.has \cup teams.has => Scope = stored
=============================================================================
