----------------------------- MODULE SeasonBoard -----------------------------
(* The page of a season's leaderboard: the teams come at once, the members   *)
(* of a team when its row is opened first, patched into what is shown while  *)
(* SWR reads the list again behind it and members leave, hide or are frozen  *)
(* into the final results.  A team stands for its one member.                *)
(* The page is mounted anew for every season, so the season never changes.   *)
EXTENDS Naturals

CONSTANTS Side, MaxTurns, MaxReads, MaxFailures

VARIABLES
    public, roster, frozen, kept,   \* users, the roster, snapshot_ready, the snapshot's member rows
    list,           \* the members shown of a team: "unasked", "none" or "some"
    get,            \* the list being read again: "idle", "asked", "answered" or "void"
    load,           \* the members being read, per team
    fetchedRef, loadingRef, loadingTeamIds, expanded, dialogMember,
    turns, reads, failures,
    seen,           \* history: the teams whose member was public since its members were asked for
    replaced        \* history: the teams whose members a new list has taken away

serverVars == <<public, roster, frozen, kept>>
hookVars == <<fetchedRef, loadingRef, loadingTeamIds>>
boardVars == <<serverVars, list, get, load, hookVars, expanded, dialogMember, turns, reads, failures, seen, replaced>>

NotAsked == [pc |-> "idle", frozen |-> FALSE, members |-> "unasked"]
Turns == turns < MaxTurns /\ turns' = turns + 1 /\ UNCHANGED <<reads, failures>>

BoardInit ==
    /\ public \in SUBSET Side /\ roster = Side /\ frozen = FALSE /\ kept = {}
    /\ list = [t \in Side |-> "unasked"] /\ get = "idle" /\ load = [t \in Side |-> NotAsked]
    /\ fetchedRef = {} /\ loadingRef = {} /\ loadingTeamIds = {} /\ expanded = {} /\ dialogMember = {}
    /\ turns = 0 /\ reads = 0 /\ failures = 0 /\ seen = {} /\ replaced = {}

-----------------------------------------------------------------------------
(* Meanwhile.                                                              *)

SetPublic(t) ==
    /\ Turns /\ public' = IF t \in public THEN public \ {t} ELSE public \cup {t}
    /\ seen' = seen \cup (public' \cap {t})
    /\ UNCHANGED <<roster, frozen, kept, list, get, load, hookVars, expanded, dialogMember, replaced>>

Leave(t) ==
    /\ Turns /\ t \in roster /\ roster' = roster \ {t}
    /\ UNCHANGED <<public, frozen, kept, list, get, load, hookVars, expanded, dialogMember, seen, replaced>>

Freeze ==
    /\ Turns /\ ~frozen /\ frozen' = TRUE /\ kept' = roster
    /\ UNCHANGED <<public, roster, list, get, load, hookVars, expanded, dialogMember, seen, replaced>>

-----------------------------------------------------------------------------
(* The list, read again when the window is looked at.                      *)

Revalidate ==
    /\ get = "idle" /\ reads < MaxReads /\ get' = "asked" /\ reads' = reads + 1
    /\ UNCHANGED <<serverVars, list, load, hookVars, expanded, dialogMember, turns, failures, seen, replaced>>

\* Its entries have no members.  SWR drops an answer that was asked for before
\* the last patch.
Refreshed ==
    /\ get # "idle" /\ get' = "idle"
    /\ list' = IF get = "void" THEN list ELSE [t \in Side |-> "unasked"]
    /\ replaced' = IF get = "void" THEN replaced ELSE replaced \cup fetchedRef
    /\ UNCHANGED <<serverVars, load, hookVars, expanded, dialogMember, turns, reads, failures, seen>>

-----------------------------------------------------------------------------
(* The members of a team.                                                  *)

\* The row opens; its members are asked for unless they are there, have been
\* fetched or are on their way.
Expand(t) ==
    LET asks == list[t] # "some" /\ t \notin fetchedRef \cup loadingRef
    IN  /\ t \notin expanded /\ expanded' = expanded \cup {t}
        /\ IF asks THEN /\ loadingRef' = loadingRef \cup {t} /\ loadingTeamIds' = loadingTeamIds \cup {t}
                        /\ load' = [load EXCEPT ![t].pc = "asked"]
                        /\ seen' = (seen \ {t}) \cup (public \cap {t})
                   ELSE UNCHANGED <<loadingRef, loadingTeamIds, load, seen>>
        /\ UNCHANGED <<serverVars, list, get, fetchedRef, dialogMember, turns, reads, failures, replaced>>

Collapse(t) ==
    /\ t \in expanded /\ expanded' = expanded \ {t}
    /\ UNCHANGED <<serverVars, list, get, load, hookVars, dialogMember, turns, reads, failures, seen, replaced>>

ReadSeason(t) ==
    /\ load[t].pc = "asked" /\ load' = [load EXCEPT ![t].pc = "season", ![t].frozen = frozen]
    /\ UNCHANGED <<serverVars, list, get, hookVars, expanded, dialogMember, turns, reads, failures, seen, replaced>>

SnapshotMembers == kept \cap public
TokenMembers == roster \cap public

ReadMembers(t) ==
    /\ load[t].pc = "season"
    /\ LET found == t \in IF load[t].frozen THEN SnapshotMembers ELSE TokenMembers
       IN  load' = [load EXCEPT ![t].pc = "read", ![t].members = IF found THEN "some" ELSE "none"]
    /\ UNCHANGED <<serverVars, list, get, hookVars, expanded, dialogMember, turns, reads, failures, seen, replaced>>

\* Mutant: patched into the list as it came, without the others' members.
PatchedAlone(t, m) == [s \in Side |-> IF s = t THEN m ELSE "unasked"]

Patched(t, m) == [list EXCEPT ![t] = m]

Finally(ids, t, ok) == ids \ {t}

LoadEnds(t, ok) ==
    /\ load' = [load EXCEPT ![t] = NotAsked]
    /\ loadingRef' = loadingRef \ {t} /\ loadingTeamIds' = Finally(loadingTeamIds, t, ok)
    /\ UNCHANGED <<serverVars, expanded, dialogMember, turns, reads, seen>>

LoadTeamMembers(t) ==
    /\ load[t].pc = "read" /\ LoadEnds(t, TRUE)
    /\ fetchedRef' = fetchedRef \cup {t} /\ replaced' = replaced \ {t}
    /\ list' = Patched(t, load[t].members) /\ get' = IF get = "idle" THEN "idle" ELSE "void"
    /\ UNCHANGED failures

LoadFails(t) ==
    /\ load[t].pc # "idle" /\ failures < MaxFailures /\ failures' = failures + 1
    /\ LoadEnds(t, FALSE)
    /\ UNCHANGED <<list, get, fetchedRef, replaced>>

MemberClick(t) ==
    /\ t \in expanded /\ list[t] = "some" /\ dialogMember = {} /\ dialogMember' = {t}
    /\ UNCHANGED <<serverVars, list, get, load, hookVars, expanded, turns, reads, failures, seen, replaced>>

CloseDialog ==
    /\ dialogMember # {} /\ dialogMember' = {}
    /\ UNCHANGED <<serverVars, list, get, load, hookVars, expanded, turns, reads, failures, seen, replaced>>

BoardNext ==
    \/ Freeze \/ Revalidate \/ Refreshed \/ CloseDialog
    \/ \E t \in Side : \/ SetPublic(t) \/ Leave(t) \/ Expand(t) \/ Collapse(t) \/ MemberClick(t)
                       \/ ReadSeason(t) \/ ReadMembers(t) \/ LoadTeamMembers(t) \/ LoadFails(t)

BoardSpec == BoardInit /\ [][BoardNext]_boardVars

-----------------------------------------------------------------------------
(* Properties.                                                             *)

\* Members are shown that were public while the answer that shows them was
\* under way: also of a season frozen when they still were, or in between.
OptedInOnly == \A t \in Side : list[t] = "some" => t \in seen

\* Two teams' members on their way at once do not take each other's away: what
\* was fetched is shown until the list is read again.
LoadsKeepEachOther == \A t \in fetchedRef \ replaced : list[t] # "unasked"

\* The row that says its members are loading is the one that loads them, also
\* after a load has failed.
SpinnerIsTrue == loadingTeamIds = {t \in Side : load[t].pc # "idle"}
=============================================================================
