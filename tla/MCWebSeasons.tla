---------------------------- MODULE MCWebSeasons -----------------------------
(* The seasons, the leaderboards, the charts and the profiles of the web
   service, checked in one run: a behaviour belongs to one module and
   leaves the variables of the others alone.  x1, x2; y1, y2 are
   interchangeable values that every part uses for its own people, requests
   and snapshots. *)
EXTENDS Integers, Sequences, FiniteSets, Functions, TLC

CONSTANTS x1, x2, y1, y2, Miss, Null

VARIABLES part
VARIABLES users, rostersTeams, fresh, members, auto, status, allow, registered,
          rostersRoster, rostersReq, made, own, strayed, confirmed
VARIABLES snapshotAccount, use, on, enrolled, ready, rows, memberRows, snap,
          snapshotPage, late, disagreed, leftover
VARIABLES today, season, catalogList, reader, shown, catalogForm, catalogReq, owed,
          saves, lists, catalogFailures, raced, failed, crossed
VARIABLES boardPublic, member, tokens, rev, tick, kv, entry, flight, boardVisit,
          boardPage
VARIABLES membersPublic, membersRoster, frozen, kept, membersList, get, load,
          fetchedRef, loadingRef, loadingTeamIds, expanded, dialogMember, turns, reads,
          membersFailures, seen, replaced
VARIABLES mine, ever, session, scopeAccount, orgs, scopeTeams, stored, raw, scopePage,
          filter, scopeAsked, opens
VARIABLES bases, details
VARIABLES records, zone, period, sessionsAnswer
VARIABLES usage, comparePage, listed, chosen, url, filters, compareAnswer, visits
VARIABLES admin, isAdmin, active, seasons, opened, tab
VARIABLES user, rival, loaded, profileForm, patch, reading, profileAsked, shared,
          profileVisit, entitled, changes

rostersVars == <<users, rostersTeams, fresh, members, auto, status, allow, registered,
    rostersRoster, rostersReq, made, own, strayed, confirmed>>
snapshotVars == <<snapshotAccount, use, on, enrolled, ready, rows, memberRows, snap,
    snapshotPage, late, disagreed, leftover>>
catalogVars == <<today, season, catalogList, reader, shown, catalogForm, catalogReq,
    owed, saves, lists, catalogFailures, raced, failed, crossed>>
boardVars == <<boardPublic, member, tokens, rev, tick, kv, entry, flight, boardVisit,
    boardPage>>
membersVars == <<membersPublic, membersRoster, frozen, kept, membersList, get, load,
    fetchedRef, loadingRef, loadingTeamIds, expanded, dialogMember, turns, reads,
    membersFailures, seen, replaced>>
scopeVars == <<mine, ever, session, scopeAccount, orgs, scopeTeams, stored, raw,
    scopePage, filter, scopeAsked, opens>>
chartsVars == <<bases, details>>
sessionsVars == <<records, zone, period, sessionsAnswer>>
compareVars == <<usage, comparePage, listed, chosen, url, filters, compareAnswer,
    visits>>
dialogVars == <<admin, isAdmin, active, seasons, opened, tab>>
profileVars == <<user, rival, loaded, profileForm, patch, reading, profileAsked, shared,
    profileVisit, entitled, changes>>

MCFounder == [t1 |-> "a", t2 |-> "b"]
Form(s, e, r) == [start |-> s, end |-> e, roster |-> r]
MCFirst == Form(1, 2, FALSE)
MCWanted == {Form(1, 1, FALSE), Form(2, 2, FALSE), Form(0, 2, TRUE), Form(1, 2, TRUE)}

MCKey(d, s, m, at, e) == [device |-> d, source |-> s, model |-> m, at |-> at, event |-> e]
MCKeys == {MCKey("d1", "s1", 1, 1, ""), MCKey("d2", "s1", 1, 2, ""), MCKey("d2", "s2", 2, 2, "e")}
MCUploads == {[input |-> 0, cached |-> 0, output |-> 0], [input |-> 1, cached |-> 2, output |-> 0]}
MCPrice(i, c, o, w) == [input |-> i, cached |-> c, output |-> o, write |-> w]
MCFallback == [m \in {1, 2} |-> IF m = 1 THEN MCPrice(5, 1, 7, 5) ELSE MCPrice(11, 2, 13, 11)]
MCContextual == [m \in {1, 2} |-> IF m = 1 THEN MCPrice(4, 1, 6, 5) ELSE MCPrice(10, 1, 12, 14)]

MCRow(s, m, at, u, a, t) ==
    [source |-> s, model |-> m, at |-> at, user |-> u, assistant |-> a, total |-> t]
MCRows == {MCRow("s1", "m1", 3, 1, 1, 3), MCRow("s1", "null", 4, 1, 2, 3), MCRow("s2", "m1", 5, 0, 1, 1),
           MCRow("s1", "m2", 6, 1, 0, 2), MCRow("s2", "null", 0, 1, 0, 1)}

Rosters == INSTANCE SeasonRosters WITH
    User <- {"a", "b", "c"}, Team <- {"t1", "t2"}, Request <- {x1, x2},
    Founder <- MCFounder, Existing <- {"t1"}, MaxMembers <- 2, MaxRequests <- 2,
    teams <- rostersTeams, roster <- rostersRoster, req <- rostersReq
Snapshots == INSTANCE SeasonSnapshot WITH
    Person <- {x1, x2}, Squad <- {1, 2}, Snapshot <- {y1, y2}, MaxUse <- 1,
    MaxLate <- 1, account <- snapshotAccount, page <- snapshotPage
Catalog == INSTANCE SeasonCatalog WITH
    Admin <- {x1, x2}, LastDay <- 2, First <- MCFirst, Wanted <- MCWanted,
    MaxSaves <- 2, MaxLists <- 2, MaxFailures <- 1, list <- catalogList,
    form <- catalogForm, req <- catalogReq, failures <- catalogFailures
Board == INSTANCE LeaderboardPages WITH
    Person <- {1, 2}, MaxChanges <- 1, MaxLoads <- 3, public <- boardPublic,
    visit <- boardVisit, page <- boardPage
Members == INSTANCE SeasonBoard WITH
    Side <- {"t1", "t2"}, MaxTurns <- 2, MaxReads <- 2, MaxFailures <- 1,
    public <- membersPublic, roster <- membersRoster, list <- membersList,
    failures <- membersFailures
Scopes == INSTANCE LeaderboardScope WITH
    Org <- {"o"}, Team <- {"t"}, Account <- {y1, y2}, MaxChanges <- 1, MaxOpens <- 2,
    account <- scopeAccount, teams <- scopeTeams, page <- scopePage, asked <- scopeAsked
Charts == INSTANCE UsageCharts WITH
    Keys <- MCKeys, Uploads <- MCUploads, DaySlots <- 2, MaxSeq <- 1,
    Fallback <- MCFallback, Contextual <- MCContextual, WeekDays <- 2, MonthDays <- 3,
    Limit <- 1, LastSlot <- 7, Zones <- {-1, 0, 1}
Sessions == INSTANCE SessionAnalytics WITH
    Key <- {x1, x2}, RowChoice <- MCRows, DaySlots <- 2, WeekDays <- 2, Today <- 3,
    Zones <- {-1, 0, 1}, MaxSnapshot <- 2, answer <- sessionsAnswer
Compare == INSTANCE AdminCompare WITH
    Person <- {x1, x2, y1}, Source <- {"s1", "s2"}, Today <- 1, MaxChosen <- 2,
    MaxUse <- 3, MaxVisits <- 2, page <- comparePage, answer <- compareAnswer
Dialog == INSTANCE ProfileDialog WITH
    Season <- {"s1", "s2"}, NoSeason <- "none"
Profile == INSTANCE ProfileSettings WITH
    Slug <- {"a"}, NoSlug <- "none", MaxChanges <- 3, form <- profileForm,
    asked <- profileAsked, visit <- profileVisit

NoRosters ==
    /\ users = 0 /\ rostersTeams = 0 /\ fresh = 0 /\ members = 0 /\ auto = 0
    /\ status = 0 /\ allow = 0 /\ registered = 0 /\ rostersRoster = 0 /\ rostersReq = 0
    /\ made = 0 /\ own = 0 /\ strayed = 0 /\ confirmed = 0
NoSnapshots ==
    /\ snapshotAccount = 0 /\ use = 0 /\ on = 0 /\ enrolled = 0 /\ ready = 0 /\ rows = 0
    /\ memberRows = 0 /\ snap = 0 /\ snapshotPage = 0 /\ late = 0 /\ disagreed = 0
    /\ leftover = 0
NoCatalog ==
    /\ today = 0 /\ season = 0 /\ catalogList = 0 /\ reader = 0 /\ shown = 0
    /\ catalogForm = 0 /\ catalogReq = 0 /\ owed = 0 /\ saves = 0 /\ lists = 0
    /\ catalogFailures = 0 /\ raced = 0 /\ failed = 0 /\ crossed = 0
NoBoard ==
    /\ boardPublic = 0 /\ member = 0 /\ tokens = 0 /\ rev = 0 /\ tick = 0 /\ kv = 0
    /\ entry = 0 /\ flight = 0 /\ boardVisit = 0 /\ boardPage = 0
NoMembers ==
    /\ membersPublic = 0 /\ membersRoster = 0 /\ frozen = 0 /\ kept = 0
    /\ membersList = 0 /\ get = 0 /\ load = 0 /\ fetchedRef = 0 /\ loadingRef = 0
    /\ loadingTeamIds = 0 /\ expanded = 0 /\ dialogMember = 0 /\ turns = 0 /\ reads = 0
    /\ membersFailures = 0 /\ seen = 0 /\ replaced = 0
NoScopes ==
    /\ mine = 0 /\ ever = 0 /\ session = 0 /\ scopeAccount = 0 /\ orgs = 0
    /\ scopeTeams = 0 /\ stored = 0 /\ raw = 0 /\ scopePage = 0 /\ filter = 0
    /\ scopeAsked = 0 /\ opens = 0
NoCharts ==
    /\ bases = 0 /\ details = 0
NoSessions ==
    /\ records = 0 /\ zone = 0 /\ period = 0 /\ sessionsAnswer = 0
NoCompare ==
    /\ usage = 0 /\ comparePage = 0 /\ listed = 0 /\ chosen = 0 /\ url = 0 /\ filters = 0
    /\ compareAnswer = 0 /\ visits = 0
NoDialog ==
    /\ admin = 0 /\ isAdmin = 0 /\ active = 0 /\ seasons = 0 /\ opened = 0 /\ tab = 0
NoProfile ==
    /\ user = 0 /\ rival = 0 /\ loaded = 0 /\ profileForm = 0 /\ patch = 0 /\ reading = 0
    /\ profileAsked = 0 /\ shared = 0 /\ profileVisit = 0 /\ entitled = 0 /\ changes = 0

Init ==
    \/ part = "rosters" /\ Rosters!Init /\ NoSnapshots /\ NoCatalog /\ NoBoard /\ NoMembers /\ NoScopes /\ NoCharts /\ NoSessions /\ NoCompare /\ NoDialog /\ NoProfile
    \/ part = "snapshot" /\ Snapshots!Init /\ NoRosters /\ NoCatalog /\ NoBoard /\ NoMembers /\ NoScopes /\ NoCharts /\ NoSessions /\ NoCompare /\ NoDialog /\ NoProfile
    \/ part = "catalog" /\ Catalog!CatalogInit /\ NoRosters /\ NoSnapshots /\ NoBoard /\ NoMembers /\ NoScopes /\ NoCharts /\ NoSessions /\ NoCompare /\ NoDialog /\ NoProfile
    \/ part = "board" /\ Board!LBInit /\ NoRosters /\ NoSnapshots /\ NoCatalog /\ NoMembers /\ NoScopes /\ NoCharts /\ NoSessions /\ NoCompare /\ NoDialog /\ NoProfile
    \/ part = "members" /\ Members!BoardInit /\ NoRosters /\ NoSnapshots /\ NoCatalog /\ NoBoard /\ NoScopes /\ NoCharts /\ NoSessions /\ NoCompare /\ NoDialog /\ NoProfile
    \/ part = "scope" /\ Scopes!ScopeInit /\ NoRosters /\ NoSnapshots /\ NoCatalog /\ NoBoard /\ NoMembers /\ NoCharts /\ NoSessions /\ NoCompare /\ NoDialog /\ NoProfile
    \/ part = "charts" /\ Charts!UsageInit /\ NoRosters /\ NoSnapshots /\ NoCatalog /\ NoBoard /\ NoMembers /\ NoScopes /\ NoSessions /\ NoCompare /\ NoDialog /\ NoProfile
    \/ part = "sessions" /\ Sessions!AnalyticsInit /\ NoRosters /\ NoSnapshots /\ NoCatalog /\ NoBoard /\ NoMembers /\ NoScopes /\ NoCharts /\ NoCompare /\ NoDialog /\ NoProfile
    \/ part = "compare" /\ Compare!CompareInit /\ NoRosters /\ NoSnapshots /\ NoCatalog /\ NoBoard /\ NoMembers /\ NoScopes /\ NoCharts /\ NoSessions /\ NoDialog /\ NoProfile
    \/ part = "dialog" /\ Dialog!DialogInit /\ NoRosters /\ NoSnapshots /\ NoCatalog /\ NoBoard /\ NoMembers /\ NoScopes /\ NoCharts /\ NoSessions /\ NoCompare /\ NoProfile
    \/ part = "profile" /\ Profile!ProfileInit /\ NoRosters /\ NoSnapshots /\ NoCatalog /\ NoBoard /\ NoMembers /\ NoScopes /\ NoCharts /\ NoSessions /\ NoCompare /\ NoDialog

Next ==
    \/ part = "rosters" /\ Rosters!Next /\ UNCHANGED <<part, snapshotVars, catalogVars, boardVars, membersVars, scopeVars, chartsVars, sessionsVars, compareVars, dialogVars, profileVars>>
    \/ part = "snapshot" /\ Snapshots!Next /\ UNCHANGED <<part, rostersVars, catalogVars, boardVars, membersVars, scopeVars, chartsVars, sessionsVars, compareVars, dialogVars, profileVars>>
    \/ part = "catalog" /\ Catalog!CatalogNext /\ UNCHANGED <<part, rostersVars, snapshotVars, boardVars, membersVars, scopeVars, chartsVars, sessionsVars, compareVars, dialogVars, profileVars>>
    \/ part = "board" /\ Board!LBNext /\ UNCHANGED <<part, rostersVars, snapshotVars, catalogVars, membersVars, scopeVars, chartsVars, sessionsVars, compareVars, dialogVars, profileVars>>
    \/ part = "members" /\ Members!BoardNext /\ UNCHANGED <<part, rostersVars, snapshotVars, catalogVars, boardVars, scopeVars, chartsVars, sessionsVars, compareVars, dialogVars, profileVars>>
    \/ part = "scope" /\ Scopes!ScopeNext /\ UNCHANGED <<part, rostersVars, snapshotVars, catalogVars, boardVars, membersVars, chartsVars, sessionsVars, compareVars, dialogVars, profileVars>>
    \/ part = "charts" /\ Charts!UsageNext /\ UNCHANGED <<part, rostersVars, snapshotVars, catalogVars, boardVars, membersVars, scopeVars, sessionsVars, compareVars, dialogVars, profileVars>>
    \/ part = "sessions" /\ Sessions!AnalyticsNext /\ UNCHANGED <<part, rostersVars, snapshotVars, catalogVars, boardVars, membersVars, scopeVars, chartsVars, compareVars, dialogVars, profileVars>>
    \/ part = "compare" /\ Compare!CompareNext /\ UNCHANGED <<part, rostersVars, snapshotVars, catalogVars, boardVars, membersVars, scopeVars, chartsVars, sessionsVars, dialogVars, profileVars>>
    \/ part = "dialog" /\ Dialog!DialogNext /\ UNCHANGED <<part, rostersVars, snapshotVars, catalogVars, boardVars, membersVars, scopeVars, chartsVars, sessionsVars, compareVars, profileVars>>
    \/ part = "profile" /\ Profile!ProfileNext /\ UNCHANGED <<part, rostersVars, snapshotVars, catalogVars, boardVars, membersVars, scopeVars, chartsVars, sessionsVars, compareVars, dialogVars>>

allVars == <<part, rostersVars, snapshotVars, catalogVars, boardVars, membersVars, scopeVars, chartsVars, sessionsVars, compareVars, dialogVars, profileVars>>

Spec == Init /\ [][Next]_allVars

Symmetry == Permutations({x1, x2}) \union Permutations({y1, y2})

\* Concurrent registrations, withdrawals, departures and edits keep the
\* seasons sound: rosters hold registered teams and their members, a
\* registration that was confirmed stays, no team is overfull or without
\* owner, dates are in order, an opened roster is filled and a stale list is
\* not served.
SeasonsAreSound ==
    /\ (part = "rosters" => Rosters!NoOrphanOnRoster)
    /\ (part = "rosters" => Rosters!AcceptedStays)
    /\ (part = "rosters" => Rosters!OwnerStays)
    /\ (part = "rosters" => Rosters!NeverOverfull)
    /\ (part = "catalog" => Catalog!StaleListIsDropped)
    /\ (part = "catalog" => Catalog!DatesInOrder)
    /\ (part = "catalog" => Catalog!OpenedRostersAreFilled)

\* A frozen season adds up and is ranked while the site reads it, snapshots
\* overlap and people erase themselves; who is erased stays erased.
FrozenIsSound ==
    /\ (part = "snapshot" => Snapshots!FrozenAddsUp)
    /\ (part = "snapshot" => Snapshots!ErasedStaysErased)
    /\ (part = "snapshot" => Snapshots!PageIsRanked)

\* A page shows of a person only what that person lets its reader see,
\* across accounts, failed reads and late answers.
OnlyEntitledSee ==
    /\ (part = "members" => Members!OptedInOnly)
    /\ (part = "scope" => Scopes!NeverAnothers)
    /\ (part = "profile" => Profile!HiddenFromStrangers)
    /\ (part = "profile" => Profile!NeverRepublished)

\* Views of the same usage agree: the worker's aggregations, the charts,
\* costs, shares, rates, periods and growth computed from them, and the
\* session views.
NumbersAgree ==
    /\ (part = "charts" => Charts!AnnotationsAddUp)
    /\ (part = "charts" => Charts!ViewsAgree)
    /\ (part = "charts" => Charts!CostsAgree)
    /\ (part = "charts" => Charts!RatesAreRates)
    /\ (part = "charts" => Charts!SharesAddUp)
    /\ (part = "charts" => Charts!PeriodIsItsDays)
    /\ (part = "charts" => Charts!GrowthSeesItsWeeks)
    /\ (part = "sessions" => Sessions!SessionViewsAgree)

\* What a page shows after its loads have overlapped is what one of them
\* answered: one snapshot on a board, each load beside the others, the
\* spinner, the scope a person chose, and the people and colours of a
\* comparison.
PagesAreTrue ==
    /\ (part = "board" => Board!OneSnapshotOnPage)
    /\ (part = "members" => Members!LoadsKeepEachOther)
    /\ (part = "members" => Members!SpinnerIsTrue)
    /\ (part = "scope" => Scopes!ChoiceComesBack)
    /\ (part = "compare" => Compare!NeverRefused)
    /\ (part = "compare" => Compare!ColorsAgree)
    /\ (part = "compare" => Compare!OfferedIsThere)

\* A season whose registration is closed keeps its rosters, and a save
\* writes only the fields its form has touched.
SeasonsKeepTheirTerms ==
    [][/\ (part = "rosters" => Rosters!ClosedStep)
       /\ (part = "catalog" => Catalog!OnlyTouchedWritten)]_allVars

\* An answer from the leaderboard cache is the one its reader is entitled to
\* at that moment.
OnlyPublicToMembers == [][part = "board" => Board!AnsweredRightly]_allVars

\* A chosen period leaves out none of its days, and a link to a tab of a
\* profile opens that tab.
AsWasAsked ==
    [][/\ (part = "sessions" => Sessions!MissesNone)
       /\ (part = "dialog" => Dialog!OpensWanted)]_allVars

==============================================================================
