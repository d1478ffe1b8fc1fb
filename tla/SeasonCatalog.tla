--------------------------- MODULE SeasonCatalog ---------------------------
(* One season as administrators create and edit it from a list that        *)
(* worker-read caches in KV: the table, the cached list with its           *)
(* cache-aside reads, the forms opened on a row of that list, and the      *)
(* requests that validate, write, back-fill rosters and drop the cached    *)
(* list in separate calls. Teams and rosters themselves: SeasonRosters.    *)
EXTENDS Integers, FiniteSets

CONSTANTS
    Admin,
    LastDay,        \* dates are 0..LastDay
    First,          \* the season that exists at first, or Null
    Wanted,         \* the rows an administrator may type into a form
    MaxSaves, MaxLists, MaxFailures,
    Miss, Null

VARIABLES
    today,
    season,         \* the row of `seasons`, or Null
    list,           \* seasons:list in KV: [row], or Null
    reader,         \* a list request: Null, Miss, or the [row] it read
    shown,          \* the row of an admin's page, or Null
    form,           \* an open form: [from, want]
    req,            \* a request at the server
    owed,           \* rosters were opened on a running season and not back-filled yet
    saves, lists, failures,
    raced,          \* the cached list was stored after the invalidation meant for it
    failed,         \* a request ended between its write and its last step
    crossed         \* two writing requests ran at once

catalogVars == <<today, season, list, reader, shown, form, req, owed, saves, lists, failures,
                 raced, failed, crossed>>
Field == {"start", "end", "roster"}

IsUpcoming(row) == today < row.start
IsActive(row) == row.start <= today /\ today <= row.end

CatalogInit ==
    /\ today = 0 /\ season \in {Null, First} /\ list = Null
    /\ reader = [a \in Admin |-> Null] /\ shown = [a \in Admin |-> Null]
    /\ form = [a \in Admin |-> Null] /\ req = [a \in Admin |-> Null]
    /\ owed = FALSE /\ saves = 0 /\ lists = 0 /\ failures = 0
    /\ raced = FALSE /\ failed = FALSE /\ crossed = FALSE

world == <<today, saves, failures, owed, failed, crossed>>
Pending == {a \in Admin : req[a] # Null /\ req[a].pc \in {"backfill", "invalidate"}}

NextDay ==
    /\ today < LastDay /\ today' = today + 1
    /\ UNCHANGED <<season, list, reader, shown, form, req, owed, saves, lists, failures, raced, failed, crossed>>

-----------------------------------------------------------------------------
(* The list: withCache around SELECT ... FROM seasons. *)

CacheHit(a) ==
    /\ reader[a] = Null /\ list # Null /\ lists < MaxLists
    /\ shown' = [shown EXCEPT ![a] = list.row] /\ lists' = lists + 1
    /\ UNCHANGED <<world, season, list, reader, form, req, raced>>

CacheMiss(a) ==
    /\ reader[a] = Null /\ list = Null /\ lists < MaxLists
    /\ reader' = [reader EXCEPT ![a] = Miss] /\ lists' = lists + 1
    /\ UNCHANGED <<world, season, list, shown, form, req, raced>>

FetchList(a) ==
    /\ reader[a] = Miss
    /\ reader' = [reader EXCEPT ![a] = [row |-> season]]
    /\ UNCHANGED <<world, season, list, shown, form, req, lists, raced>>

\* A failed KV write is logged and the rows are answered all the same.
StoreList(a) ==
    /\ reader[a] \notin {Null, Miss}
    /\ \/ /\ list' = reader[a]
          /\ raced' = (reader[a].row # season /\ Pending = {})
          /\ UNCHANGED failures
       \/ /\ failures < MaxFailures /\ failures' = failures + 1
          /\ UNCHANGED <<list, raced>>
    /\ shown' = [shown EXCEPT ![a] = reader[a].row]
    /\ reader' = [reader EXCEPT ![a] = Null]
    /\ UNCHANGED <<today, saves, owed, failed, crossed, season, form, req, lists>>

\* Ten minutes pass, or an administrator clears the cache.
DropList ==
    /\ list # Null
    /\ list' = Null /\ raced' = FALSE
    /\ UNCHANGED <<world, season, reader, shown, form, req, lists>>

-----------------------------------------------------------------------------
(* The forms of the admin page. *)

CreateSeasonForm(a) ==
    /\ form[a] = Null /\ saves < MaxSaves
    /\ \E want \in Wanted : form' = [form EXCEPT ![a] = [from |-> Null, want |-> want]]
    /\ UNCHANGED <<world, season, list, reader, shown, req, lists, raced>>

\* Dates are locked unless the row's season is still to come.
EditSeasonRow(a) ==
    /\ form[a] = Null /\ shown[a] # Null /\ saves < MaxSaves
    /\ \E want \in Wanted \ {shown[a]} :
          /\ ~IsUpcoming(shown[a]) => want.start = shown[a].start /\ want.end = shown[a].end
          /\ form' = [form EXCEPT ![a] = [from |-> shown[a], want |-> want]]
    /\ UNCHANGED <<world, season, list, reader, shown, req, lists, raced>>

WholeForm(from, want) == Field
Payload(from, want) == {f \in Field : want[f] # from[f]}

Submit(a) ==
    /\ form[a] # Null /\ req[a] = Null
    /\ req' = [req EXCEPT ![a] =
          [pc |-> "read", want |-> form[a].want, from |-> form[a].from, seen |-> Null,
           fields |-> IF form[a].from = Null THEN Field ELSE Payload(form[a].from, form[a].want)]]
    /\ saves' = saves + 1
    /\ crossed' = (crossed \/ \E b \in Admin : req[b] # Null)
    /\ UNCHANGED <<today, failures, owed, failed, season, list, reader, shown, form, lists, raced>>

-----------------------------------------------------------------------------
(* POST and PATCH. *)

Merged(row, want, fields) == [f \in Field |-> IF f \in fields THEN want[f] ELSE row[f]]

InOrder(row) == row.start <= row.end

End(a) == req' = [req EXCEPT ![a] = Null] /\ form' = [form EXCEPT ![a] = Null]

\* A taken slug, an unknown season, dates of a season under way, and dates
\* in the wrong order are refused.
Refuse(a) ==
    /\ req[a] # Null /\ req[a].pc = "read"
    /\ LET r == req[a] IN
       IF r.from = Null THEN season # Null \/ ~InOrder(r.want)
       ELSE \/ season = Null
            \/ r.fields \cap {"start", "end"} # {} /\ ~IsUpcoming(season)
            \/ ~InOrder(Merged(season, r.want, r.fields))
    /\ End(a)
    /\ UNCHANGED <<world, season, list, reader, shown, lists, raced>>

Validate(a) ==
    /\ req[a] # Null /\ req[a].pc = "read"
    /\ LET r == req[a] IN
       IF r.from = Null THEN season = Null /\ InOrder(r.want)
       ELSE /\ season # Null
            /\ r.fields \cap {"start", "end"} # {} => IsUpcoming(season)
            /\ InOrder(Merged(season, r.want, r.fields))
    /\ req' = [req EXCEPT ![a].pc = "write", ![a].seen = season]
    /\ UNCHANGED <<world, season, list, reader, shown, form, lists, raced>>

\* The slug is UNIQUE: of two creations only the first is inserted.
Insert(a) ==
    /\ req[a] # Null /\ req[a].pc = "write" /\ req[a].from = Null
    /\ IF season = Null
       THEN /\ season' = req[a].want /\ req' = [req EXCEPT ![a].pc = "invalidate"]
            /\ UNCHANGED form
       ELSE End(a) /\ UNCHANGED season
    /\ UNCHANGED <<world, list, reader, shown, lists, raced>>

\* Whether the write opens the rosters of a running season: judged by the
\* flag as it was read and by the dates as they will be.
Opens(seen, want, fields) ==
    /\ ~seen.roster /\ "roster" \in fields /\ want.roster
    /\ IsActive(Merged(seen, want, fields))

Update(a) ==
    /\ req[a] # Null /\ req[a].pc = "write" /\ req[a].from # Null
    /\ LET r == req[a]
           row == Merged(season, r.want, r.fields)
       IN  /\ season' = row
           /\ owed' = (row.roster /\ (owed \/ (~season.roster /\ IsActive(row))))
           /\ req' = [req EXCEPT ![a].pc = IF Opens(r.seen, r.want, r.fields)
                                           THEN "backfill" ELSE "invalidate"]
    /\ UNCHANGED <<today, saves, failures, failed, crossed, list, reader, shown, form, lists, raced>>

\* syncAllRostersForSeason; when it throws the request ends with the flag
\* set, nothing back-filled and the list still cached.
Backfill(a) ==
    /\ req[a] # Null /\ req[a].pc = "backfill"
    /\ \/ /\ owed' = FALSE /\ req' = [req EXCEPT ![a].pc = "invalidate"]
          /\ UNCHANGED <<failures, failed, form>>
       \/ /\ failures < MaxFailures /\ failures' = failures + 1
          /\ failed' = TRUE /\ End(a)
          /\ UNCHANGED owed
    /\ UNCHANGED <<today, saves, crossed, season, list, reader, shown, lists, raced>>

\* The administrator's own button: POST .../sync-rosters.
SyncRosters ==
    /\ season # Null /\ IsActive(season) /\ season.roster
    /\ owed' = FALSE
    /\ UNCHANGED <<today, saves, failures, failed, crossed, season, list, reader, shown, form, req, lists, raced>>

Dropped(l) == Null

\* The last call of both; the form closes and the page asks for the list again.
InvalidateCacheKey(a) ==
    /\ req[a] # Null /\ req[a].pc = "invalidate"
    /\ list' = Dropped(list) /\ raced' = FALSE
    /\ End(a)
    /\ UNCHANGED <<world, season, reader, shown, lists>>

CatalogNext ==
    \/ NextDay \/ DropList \/ SyncRosters
    \/ \E a \in Admin :
          \/ CacheHit(a) \/ CacheMiss(a) \/ FetchList(a) \/ StoreList(a)
          \/ CreateSeasonForm(a) \/ EditSeasonRow(a) \/ Submit(a)
          \/ Refuse(a) \/ Validate(a) \/ Insert(a) \/ Update(a) \/ Backfill(a)
          \/ InvalidateCacheKey(a)

CatalogSpec == CatalogInit /\ [][CatalogNext]_catalogVars

-----------------------------------------------------------------------------
\* A cached list older than the table is about to be dropped, unless it was
\* read before the change and stored after the invalidation, or the request
\* that changed the table failed half way.
StaleListIsDropped ==
    (list # Null /\ list.row # season) => Pending # {} \/ raced \/ failed

\* A season never ends before it starts, whatever is edited field by field;
\* only two requests validated against the same row can cross its dates.
DatesInOrder == (season # Null /\ ~crossed) => season.start <= season.end

\* Whoever opens the rosters of a running season, or makes a season with
\* open rosters start by moving its dates, leaves no back-fill owed, unless
\* the back-fill failed or two requests crossed.
OpenedRostersAreFilled ==
    owed => failed \/ crossed \/ \E a \in Admin : req[a] # Null /\ req[a].pc = "backfill"

\* A form opened on an old row never reverts what someone else changed
\* since: a save changes only the fields its own administrator changed.
OnlyTouchedWritten ==
    \A a \in Admin :
        (req[a] # Null /\ req[a].pc = "write" /\ req'[a] # req[a] /\ season # Null /\ season' # season)
            => \A f \in Field : season'[f] # season[f] => req[a].want[f] # req[a].from[f]
UntouchedFieldsKept == [][OnlyTouchedWritten]_catalogVars
=============================================================================
