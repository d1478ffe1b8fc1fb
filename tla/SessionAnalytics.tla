-------------------------- MODULE SessionAnalytics --------------------------
(* The sessions page: the rows of a user's sessions whose start lies in the  *)
(* window asked for, and what the page makes of them in the user's own time  *)
(* zone - the overview, the grid of working hours and the daily activity in  *)
(* its dimensions.  Rows are replaced by newer snapshots all the while.      *)
EXTENDS Integers, FiniteSets, FiniteSetsExt

CONSTANTS
    Key,         \* session keys
    RowChoice,   \* what a snapshot may say: source, model, start, messages
    DaySlots,    \* slots of a day
    WeekDays,    \* days of a week
    Today,       \* the local day that is today
    Zones,       \* time zones, in slots west of UTC
    MaxSnapshot  \* bound: snapshots of a session

Period == {"all", "week"}
NoRow == [snapshot |-> 0]
NoAnswer == [of |-> "none"]

VARIABLES
    records,   \* session_records of the user
    zone,      \* the time zone of the browser
    period,    \* the period that is chosen
    answer     \* what the page has: the period asked for, and the rows

analyticsVars == <<records, zone, period, answer>>

AnalyticsInit ==
    /\ records = [k \in Key |-> NoRow] /\ zone \in Zones /\ period = "all" /\ answer = NoAnswer

Has(k) == records[k] # NoRow

\* A row is replaced by a snapshot that is not older, of the same source.
Upsert(k) ==
    /\ \E r \in RowChoice, s \in 1..MaxSnapshot :
          /\ s >= records[k].snapshot
          /\ Has(k) => r.source = records[k].row.source
          /\ records' = [records EXCEPT ![k] = [snapshot |-> s, row |-> r]]
    /\ records' # records /\ UNCHANGED <<zone, period, answer>>

-----------------------------------------------------------------------------
(* The window.  Days are UTC days in the address, and the user's in the page. *)

LocalDay(at) == (at - zone + DaySlots) \div DaySlots - 1
LocalHour(at) == (at - zone + DaySlots) % DaySlots
FirstOfPeriod(p) == IF p = "all" THEN -1 ELSE Today - (Today % WeekDays)

\* Mutant: the first day is not padded.
FromFirstDay(p) == IF p = "all" THEN 0 ELSE FirstOfPeriod(p) * DaySlots

\* East of UTC the first day is the one before; it begins at midnight UTC.
PeriodToDateRange(p) ==
    IF p = "all" THEN 0 ELSE (FirstOfPeriod(p) - IF zone < 0 THEN 1 ELSE 0) * DaySlots

GetSessionRecords(p) == {k \in Key : Has(k) /\ records[k].row.at >= PeriodToDateRange(p)}

\* The page asks when a period is chosen, and shows nothing until it is answered.
SelectPeriod ==
    /\ \E p \in Period \ {period} : period' = p
    /\ answer' = NoAnswer /\ UNCHANGED <<records, zone>>

Get ==
    /\ answer' = [of |-> period, rows |-> [k \in GetSessionRecords(period) |-> records[k].row]]
    /\ answer' # answer /\ UNCHANGED <<records, zone, period>>

AnalyticsNext == (\E k \in Key : Upsert(k)) \/ SelectPeriod \/ Get

AnalyticsSpec == AnalyticsInit /\ [][AnalyticsNext]_analyticsVars

-----------------------------------------------------------------------------
(* What the page makes of the rows.                                        *)

Shown == DOMAIN answer.rows
SumBy(ks, Of(_)) == MapThenSumSet(Of, ks)
Messages(k) == answer.rows[k].total
DateOf(k) == LocalDay(answer.rows[k].at)
Dates == {DateOf(k) : k \in Shown}

Overview == [sessions |-> Cardinality(Shown), messages |-> SumBy(Shown, Messages)]

WorkingHours == [d \in 0..(WeekDays - 1), h \in 0..(DaySlots - 1) |->
    Cardinality({k \in Shown : DateOf(k) % WeekDays = d /\ LocalHour(answer.rows[k].at) = h})]

MessageDailyStats == [d \in Dates |->
    LET day == {k \in Shown : DateOf(k) = d}
    IN  [user |-> SumBy(day, LAMBDA k : answer.rows[k].user), assistant |-> SumBy(day, LAMBDA k : answer.rows[k].assistant)]]

\* The series a session belongs to; without a model it is Unknown.
SeriesOf(dim, k) ==
    IF dim = "source" THEN {answer.rows[k].source}
    ELSE {IF answer.rows[k].model = "null" THEN "Unknown" ELSE answer.rows[k].model}

ByDimension(dim) ==
    [d \in Dates, s \in UNION {SeriesOf(dim, k) : k \in Shown} |->
        SumBy({k \in Shown : DateOf(k) = d /\ s \in SeriesOf(dim, k)}, Messages)]

\* The bars: every day from the first with messages to today.
FillDateRange(ds) == IF ds = {} THEN {} ELSE Min(ds)..Max(ds \cup {Today})

-----------------------------------------------------------------------------
(* Properties.                                                             *)

\* Every view of an answer counts the same sessions and messages: the overview, the
\* grid, and the bars by source and by model; and the days of the bars have no gap up
\* to today.
SessionViewsAgree ==
    answer # NoAnswer =>
        /\ MapThenSumSet(LAMBDA c : WorkingHours[c], DOMAIN WorkingHours) = Overview.sessions
        /\ \A dim \in {"source", "model"} :
              MapThenSumSet(LAMBDA c : ByDimension(dim)[c], DOMAIN ByDimension(dim)) = Overview.messages
        /\ MapThenSumSet(LAMBDA d : MessageDailyStats[d].user + MessageDailyStats[d].assistant, Dates)
              <= Overview.messages
        /\ Dates # {} => FillDateRange(Dates) = Min(Dates)..Today

\* In every time zone, an answer misses no session that started on a day of the period
\* (date-helpers.ts:64-70).
MissesNone ==
    answer' # answer /\ answer' # NoAnswer =>
        \A k \in Key : Has(k) /\ LocalDay(records[k].row.at) >= FirstOfPeriod(period) => k \in DOMAIN answer'.rows
PeriodMissesNone == [][MissesNone]_analyticsVars
=============================================================================
