----------------------------- MODULE UsageCharts -----------------------------
(***************************************************************************)
(* How "how many tokens" is answered: the stored bases of one user and      *)
(* their annotations, the aggregations of the read worker over them, and    *)
(* what the dashboards make of its rows (display counters, costs, points,   *)
(* groups, shares and comparisons).                                         *)
(*   worker/src: the three upserts the rows come from                       *)
(*   worker-read/src/rpc/usage.ts, accounting.ts, usage-aggregation.ts      *)
(*   web/src/lib/accounting.ts, usage-transforms.ts, usage-helpers.ts,      *)
(*   cost-helpers.ts, device-helpers.ts, model-helpers.ts,                  *)
(*   usage-breakdown.ts, date-helpers.ts                                    *)
(* Time is counted in slots of DaySlots to the day and a time zone is a     *)
(* number of slots west of UTC.  Output and reasoning tokens are one        *)
(* counter, and an annotation has one group with its own basis, of natural  *)
(* numbers, so that parts() has no malformed annotation to refuse; the      *)
(* total is the sum of the counters, as the annotation's table demands.     *)
(* Averages are kept as sums and day counts, percentages in whole points,   *)
(* prices as integers that depend on the model alone.  No row is of Hermes, *)
(* whose merged cache bucket accounting.ts keeps out of discounts, unknown  *)
(* reads and cache rates.                                                   *)
(* The properties compare charts with each other and with the database.     *)
(***************************************************************************)
EXTENDS Integers, FiniteSets, FiniteSetsExt, Sequences, SequencesExt, TLC

CONSTANTS
    Keys,       \* [device, source, model, at, event]: the rows that may exist
    Uploads,    \* counters a row may be uploaded with
    DaySlots,   \* slots of a day
    MaxSeq,     \* bound: snapshot_seq of an evidence row
    Fallback,   \* model -> price of tokens without context
    Contextual, \* model -> price of a group whose provider and tier are known
    WeekDays,   \* days of a week; day numbers divisible by it begin one
    MonthDays,  \* days of a month, likewise
    Limit,      \* series of a chart before the tail becomes "other"
    LastSlot,   \* the newest slot a row may have
    Zones       \* time zones looked at

VARIABLES
    bases,      \* usage_records and usage_evidence: key -> [counts, seq]
    details     \* usage_details: key -> [basis, seq, split]

usageVars == <<bases, details>>

Zero == [input |-> 0, cached |-> 0, output |-> 0]
Plus(a, b) == [f \in DOMAIN a |-> a[f] + b[f]]
Times(n, a) == [f \in DOMAIN a |-> n * a[f]]
Total(a) == a.input + a.cached + a.output
SumOf(Of(_), S) == MapThenFoldSet(Plus, Zero, Of, LAMBDA T : CHOOSE x \in T : TRUE, S)

\* What the client may say of a basis: nothing, the reads, or reads and writes.
Unknown == -1
Splits(b) ==
    LET split(read, write) == [in |-> b.input + b.cached, out |-> b.output,
                               read |-> read, write |-> write]
    IN  {{}, {split(Unknown, Unknown)}, {split(b.cached, b.input)}}

UsageInit == bases = << >> /\ details = << >>

\* usage_records: the last upload of a row stands.
Ingest(k, c) ==
    /\ k.event = ""
    /\ bases' = (k :> [counts |-> c, seq |-> 0]) @@ bases
    /\ UNCHANGED details

\* usage_evidence: a newer snapshot replaces an older one.
IngestEvidence(k, c, seq) ==
    /\ k.event # ""
    /\ k \in DOMAIN bases => seq > bases[k].seq
    /\ bases' = (k :> [counts |-> c, seq |-> seq]) @@ bases
    /\ UNCHANGED details

\* usage_details: accepted only while the base says what the annotation is about.
Annotate(k, split) ==
    /\ k \in DOMAIN bases /\ split \in Splits(bases[k].counts)
    /\ k \in DOMAIN details => details[k].basis # bases[k].counts \/ details[k].seq # bases[k].seq
    /\ details' = (k :> [basis |-> bases[k].counts, seq |-> bases[k].seq, split |-> split])
                  @@ details
    /\ UNCHANGED bases

UsageNext ==
    \E k \in Keys :
        \/ \E c \in Uploads : Ingest(k, c)
        \/ \E c \in Uploads, seq \in 1..MaxSeq : IngestEvidence(k, c, seq)
        \/ \E split \in UNION {Splits(c) : c \in Uploads} : Annotate(k, split)

UsageSpec == UsageInit /\ [][UsageNext]_usageVars

-----------------------------------------------------------------------------
\* The time zone shift of the queries: days are counted from the one before slot 0.
LocalDay(at, tz) == (at - tz + DaySlots) \div DaySlots
LocalHour(at, tz) == (at - tz + DaySlots) % DaySlots

\* ACCOUNTED_USAGE_SQL: the bases of the half-open window, evidence of nothing left out.
InWindow(from, to) ==
    {k \in DOMAIN bases : /\ from <= k.at /\ k.at < to
                          /\ k.event = "" \/ Total(bases[k].counts) > 0}

\* accounting_json: none, or an annotation that still matches its base, or a pending one.
Note(k) ==
    IF k \notin DOMAIN details THEN {}
    ELSE LET d == details[k]
             matched == d.basis = bases[k].counts /\ d.seq = bases[k].seq
         IN  {[status |-> IF matched THEN "matched" ELSE "pending", basis |-> d.basis,
               split |-> IF matched THEN d.split ELSE {}]}

\* scaleAnnotation: one annotation stands for all the rows SQL counted under it.
ScaledSplit(c, n) == [f \in DOMAIN c |-> IF c[f] = Unknown THEN Unknown ELSE n * c[f]]
Scaled(a, n) == [status |-> a.status, basis |-> Times(n, a.basis),
                 split |-> {ScaledSplit(c, n) : c \in a.split}]

\* mergeUsageRows: SQL groups by dimensions and annotation, and the merge
\* joins what differs only in the annotation.  An annotation carries its SQL group, so
\* that equal ones of different rows stay apart, as they do in the code's arrays.
MergedRow(d, partials, group) ==
    [dim |-> d,
     counts |-> SumOf(LAMBDA p : SumOf(LAMBDA k : bases[k].counts, group[p]), partials),
     notes |-> {[note |-> Scaled(a, Cardinality(group[p])), of |-> p] :
                    <<a, p>> \in UNION {{<<a, p>> : a \in p.note} : p \in partials}}]

\* The rows of a query that groups the bases DOMAIN dim by dim.
View(dim) ==
    LET S == DOMAIN dim
        partials == {[dim |-> dim[k], note |-> Note(k)] : k \in S}
        group == [p \in partials |-> {k \in S : dim[k] = p.dim /\ Note(k) = p.note}]
    IN  {MergedRow(d, {p \in partials : p.dim = d}, group) : d \in Range(dim)}

\* usage.get with half-hours and with days, and the three device queries.
HalfHours(S) == View([k \in S |-> [at |-> k.at, source |-> k.source, model |-> k.model]])
Days(S, tz) ==
    View([k \in S |-> [date |-> LocalDay(k.at, tz), source |-> k.source, model |-> k.model]])
DeviceSummary(S) == View([k \in S |-> [device |-> k.device]])
CostDetails(S) == View([k \in S |-> [device |-> k.device, source |-> k.source, model |-> k.model]])
Timeline(S, tz) == View([k \in S |-> [date |-> LocalDay(k.at, tz), device |-> k.device]])

-----------------------------------------------------------------------------
Sum(Of(_), S) == MapThenSumSet(Of, S)
All(f) == Sum(LAMBDA x : f[x], DOMAIN f)

-----------------------------------------------------------------------------
\* accounting.ts

Minus(a, b) == [f \in DOMAIN a |-> a[f] - b[f]]

\* parts(): the matched groups, and what they leave of the row.  A row they exceed
\* is taken whole, without them.
Parts(r) ==
    LET matched == {x \in r.notes : x.note.status = "matched"}
        remaining == Minus(r.counts, SumOf(LAMBDA x : x.note.basis, matched))
    IN  IF \E f \in DOMAIN remaining : remaining[f] < 0
          THEN [groups |-> {}, remaining |-> r.counts, invalid |-> TRUE]
          ELSE [groups |-> matched, remaining |-> remaining, invalid |-> FALSE]

\* An unknown read keeps the partition the row was uploaded with.
ReadOf(x, c) == IF c.read = Unknown THEN x.note.basis.cached ELSE c.read
WriteOf(c) == IF c.write = Unknown THEN 0 ELSE c.write
ShownGroup(x) ==
    IF x.note.split = {} THEN x.note.basis
    ELSE LET c == CHOOSE s \in x.note.split : TRUE
         IN  [input |-> c.in - ReadOf(x, c), cached |-> ReadOf(x, c), output |-> c.out]

DisplayCounters(r) == LET p == Parts(r) IN Plus(p.remaining, SumOf(ShownGroup, p.groups))
AccountedTotal(r) == Total(DisplayCounters(r))

EstimateCost(c, p) == c.input * p.input + c.cached * p.cached + c.output * p.output

GroupCost(x, model) ==
    IF x.note.split = {} THEN EstimateCost(x.note.basis, Fallback[model])
    ELSE LET c == CHOOSE s \in x.note.split : TRUE
             p == Contextual[model]
             plain == Max({0, c.in - ReadOf(x, c) - WriteOf(c)})
         IN  plain * p.input + c.out * p.output + ReadOf(x, c) * p.cached + WriteOf(c) * p.write

EstimateUsageCost(r) ==
    LET p == Parts(r)
    IN  EstimateCost(p.remaining, Fallback[r.dim.model]) + Sum(LAMBDA x : GroupCost(x, r.dim.model), p.groups)

\* Nothing pending, nothing unexplained, and every read and write known.
Complete(r) ==
    /\ ~Parts(r).invalid /\ Parts(r).remaining = Zero
    /\ \A x \in r.notes : x.note.status = "matched" /\ x.note.split # {}
    /\ \A x \in r.notes : \A c \in x.note.split : c.read # Unknown /\ c.write # Unknown

\* summarizeAccounting: a positive legacy cache bucket proves its input's reads known.
InputOf(b) == b.input + b.cached
Summarize(rows) ==
    LET legacy(b) == IF b.cached > 0 THEN [read |-> b.cached, known |-> InputOf(b)]
                     ELSE [read |-> 0, known |-> 0]
        group(x) == IF x.note.split = {} THEN legacy(x.note.basis)
                    ELSE LET c == CHOOSE s \in x.note.split : TRUE
                         IN  IF c.read = Unknown THEN [read |-> 0, known |-> 0]
                             ELSE [read |-> c.read, known |-> c.in]
        of(r) == LET p == Parts(r)
                 IN  [read |-> legacy(p.remaining).read + Sum(LAMBDA x : group(x).read, p.groups),
                      known |-> legacy(p.remaining).known + Sum(LAMBDA x : group(x).known, p.groups)]
    IN  [total |-> Sum(AccountedTotal, rows),
         input |-> Sum(LAMBDA r : DisplayCounters(r).input + DisplayCounters(r).cached, rows),
         read |-> Sum(LAMBDA r : of(r).read, rows), known |-> Sum(LAMBDA r : of(r).known, rows)]

-----------------------------------------------------------------------------
\* usage-transforms.ts and usage-helpers.ts

\* A bare date is an aggregated row and is not shifted again.
DateShiftedAgain(r, tz) ==
    LocalDay(IF "date" \in DOMAIN r.dim THEN (r.dim.date - 1) * DaySlots ELSE r.dim.at, tz)
DateOf(r, tz) == IF "date" \in DOMAIN r.dim THEN r.dim.date ELSE LocalDay(r.dim.at, tz)
Dates(rows, tz) == {DateOf(r, tz) : r \in rows}
On(rows, tz, date) == {r \in rows : DateOf(r, tz) = date}

DailyPoints(rows, tz) ==
    [d \in Dates(rows, tz) |-> SumOf(DisplayCounters, On(rows, tz, d))]

DailyCosts(rows, tz) ==
    [d \in Dates(rows, tz) |-> Sum(EstimateUsageCost, On(rows, tz, d))]

\* The aggregates of the model and agent charts: counters summed, annotations joined.
Joined(dim, rows) == [dim |-> dim, counts |-> SumOf(LAMBDA r : r.counts, rows),
                      notes |-> UNION {r.notes : r \in rows}]
Grouped(rows, Key(_)) == {Joined(d, {r \in rows : Key(r) = d}) : d \in {Key(r) : r \in rows}}
ModelAggregates(rows) == Grouped(rows, LAMBDA r : [source |-> r.dim.source, model |-> r.dim.model])
GroupByDate(rows, tz) == [d \in Dates(rows, tz) |-> On(rows, tz, d)]

\* The tables of models and agents estimate each row by itself.
GroupByModel(rows) ==
    [m \in {r.dim.model : r \in rows} |-> Sum(EstimateUsageCost, {r \in rows : r.dim.model = m})]
GroupByAgent(rows) ==
    [s \in {r.dim.source : r \in rows} |-> GroupByModel({r \in rows : r.dim.source = s})]

\* toDominantSourceTimeline: the largest source of a day, the first by name among equals.
Dominant(trend) ==
    [d \in DOMAIN trend |->
        LET largest == Max({trend[d][s] : s \in DOMAIN trend[d]})
        IN  [tokens |-> largest, of |-> {s \in DOMAIN trend[d] : trend[d][s] = largest}]]

SourceTrend(rows, tz) ==
    LET sources == {r.dim.source : r \in rows}
    IN  [d \in Dates(rows, tz) |->
            [s \in sources |-> Sum(AccountedTotal, {r \in On(rows, tz, d) : r.dim.source = s})]]

\* rankUsageByRecency: by the newest week with usage, then by that week's tokens.
RankByRecency(samples) ==
    LET used == {s \in samples : s.value > 0}
        week(s) == (Max({t.date : t \in used}) - s.date) \div WeekDays
        mine(id) == {s \in used : s.id = id}
        newest(id) == Min({week(s) : s \in mine(id)})
        tokens(id) == Sum(LAMBDA s : s.value, {s \in mine(id) : week(s) = newest(id)})
        ranks == {[id |-> id, week |-> newest(id), tokens |-> tokens(id)] : id \in {s.id : s \in used}}
        before(a, b) == \/ a.week < b.week
                        \/ a.week = b.week /\ a.tokens > b.tokens
                        \/ a.week = b.week /\ a.tokens = b.tokens /\ a.id < b.id
    IN  SetToSortSeq(ranks, before)

\* toUsageBreakdown of models: the first Limit by rank, the rest under one key.
Samples(rows, tz) ==
    {[of |-> r.dim, id |-> r.dim.model, date |-> DateOf(r, tz), value |-> AccountedTotal(r)] : r \in rows}
LongTail == 0
SeriesKey(top, id) == IF id \in top THEN id ELSE LongTail
TopOf(ranked) == {ranked[i].id : i \in 1..Min({Limit, Len(ranked)})}
SeriesOf(ranked) == TopOf(ranked) \cup (IF Len(ranked) > Limit THEN {LongTail} ELSE {})
Chart(chosen, ranked, start, end) ==
    [daily |-> [d \in start..end |-> [k \in SeriesOf(ranked) |->
                   Sum(LAMBDA s : s.value, {s \in chosen : s.date = d /\ SeriesKey(TopOf(ranked), s.id) = k})]],
     series |-> SeriesOf(ranked),
     total |-> Sum(LAMBDA s : s.value, {s \in chosen : s.id \in TopOf(ranked)})
               + Sum(LAMBDA s : s.value, {s \in chosen : s.id \notin TopOf(ranked)})]
Breakdown(rows, tz, start, end) ==
    LET chosen == {s \in Samples(rows, tz) : s.date \in start..end /\ s.value > 0}
    IN  Chart(chosen, RankByRecency(chosen), start, end)

\* fillDateRange: every day from the first point to the last or to today, once.
Filled(points, first, today, zero) ==
    LET last == Max(DOMAIN points \cup {first, today})
    IN  [d \in first..last |-> IF d \in DOMAIN points THEN points[d] ELSE zero]

IsWeekend(day) == day % WeekDays \in {0, WeekDays - 1}

\* compareWeekdayWeekend: totals and calendar days; the averages are their quotients.
WeekdayWeekend(rows, start, end, tz) ==
    LET of(days) == [tokens |-> Sum(LAMBDA d : Sum(AccountedTotal, On(rows, tz, d)), days),
                     cost |-> Sum(LAMBDA d : Sum(EstimateUsageCost, On(rows, tz, d)), days),
                     days |-> Cardinality(days)]
    IN  [weekday |-> of({d \in start..end : ~IsWeekend(d)}),
         weekend |-> of({d \in start..end : IsWeekend(d)})]

\* toHourlyWeekdayWeekend, toHourlyByAgent: totals by local hour, of all the rows given.
HourlyWeekdayWeekend(rows, tz) ==
    [h \in 0..DaySlots - 1 |->
        LET at == {r \in rows : LocalHour(r.dim.at, tz) = h}
        IN  [weekday |-> Sum(AccountedTotal, {r \in at : ~IsWeekend(DateOf(r, tz))}),
             weekend |-> Sum(AccountedTotal, {r \in at : IsWeekend(DateOf(r, tz))})]]

\* toHourlyByModel, toHourlyByAgent, toHourlyByDevice: the same by another key.  A row has
\* no device; it is given the first one that used its source and model.
Hourly(rows, tz, keys, Key(_)) ==
    [h \in 0..DaySlots - 1 |-> [k \in keys |->
        Sum(AccountedTotal, {r \in rows : LocalHour(r.dim.at, tz) = h /\ Key(r) = k})]]
HourlyByAgent(rows, tz) ==
    Hourly(rows, tz, {r.dim.source : r \in rows}, LAMBDA r : r.dim.source)
TopModels(rows, tz) == TopOf(RankByRecency(Samples(rows, tz)))
HourlyByModel(rows, tz) ==
    LET top == TopModels(rows, tz)
    IN  Hourly(rows, tz, top \cup {LongTail}, LAMBDA r : SeriesKey(top, r.dim.model))
FirstDevice(r, deviceDetails) ==
    LET same == {d \in deviceDetails : d.dim.source = r.dim.source /\ d.dim.model = r.dim.model}
    IN  IF same = {} THEN "unknown" ELSE (CHOOSE d \in same : TRUE).dim.device
HourlyByDevice(rows, deviceDetails, tz) ==
    Hourly(rows, tz, {d.dim.device : d \in deviceDetails} \cup {"unknown"},
           LAMBDA r : FirstDevice(r, deviceDetails))

\* aggregateHourlyTokens and detectPeakHours add up the raw totals.
AggregateHourlyTokens(rows, tz) ==
    [h \in 0..DaySlots - 1 |-> Sum(LAMBDA r : Total(r.counts), {r \in rows : LocalHour(r.dim.at, tz) = h})]
PeakSlots(rows, tz) ==
    LET slot(r) == <<DateOf(r, tz) % WeekDays, LocalHour(r.dim.at, tz)>>
    IN  [p \in {slot(r) : r \in rows} |-> Sum(LAMBDA r : Total(r.counts), {r \in rows : slot(r) = p})]

\* toModelEvolutionPoints: the newest Limit models of a day, the others together.
ModelEvolution(rows, tz) ==
    LET top == TopModels(rows, tz)
    IN  [d \in Dates(rows, tz) |-> [k \in top \cup {LongTail} |->
            Sum(AccountedTotal, {r \in On(rows, tz, d) : SeriesKey(top, r.dim.model) = k})]]

\* computeWoWGrowth: this week to today, the week before, and that week to the same day.
Growth(rows, today, tz, length) ==
    LET start == today - (today % length)
        in(days) == Sum(AccountedTotal, {r \in rows : DateOf(r, tz) \in days})
    IN  [current |-> in(start..today), previous |-> in(start - length..start - 1),
         sameDay |-> in(start - length..today - length)]
WoWGrowth(rows, today, tz) == Growth(rows, today, tz, WeekDays)
MoMGrowth(rows, today, tz) == Growth(rows, today, tz, MonthDays)

\* roundPercentages: floors first, then one point each by the largest fraction.
RoundPercentages(values) ==
    LET total == Sum(LAMBDA i : values[i], DOMAIN values)
        share(i) == (100 * values[i]) \div total
        fraction(i) == (100 * values[i]) % total
        missing == 100 - Sum(share, DOMAIN values)
        ahead(i) == {j \in DOMAIN values : fraction(j) > fraction(i) \/ (fraction(j) = fraction(i) /\ j < i)}
    IN  [i \in DOMAIN values |-> share(i) + (IF Cardinality(ahead(i)) < missing THEN 1 ELSE 0)]

\* toDeviceSharePoints: one row a device and date; devices in a fixed order.
DeviceShares(rows, order) ==
    LET value(date, device) ==
            Sum(AccountedTotal, {r \in rows : r.dim.date = date /\ r.dim.device = device})
        values(date) == [i \in DOMAIN order |-> value(date, order[i])]
    IN  [date \in {r.dim.date : r \in rows} |->
            IF \A i \in DOMAIN order : values(date)[i] = 0 THEN values(date)
            ELSE RoundPercentages(values(date))]

\* toDeviceTrendPoints: a later row of the same date and device replaces an earlier one.
DeviceTrend(rows) ==
    LET devices == {r.dim.device : r \in rows}
        last(date, device) == {r \in rows : r.dim.date = date /\ r.dim.device = device}
    IN  [date \in {r.dim.date : r \in rows} |-> [d \in devices |->
            IF last(date, d) = {} THEN 0 ELSE AccountedTotal(CHOOSE r \in last(date, d) : TRUE)]]

\* Of one device's details.
DeviceBreakdown(details_, Key(_)) ==
    [k \in {Key(r) : r \in details_} |-> SumOf(DisplayCounters, {r \in details_ : Key(r) = k})]
ToDeviceAgentBreakdown(details_) == DeviceBreakdown(details_, LAMBDA r : r.dim.source)
ToDeviceModelBreakdown(details_) == DeviceBreakdown(details_, LAMBDA r : r.dim.model)

-----------------------------------------------------------------------------
\* The windows the pages ask for.

\* periodToUtcRange: local days first..last in UTC.
UtcRange(first, last, tz) == InWindow((first - 1) * DaySlots + tz, last * DaySlots + tz)

\* useUsageData with `days`: from the beginning of a UTC date to now.
Recent(days, now) == InWindow((LocalDay(now, 0) - 1 - days) * DaySlots, now)

AllDays == LocalDay(0, Max(Zones))..LocalDay(LastSlot, Min(Zones))
Everything == InWindow(0, LastSlot + 1)
StoredTotal(S) == Sum(LAMBDA k : Total(bases[k].counts), S)

-----------------------------------------------------------------------------
\* Every merged row's matched annotations cover exactly the stored rows they were written
\* for: nothing is left unexplained and nothing is explained twice, in any aggregation.
AnnotationsAddUp ==
    \A tz \in Zones :
        LET explained(S) == SumOf(LAMBDA k : bases[k].counts,
                                  {k \in S : \E a \in Note(k) : a.status = "matched"})
            left(rows) == SumOf(LAMBDA r : Parts(r).remaining, rows)
            covers(S, rows) == Plus(left(rows), explained(S)) = SumOf(LAMBDA k : bases[k].counts, S)
            S == Everything
        IN  /\ \A r \in Days(S, tz) \cup DeviceSummary(S) \cup Timeline(S, tz) : ~Parts(r).invalid
            /\ covers(S, Days(S, tz)) /\ covers(S, DeviceSummary(S)) /\ covers(S, Timeline(S, tz))

\* The days and half-hours of one window have the total the database holds.
DaysHold(days, halfHours, trend, hourly, tz, is(_)) ==
    /\ \A d \in AllDays : Sum(AccountedTotal, On(days, tz, d)) = Sum(AccountedTotal, On(halfHours, tz, d))
    /\ DailyPoints(days, tz) = DailyPoints(halfHours, tz)
    /\ is(Sum(LAMBDA d : All(trend[d]), DOMAIN trend))
    /\ is(Sum(LAMBDA h : All(hourly[h]), DOMAIN hourly))
    /\ All(AggregateHourlyTokens(halfHours, tz)) = All(PeakSlots(halfHours, tz))
    /\ is(All(AggregateHourlyTokens(halfHours, tz)))

\* The daily, hourly, device and model numbers of one window have the same total, which is
\* what the database holds; an annotation moves tokens between counters and never adds any.
ViewsAgree ==
    LET S == Everything
        is(n) == n = StoredTotal(DOMAIN bases)
    IN  /\ is(Sum(AccountedTotal, HalfHours(S)))
        /\ is(Sum(AccountedTotal, DeviceSummary(S))) /\ is(Sum(AccountedTotal, CostDetails(S)))
        /\ \A tz \in Zones :
              DaysHold(Days(S, tz), HalfHours(S), DeviceTrend(Timeline(S, tz)),
                       HourlyByDevice(HalfHours(S), CostDetails(S), tz), tz, is)
        /\ \A device \in {k.device : k \in S} :
              LET mine == {r \in CostDetails(S) : r.dim.device = device}
                  agents == ToDeviceAgentBreakdown(mine)
                  models == ToDeviceModelBreakdown(mine)
              IN  SumOf(LAMBDA a : agents[a], DOMAIN agents) = SumOf(LAMBDA m : models[m], DOMAIN models)

\* Every table and chart made of the rows of the days costs what was spent.
CostsHold(days, aggregates, agents, tz, spent) ==
    /\ All(DailyCosts(days, tz)) = spent
    /\ Sum(EstimateUsageCost, aggregates) = spent
    /\ All(GroupByModel(days)) = spent
    /\ Sum(LAMBDA s : All(agents[s]), DOMAIN agents) = spent
    /\ (\A r \in days : Complete(r)) <=> (\A m \in aggregates : Complete(m))

\* The cost card, the daily cost chart and the device costs are the same money, although
\* each sums other aggregates; and the cards call it complete exactly when the rows do.
CostsAgree ==
    LET S == Everything
        spent == Sum(EstimateUsageCost, HalfHours(S))
        hold(days, tz) == CostsHold(days, ModelAggregates(days), GroupByAgent(days), tz, spent)
    IN  /\ Sum(EstimateUsageCost, CostDetails(S)) = spent
        /\ \A tz \in Zones : hold(Days(S, tz), tz)

\* Cached reads are part of the input whose reads are known, and that is part of the input:
\* no cache rate and no coverage exceeds 100 per cent.
RatesAreRates ==
    \A tz \in Zones : LET s == Summarize(Days(Everything, tz))
                      IN  s.read <= s.known /\ s.known <= s.input /\ s.total = StoredTotal(Everything)

\* Chart, hours, and trends of a period against the points of its days.
ChartHolds(chart, points, total) ==
    /\ chart.total = total
    /\ \A d \in DOMAIN points : Sum(LAMBDA k : chart.daily[d][k], chart.series) = Total(points[d])

WeekHolds(split, hours, agents, models, total) ==
    /\ split.weekday.tokens + split.weekend.tokens = total
    /\ Sum(LAMBDA h : hours[h].weekday, DOMAIN hours) = split.weekday.tokens
    /\ Sum(LAMBDA h : hours[h].weekend, DOMAIN hours) = split.weekend.tokens
    /\ \A h \in DOMAIN hours : /\ All(agents[h]) = hours[h].weekday + hours[h].weekend
                               /\ All(models[h]) = All(agents[h])

TrendsHold(trend, evolution, byDate, points) ==
    \A d \in DOMAIN trend :
        /\ All(evolution[d]) = Total(points[d]) /\ All(trend[d]) = Total(points[d])
        /\ Dominant(trend)[d].tokens <= Total(points[d])
        /\ Sum(AccountedTotal, byDate[d]) = Total(points[d])

PeriodHolds(total, rows, halfHours, points, first, last, tz) ==
    /\ DOMAIN points = first..last
    /\ SumOf(LAMBDA d : points[d], DOMAIN points) = SumOf(DisplayCounters, rows)
    /\ ChartHolds(Breakdown(rows, tz, first, last), points, total)
    /\ LET split == WeekdayWeekend(halfHours, first, last, tz)
       IN  /\ split.weekday.days + split.weekend.days = last - first + 1
           /\ WeekHolds(split, HourlyWeekdayWeekend(halfHours, tz), HourlyByAgent(halfHours, tz),
                        HourlyByModel(halfHours, tz), total)
    /\ TrendsHold(SourceTrend(rows, tz), ModelEvolution(rows, tz), GroupByDate(rows, tz), points)

\* A period's chart has exactly its local days, and together they hold what the window's
\* query returned; the long tail is in it; weekdays and weekends share it out.
PeriodIsItsDays ==
    \A tz \in Zones, first \in AllDays :
        LET last == first + 1
            S == UtcRange(first, last, tz)
            hold(rows) == PeriodHolds(StoredTotal(S), rows, HalfHours(S),
                                      Filled(DailyPoints(rows, tz), first, last, Zero), first, last, tz)
        IN  hold(Days(S, tz))

\* The week-over-week card asks for two weeks of UTC dates back from now, the month's
\* for two months, and that is enough: each of its numbers is what its own local days hold.
GrowthSeesItsWeeks ==
    \A tz \in Zones, now \in 0..LastSlot + 1 :
        LET today == LocalDay(now, tz)
            seen == {k \in Everything : k.at < now}
            held(days) == StoredTotal({k \in seen : LocalDay(k.at, tz) \in days})
            right(g, start, length) ==
                /\ g.current = held(start..today)
                /\ g.previous = held(start - length..start - 1)
                /\ g.sameDay = held(start - length..start - length + (today - start))
        IN  /\ right(WoWGrowth(HalfHours(Recent(2 * WeekDays, now)), today, tz),
                     today - (today % WeekDays), WeekDays)
            /\ right(MoMGrowth(HalfHours(Recent(2 * MonthDays, now)), today, tz),
                     today - (today % MonthDays), MonthDays)

\* The shares of a day with usage are whole points that add up to a hundred.
SharesAddUp ==
    \A tz \in Zones :
        LET shares == DeviceShares(Timeline(Everything, tz), SetToSeq({k.device : k \in Keys}))
        IN  \A d \in DOMAIN shares :
               Sum(LAMBDA i : shares[d][i], DOMAIN shares[d]) \in {0, 100}
=============================================================================
