---------------------------- MODULE PricingSync ----------------------------
(* The model prices: worker-read merges a bundled baseline with two        *)
(* upstream price lists into two KV keys, on a schedule and on an admin's  *)
(* request; the web app projects the stored entries into the table every   *)
(* cost is computed with, and a browser keeps them in a page-wide cache.   *)
(* A model id is a provider and a name ("" for a bare name); a price is    *)
(* one number, 0 for free and Bad for one the parsers refuse.              *)
EXTENDS Integers, Sequences, SequencesExt, FiniteSets, FiniteSetsExt

CONSTANTS
    Run,        \* concurrent runs of syncDynamicPricing
    Baseline,   \* the bundled entries: a set of [name, price], bare names
    Feeds,      \* what each upstream may answer: source -> sequence of responses
    Malformed,  \* a 200 response that is not the expected JSON
    MaxRuns, MaxPublishes, MaxFaults, MaxLoads,
    Null

VARIABLES
    upstream,    \* what each source would answer now
    dynamic,     \* pricing:dynamic, with the run that wrote it
    meta,        \* pricing:dynamic:meta
    last,        \* pricing:last-fetch:<source>
    run,         \* the runs in progress
    started, published, priceFailures, writes,
    overlapped,  \* two runs were in progress at once
    metaLost,    \* a run ended without its meta
    dropped,     \* sources whose last fetch expired or was not stored
    browser      \* the page-wide cache of use-pricing-entries

pricingVars == <<upstream, dynamic, meta, last, run, started, published, priceFailures, writes,
                 overlapped, metaLost, dropped, browser>>

Source == {"openrouter", "models.dev"}
Bad == -1
Pending == -1      \* a load that has not read the store yet
DefaultPrice == 3        \* the static prefix, source and fallback prices

-----------------------------------------------------------------------------
(* Parsing and merging. *)

Entry(e, origin, route) ==
    [prov |-> e.prov, name |-> e.name, price |-> e.price, origin |-> origin, route |-> route,
     alias |-> FALSE, routes |-> {}]

BaselineEntries == {Entry([prov |-> "", name |-> b.name, price |-> b.price], "baseline", Null) : b \in Baseline}

ParseOpenRouter(json) ==
    IF json \in {Null, Malformed} THEN <<>>
    ELSE LET valid == SelectSeq(json, LAMBDA e : e.price # Bad)
         IN [i \in DOMAIN valid |-> Entry(valid[i], "openrouter", "openrouter")]

ParseModelsDev(json) ==
    IF json \in {Null, Malformed} THEN <<>>
    ELSE LET valid == SelectSeq(json, LAMBDA e : e.price # Bad)
         IN [i \in DOMAIN valid |-> Entry(valid[i], "models.dev", "direct")]

ShouldSkipForZeroPrice(existing, incoming) == incoming.price = 0 /\ existing.price > 0

\* The rates of the displaced entries that are for another route than the
\* new one's: an older copy must not shadow the fresh rate.
AlternateRoutes(prior, e) ==
    {r \in UNION {x.routes : x \in prior} : r.route # e.route}
        \cup {[route |-> x.route, price |-> x.price] : x \in {y \in prior : y.route \notin {Null, e.route}}}

PutEntry(byModel, e) ==
    LET exact == {x \in byModel : x.prov = e.prov /\ x.name = e.name}
        displaced == IF exact # {} \/ e.prov = "" THEN {}
                     ELSE {x \in byModel : x.prov = "" /\ x.name = e.name /\ x.origin = "baseline"}
        prior == exact \cup displaced
    IN  IF \E x \in prior : ShouldSkipForZeroPrice(x, e) THEN byModel
        ELSE (byModel \ prior) \cup {[e EXCEPT !.routes = AlternateRoutes(prior, e)]}

ApplyLayer(byModel, layer) == FoldLeft(PutEntry, byModel, layer)

\* A bare name becomes an alias of the one entry that carries it.
WithAliases(byModel) ==
    {[e EXCEPT !.alias = /\ e.prov # ""
                         /\ \A x \in byModel \ {e} : x.name # e.name] : e \in byModel}

MergePricingSources(or, md) ==
    WithAliases(ApplyLayer(ApplyLayer(BaselineEntries, ParseOpenRouter(or)), ParseModelsDev(md)))

-----------------------------------------------------------------------------
(* The table the costs are computed with. *)

Original(entries, prov, name) ==
    {e \in entries : e.name = name /\ (e.prov = prov \/ (prov = "" /\ e.alias))}
MostExpensive(entries) == Max({e.price : e \in entries})

\* models[key] of buildPricingMap: original keys first, then names derived
\* by dropping the provider; the most expensive entry wins a collision.
Keyed(entries, prov, name) ==
    IF Original(entries, prov, name) # {} THEN {MostExpensive(Original(entries, prov, name))}
    ELSE IF prov = "" /\ \E e \in entries : e.name = name
         THEN {MostExpensive({e \in entries : e.name = name})} ELSE {}

LookupPricing(entries, prov, name) ==
    LET hits == <<Keyed(entries, prov, name), Keyed(entries, "", name), {DefaultPrice}>>
        first == Min({i \in DOMAIN hits : hits[i] # {}})
    IN  CHOOSE p \in hits[first] : TRUE

GetDynamicPricing == IF dynamic = Null THEN BaselineEntries ELSE dynamic.entries

-----------------------------------------------------------------------------
(* One run of syncDynamicPricing. *)

NoRun == [pc |-> "idle"]
Active == {r \in Run : run[r] # NoRun}

PricingInit ==
    /\ upstream = [s \in Source |-> Feeds[s][1]]
    /\ dynamic = Null /\ meta = Null
    /\ last = [s \in Source |-> Null]
    /\ run = [r \in Run |-> NoRun]
    /\ started = 0 /\ published = 0 /\ priceFailures = 0 /\ writes = 0
    /\ overlapped = FALSE /\ metaLost = FALSE /\ dropped = {}
    /\ browser = [data |-> Null, fresh |-> FALSE, flight |-> Null, wanted |-> 0, raced |-> FALSE, loads |-> 0]

\* The world: an upstream changes its list, a last fetch reaches its seven days.
Publish(s) ==
    /\ published < MaxPublishes
    /\ \E i \in 2..Len(Feeds[s]) : upstream' = [upstream EXCEPT ![s] = Feeds[s][i]]
    /\ published' = published + 1
    /\ UNCHANGED <<dynamic, meta, last, run, started, priceFailures, writes, overlapped, metaLost, dropped, browser>>

Fault == priceFailures < MaxFaults /\ priceFailures' = priceFailures + 1

Expire(s) ==
    /\ last[s] # Null /\ Fault
    /\ last' = [last EXCEPT ![s] = Null]
    /\ dropped' = dropped \cup {s}
    /\ UNCHANGED <<upstream, dynamic, meta, run, started, published, writes, overlapped, metaLost, browser>>

\* The cron fetches and falls back; "Force sync" wants fresh data only; a
\* cheap rebuild merges what was fetched last.
Begin(r, mode) ==
    /\ run[r] = NoRun /\ started < MaxRuns
    /\ run' = [run EXCEPT ![r] = [pc |-> "resolve", mode |-> mode, at |-> started + 1,
                                  got |-> [s \in Source |-> Null], left |-> Source, errors |-> {}]]
    /\ started' = started + 1
    /\ overlapped' = (overlapped \/ Active # {})
    /\ UNCHANGED <<upstream, dynamic, meta, last, published, priceFailures, writes, metaLost, dropped, browser>>

Advance(r, s, json, errors) ==
    LET left == run[r].left \ {s}
    IN  run' = [run EXCEPT ![r].got[s] = json, ![r].left = left, ![r].errors = @ \cup errors,
                           ![r].pc = IF left = {} THEN "entries" ELSE "resolve"]

FallBack(mode, s) == IF mode = "force" THEN Null ELSE last[s]

\* A cheap rebuild reads the two last lists in requests of their own.
ResolveCached(r, s) ==
    /\ run[r].pc = "resolve" /\ s \in run[r].left /\ run[r].mode = "cached"
    /\ Advance(r, s, last[s], {})
    /\ UNCHANGED <<upstream, dynamic, meta, last, started, published, priceFailures, writes, overlapped, metaLost, dropped, browser>>

\* The fetched JSON is kept for a later failure; a failed KV write of it is
\* logged only.
ResolveFetched(r, s) ==
    /\ run[r].pc = "resolve" /\ s \in run[r].left /\ run[r].mode # "cached"
    /\ Advance(r, s, upstream[s], {})
    /\ \/ /\ last' = [last EXCEPT ![s] = upstream[s]]
          /\ dropped' = dropped \ {s}
          /\ UNCHANGED priceFailures
       \/ /\ Fault /\ dropped' = dropped \cup {s}
          /\ UNCHANGED last
    /\ UNCHANGED <<upstream, dynamic, meta, started, published, writes, overlapped, metaLost, browser>>

ResolveFailed(r, s) ==
    /\ run[r].pc = "resolve" /\ s \in run[r].left /\ run[r].mode # "cached"
    /\ Fault
    /\ Advance(r, s, FallBack(run[r].mode, s), {s})
    /\ UNCHANGED <<upstream, dynamic, meta, last, started, published, writes, overlapped, metaLost, dropped, browser>>

WriteDynamic(r) ==
    /\ run[r].pc = "entries"
    /\ \/ /\ dynamic' = [entries |-> MergePricingSources(run[r].got["openrouter"], run[r].got["models.dev"]),
                         at |-> run[r].at, mode |-> run[r].mode, got |-> run[r].got, stamp |-> writes + 1]
          /\ writes' = writes + 1
          /\ run' = [run EXCEPT ![r].pc = "meta"]
          /\ UNCHANGED priceFailures
       \/ /\ Fault
          /\ run' = [run EXCEPT ![r].pc = "meta", ![r].errors = @ \cup {"kv"}]
          /\ UNCHANGED <<dynamic, writes>>
    /\ UNCHANGED <<upstream, meta, last, started, published, overlapped, metaLost, dropped, browser>>

BuildMeta(r) == [at |-> run[r].at, errors |-> run[r].errors]

\* What a page does once the answer of a forced run arrives: the cached
\* entries are out of date, and a load starts unless one is under way.
InvalidateLazily(b, stamp) ==
    [b EXCEPT !.wanted = stamp, !.raced = (b.flight # Null),
              !.flight = IF b.flight = Null THEN Pending ELSE b.flight,
              !.loads = IF b.flight = Null THEN @ + 1 ELSE @]
InvalidatePrices(b, stamp) ==
    [b EXCEPT !.fresh = FALSE, !.wanted = stamp, !.raced = (b.flight # Null),
              !.flight = IF b.flight = Null THEN Pending ELSE b.flight,
              !.loads = IF b.flight = Null THEN @ + 1 ELSE @]

WriteMeta(r) ==
    /\ run[r].pc = "meta"
    /\ \/ meta' = BuildMeta(r) /\ metaLost' = FALSE /\ UNCHANGED priceFailures
       \/ Fault /\ metaLost' = TRUE /\ UNCHANGED meta
    /\ run' = [run EXCEPT ![r] = NoRun]
    /\ browser' \in {browser} \cup (IF run[r].mode = "force" /\ browser.loads < MaxLoads
                                    THEN {InvalidatePrices(browser, writes)} ELSE {})
    /\ UNCHANGED <<upstream, dynamic, last, started, published, writes, overlapped, dropped>>

\* The Worker is stopped between two awaits.
Die(r) ==
    /\ run[r] # NoRun /\ Fault
    /\ metaLost' = (metaLost \/ run[r].pc = "meta")
    /\ run' = [run EXCEPT ![r] = NoRun]
    /\ UNCHANGED <<upstream, dynamic, meta, last, started, published, writes, overlapped, dropped, browser>>

-----------------------------------------------------------------------------
(* The browser's cache of /api/pricing/models; the meta it shows beside the *)
(* entries is left out.                                                    *)

browserOnly == <<upstream, dynamic, meta, last, run, started, published, writes, overlapped, metaLost, dropped>>

StampOf(d) == IF d = Null THEN 0 ELSE d.stamp

\* A component mounts: the first one loads, and one that finds the data
\* older than five minutes.
Mount ==
    /\ browser.flight = Null /\ (browser.data = Null \/ ~browser.fresh) /\ browser.loads < MaxLoads
    /\ browser' = [browser EXCEPT !.flight = Pending, !.loads = @ + 1]
    /\ UNCHANGED <<browserOnly, priceFailures>>

ReadDynamic ==
    /\ browser.flight = Pending
    /\ browser' = [browser EXCEPT !.flight = StampOf(dynamic)]
    /\ UNCHANGED <<browserOnly, priceFailures>>

AnswerLoad ==
    /\ browser.flight \notin {Null, Pending}
    /\ browser' = [browser EXCEPT !.data = browser.flight, !.flight = Null, !.fresh = TRUE]
    /\ UNCHANGED <<browserOnly, priceFailures>>

LoadFails ==
    /\ browser.flight # Null /\ Fault
    /\ browser' = [browser EXCEPT !.flight = Null]
    /\ UNCHANGED browserOnly

GoStale ==
    /\ browser.fresh
    /\ browser' = [browser EXCEPT !.fresh = FALSE, !.raced = FALSE]
    /\ UNCHANGED <<browserOnly, priceFailures>>

PricingNext ==
    \/ \E s \in Source : Publish(s) \/ Expire(s)
    \/ \E r \in Run :
          \/ \E mode \in {"cron", "force", "cached"} : Begin(r, mode)
          \/ \E s \in Source : ResolveCached(r, s) \/ ResolveFetched(r, s) \/ ResolveFailed(r, s)
          \/ WriteDynamic(r) \/ WriteMeta(r) \/ Die(r)
    \/ Mount \/ ReadDynamic \/ AnswerLoad \/ LoadFails \/ GoStale

PricingSpec == PricingInit /\ [][PricingNext]_pricingVars

-----------------------------------------------------------------------------
\* No answer of an upstream makes a model free that the baseline prices:
\* whatever the layers, displacements and aliases do, looking its bare name
\* up in the served table gives a positive price.
FloorHolds == \A b \in Baseline : b.price > 0 => LookupPricing(GetDynamicPricing, "", b.name) > 0

\* Wherever two sources price the same model, neither price is lost: the
\* stored entry offers the positive rate of each source on that source's
\* route, whichever of them it shows.
RateOfEachRoute ==
    dynamic # Null =>
        \A e \in dynamic.entries :
            \A p \in ToSet(ParseOpenRouter(dynamic.got["openrouter"])) \cup ToSet(ParseModelsDev(dynamic.got["models.dev"])) :
                (p.prov = e.prov /\ p.name = e.name /\ p.price > 0)
                    => [route |-> p.route, price |-> p.price]
                           \in e.routes \cup {[route |-> e.route, price |-> e.price]}

\* Between runs, the stored meta is that of the stored entries, or it says
\* that they could not be written; only overlapping runs, a lost meta write
\* and a stopped Worker can leave the two apart in silence.
MetaTellsTheTruth ==
    (Active = {} /\ ~overlapped /\ ~metaLost /\ meta # Null)
        => (dynamic # Null /\ dynamic.at = meta.at) \/ "kv" \in meta.errors

\* Prices the browser takes for fresh are at least those of the last forced
\* run it heard of, unless that news met a load already under way.
FreshIsCurrent == (browser.fresh /\ ~browser.raced) => browser.data >= browser.wanted

\* A scheduled run never takes the prices of a source away because that
\* source cannot be reached: the last list fetched stands in for it until it
\* expires. Only an answer without prices, or an operator's forced run, does.
KeptThroughOutage ==
    (dynamic' # dynamic /\ dynamic # Null /\ dynamic'.mode # "force" /\ ~overlapped')
        => \A s \in Source \ dropped :
              (dynamic.got[s] # Null /\ dynamic.mode # "force") => dynamic'.got[s] # Null
OutageKeepsPrices == [][KeptThroughOutage]_pricingVars
=============================================================================
