------------------------------ MODULE GrokUsage ------------------------------
(***************************************************************************)
(* Grok writes every inference to one log, without its model; the model is *)
(* in the turn timeline and the signals of the session's directory.  Turn  *)
(* totals with costs are in the session's updates, which a forked session  *)
(* takes along; they may replace the details of a bucket, never add to it. *)
(* An inference is a turn of its own and costs one token.                  *)
(***************************************************************************)
EXTENDS Integers, Sequences, FiniteSetsExt

CONSTANTS
    GrokSession, Model,
    Unknown,      \* "grok-unknown"
    MaxInferences,    \* bound: inferences
    MaxForks      \* bound: copied histories and rescans

VARIABLES
    grokLog,            \* unified.jsonl
    timeline,       \* turn_started entries of each session
    signals,        \* modelsUsed, as last written
    updates,        \* turn_completed entries of each session
    offset, grokRows,   \* the cursor; the bucket of every inference counted
    details,        \* the turns each bucket's details add up
    grokPc, snapshots, bound, maps,   \* a sync: what it has read
    forks,
    model,          \* history: the model an inference ran on
    misled          \* history: inferences read while the signals were behind, or of
                    \* whose turn only an altered copy could be read

grok == <<grokLog, timeline, signals, updates, forks, model>>
grokSync == <<grokPc, snapshots, bound, maps>>
grokVars == <<grok, offset, grokRows, details, grokSync, misled>>

Half(at) == at \div 2
Bucket == (Model \cup {Unknown}) \X {Half(at) : at \in 1..MaxInferences}
NoMaps == [timeline |-> [s \in GrokSession |-> <<>>], signals |-> [s \in GrokSession |-> {}]]

GrokInit ==
    /\ grokLog = <<>> /\ timeline = NoMaps.timeline /\ signals = NoMaps.signals
    /\ updates = [s \in GrokSession |-> {}] /\ forks = 0 /\ model = <<>>
    /\ offset = 0 /\ grokRows = <<>> /\ details = [b \in Bucket |-> {}]
    /\ grokPc = "idle" /\ snapshots = {} /\ bound = 0 /\ maps = NoMaps /\ misled = {}

-----------------------------------------------------------------------------
(* Grok.                                                                   *)

\* A turn starts, infers and, sooner or later, writes its signals.
Infer(s, m) ==
    /\ Len(grokLog) < MaxInferences
    /\ grokLog' = Append(grokLog, s) /\ model' = Append(model, m)
    /\ timeline' = [timeline EXCEPT ![s] = Append(@, [at |-> Len(grokLog) + 1, model |-> m])]
    /\ \E written \in {signals[s], signals[s] \cup {m}} : signals' = [signals EXCEPT ![s] = written]
    /\ UNCHANGED <<updates, forks, offset, grokRows, details, grokSync, misled>>

WriteSignals(s) ==
    /\ signals' = [signals EXCEPT ![s] = {timeline[s][i].model : i \in DOMAIN timeline[s]}]
    /\ signals' # signals
    /\ UNCHANGED <<grokLog, timeline, updates, forks, model, offset, grokRows, details, grokSync, misled>>

Complete(i) ==
    /\ updates' = [updates EXCEPT ![grokLog[i]] = @ \cup {[id |-> i, model |-> model[i], tokens |-> 1]}]
    /\ updates' # updates
    /\ UNCHANGED <<grokLog, timeline, signals, forks, model, offset, grokRows, details, grokSync, misled>>

\* A session is forked with its history; a copied turn may have other counts.
ForkSession(s, t) ==
    /\ forks < MaxForks /\ forks' = forks + 1 /\ s # t
    /\ \E u \in updates[s], n \in {1, 2} : updates' = [updates EXCEPT ![t] = @ \cup {[u EXCEPT !.tokens = n]}]
    /\ UNCHANGED <<grokLog, timeline, signals, model, offset, grokRows, details, grokSync, misled>>

-----------------------------------------------------------------------------
(* The turn totals.                                                        *)

Copies(read, id) == {u \in UNION {updates[s] : s \in read} : u.id = id}
BucketOf(u) == <<u.model, Half(u.id)>>

\* readGrokAccountingSnapshots: a copied turn once, and none of a bucket one
\* of whose turns has copies that differ.
Turns(read) ==
    LET ids     == {u.id : u \in UNION {updates[s] : s \in read}}
        blocked == {BucketOf(u) : u \in UNION {Copies(read, i) : i \in {j \in ids : Cardinality(Copies(read, j)) > 1}}}
        agreed  == {CHOOSE u \in Copies(read, i) : TRUE : i \in {j \in ids : Cardinality(Copies(read, j)) = 1}}
    IN  {<<"once", u>> : u \in {v \in agreed : BucketOf(v) \notin blocked}}

\* discover: some histories cannot be read.
DiscoverTotals ==
    /\ grokPc = "idle" /\ grokPc' = "stat"
    /\ \E read \in SUBSET GrokSession : snapshots' = Turns(read)
    /\ UNCHANGED <<grok, offset, grokRows, details, bound, maps, misled>>

-----------------------------------------------------------------------------
(* The log.                                                                *)

Stat ==
    /\ grokPc = "stat" /\ grokPc' = "maps" /\ bound' = Len(grokLog)
    /\ UNCHANGED <<grok, offset, grokRows, details, snapshots, maps, misled>>

\* buildGrokModelMaps
ReadMaps ==
    /\ grokPc = "maps" /\ grokPc' = "parse" /\ maps' = [timeline |-> timeline, signals |-> signals]
    /\ UNCHANGED <<grok, offset, grokRows, details, snapshots, bound, misled>>

\* Mutant: whatever the log holds by now.
EndOfLog == Len(grokLog)
\* jsonlStreamBound: lines appended since the stat stay unread.
EndBound == bound

\* pickModelFromTimeline: the last turn that had started.
PickModel(turns, at) ==
    LET started == {i \in DOMAIN turns : turns[i].at <= at}
    IN  IF started = {} THEN Unknown ELSE turns[Max(started)].model

\* resolveGrokModel, with the fast path of a session of one model.
ResolveModel(i) ==
    LET s == grokLog[i]
    IN  IF Cardinality(maps.signals[s]) = 1 THEN CHOOSE m \in maps.signals[s] : TRUE
        ELSE PickModel(maps.timeline[s], i)

Behind(i) == {maps.timeline[grokLog[i]][j].model : j \in DOMAIN maps.timeline[grokLog[i]]} # maps.signals[grokLog[i]]

InBucket(bs, b) == {i \in DOMAIN bs : bs[i] = b}
TokensOf(turns) == Cardinality({p \in turns \X {1, 2} : p[2] <= p[1][2].tokens})

\* What a bucket's details add up: its inferences, or the turns that replace them.
Planned(bs, b) ==
    LET turns == {t \in snapshots : BucketOf(t[2]) = b}
    IN  IF turns # {} /\ TokensOf(turns) = Cardinality(InBucket(bs, b)) THEN {t[2].id : t \in turns}
        ELSE InBucket(bs, b)

ParseInferences ==
    /\ grokPc = "parse" /\ grokPc' = "idle"
    /\ grokRows' = [i \in 1..EndBound |-> IF i <= offset THEN grokRows[i] ELSE <<ResolveModel(i), Half(i)>>]
    /\ misled' = (misled \cap 1..offset) \cup {i \in (offset + 1)..EndBound : Behind(i)}
                 \cup {t[2].id : t \in {u \in snapshots : u[2].tokens # 1}}
    /\ details' = [b \in Bucket |-> Planned(grokRows', b)]
    /\ offset' = EndBound
    /\ snapshots' = {} /\ bound' = 0 /\ maps' = NoMaps
    /\ UNCHANGED grok

\* The cursor is lost: the log is read from its beginning.
RescanInferences ==
    /\ grokPc = "idle" /\ offset > 0 /\ forks < MaxForks /\ forks' = forks + 1
    /\ offset' = 0 /\ grokRows' = <<>> /\ details' = [b \in Bucket |-> {}] /\ misled' = {}
    /\ UNCHANGED <<grokLog, timeline, signals, updates, model, grokSync>>

GrokNext ==
    \/ \E s \in GrokSession : WriteSignals(s) \/ (\E m \in Model : Infer(s, m)) \/ (\E t \in GrokSession : ForkSession(s, t))
    \/ \E i \in DOMAIN grokLog : Complete(i)
    \/ DiscoverTotals \/ Stat \/ ReadMaps \/ ParseInferences \/ RescanInferences

GrokSpec == GrokInit /\ [][GrokNext]_grokVars

-----------------------------------------------------------------------------
(* Properties.                                                             *)

\* However late it is read, also again from the beginning, an inference is
\* counted for the model it ran on, unless its session's signals lag.
RowsNameTheirModel == \A i \in DOMAIN grokRows : grokRows[i][1] = model[i] \/ i \in misled

\* A bucket's details are about its own inferences, each once, although turns
\* are copied, missing or unreadable.
DetailsAreItsOwn ==
    misled = {} => \A b \in Bucket : details[b] = InBucket(grokRows, b)
=============================================================================
