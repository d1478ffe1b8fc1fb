--------------------------- MODULE HermesEvidence ---------------------------
(***************************************************************************)
(* Hermes's ledger of auxiliary calls, one route of it: cumulative token   *)
(* and call counts with the time of the last write.  A sync splits it into *)
(* records: calls the review log dates exactly, what arrived between two   *)
(* observations, and a baseline with the rest, whose revision is the sum   *)
(* of the counters.  The records are kept for good and uploaded as         *)
(* absolute snapshots, which the server takes in revision order.           *)
(***************************************************************************)
EXTENDS Integers, FiniteSets

CONSTANTS
    MaxCalls,     \* bound: calls Hermes makes
    MaxNow,       \* bound: Hermes's clock
    MaxRestores   \* bound: restores of the database from a copy

Field == {"in", "out"}
Never == -1
NoRow == [who |-> {}, seen |-> 0]

VARIABLES
    evidenceNow, calls,            \* Hermes's clock; per call made the field it adds to and whether and when it was logged
    led, copy,             \* the route's row, as the calls it includes and last_seen; a copy of the database
    keepsCount,               \* whether this Hermes keeps api_call_count
    phase, q,              \* the sync: where it is, and the row it queried
    ev,                    \* the evidence ledger
    restores,
    accepted               \* history: the calls the records account for

evidenceVars == <<evidenceNow, calls, led, copy, keepsCount, phase, q, ev, restores, accepted>>
hermes == <<evidenceNow, calls, led, copy, keepsCount, restores>>

TokensOf(ns) == [f \in Field |-> Cardinality({n \in ns : calls[n].field = f})]
Minus(t, u) == [f \in Field |-> t[f] - u[f]]
Fits(t, u) == \A f \in Field : t[f] <= u[f]
Nothing == [f \in Field |-> 0]

\* Sums over records, as the number of the units they are made of.
Tokens(records) == [f \in Field |-> Cardinality(UNION {{r} \X (1..r.tok[f]) : r \in records})]
Calls(records) == Cardinality(UNION {{r} \X (1..r.calls) : r \in records})

-----------------------------------------------------------------------------
(* Hermes.                                                                 *)

EvidenceTick == evidenceNow < MaxNow /\ evidenceNow' = evidenceNow + 1 /\ UNCHANGED <<calls, led, copy, keepsCount, restores, phase, q, ev, accepted>>

\* The fields are alike, so the first call can be of one kind.
MakeCall ==
    /\ Cardinality(DOMAIN calls) < MaxCalls
    /\ \E f \in IF calls = <<>> THEN {"in"} ELSE Field, logged \in BOOLEAN :
         calls' = [n \in 1..(Cardinality(DOMAIN calls) + 1) |->
                      IF n \in DOMAIN calls THEN calls[n] ELSE [field |-> f, time |-> IF logged THEN evidenceNow ELSE Never]]
    /\ UNCHANGED <<evidenceNow, led, copy, keepsCount, restores, phase, q, ev, accepted>>

\* The row includes the latest call; its clock may stall.  A call without usage only
\* moves the clock.
Bill ==
    /\ \E ns \in {led.who, led.who \cup (DOMAIN calls \cap {Cardinality(DOMAIN calls)})}, seen \in {led.seen, evidenceNow} :
         /\ <<ns, seen>> # <<led.who, led.seen>>
         /\ led' = [who |-> ns, seen |-> seen]
    /\ UNCHANGED <<evidenceNow, calls, copy, keepsCount, restores, phase, q, ev, accepted>>

Copy == copy # led /\ restores < MaxRestores /\ copy' = led /\ UNCHANGED <<evidenceNow, calls, led, keepsCount, restores, phase, q, ev, accepted>>

Restore ==
    /\ restores < MaxRestores /\ restores' = restores + 1 /\ led' = copy
    /\ UNCHANGED <<evidenceNow, calls, copy, keepsCount, phase, q, ev, accepted>>

-----------------------------------------------------------------------------
(* collectHermesUsageEvidence over the queried row.                        *)

BaseId == <<"baseline", 0, 0>>
Based(records) == {r \in records : r.id = BaseId}
Base == CHOOSE r \in ev : r.id = BaseId

CurrentTotals == TokensOf(q.who)
Count == IF keepsCount THEN Cardinality(q.who) ELSE 0
Revision == 1 + CurrentTotals["in"] + CurrentTotals["out"] + Count
Cutoff == IF Based(ev) = {} THEN Never ELSE Base.end
Ceiling == IF q.seen = 0 THEN Never ELSE q.seen

\* A row that went down, or that another observation has overtaken.
Stale ==
    /\ Based(ev) # {}
    /\ Revision < Base.seq \/ ~Fits(Tokens(ev), CurrentTotals) \/ (keepsCount /\ Count < Calls(ev))

\* What the records leave of the row once these calls are taken from it.
Remaining(ns) == Minus(Minus(CurrentTotals, Tokens(ev)), TokensOf(ns))
RemainingCalls(ns) == Count - Calls(ev) - Cardinality(ns)

\* The calls of the log taken one by one, while the row has room for them:
\* there is one such set.
Match(visible) ==
    {taken \in SUBSET visible : \A n \in visible :
        n \in taken <=> LET earlier == {m \in taken : m < n}
                       IN  /\ <<"call", n, 0>> \notin {r.id : r \in ev}
                           /\ calls[n].time > Cutoff /\ calls[n].time <= Ceiling
                           /\ RemainingCalls(earlier) >= 1
                           /\ Fits(TokensOf({n}), Remaining(earlier))}

\* Mutant: the watermark follows the clock when no counter moved.
EndMoves == IF Cutoff > Ceiling THEN Cutoff ELSE Ceiling

\* The revision's end: the watermark, but the old one for an old revision.
End == IF Based(ev) # {} /\ Base.seq = Revision THEN Base.end ELSE IF Cutoff > Ceiling THEN Cutoff ELSE Ceiling

Residual(allocated) == Minus(CurrentTotals, allocated)

CollectEvidence(taken) ==
    IF Stale THEN {}
    ELSE LET exact == {[id |-> <<"call", n, 0>>, tok |-> TokensOf({n}), calls |-> 1, seq |-> 1, end |-> Never] : n \in taken}
             span  == IF Based(ev) # {} /\ Cutoff # Never /\ Ceiling > Cutoff /\ Remaining(taken) # Nothing
                      THEN {[id |-> <<"interval", Base.seq, Revision>>, tok |-> Remaining(taken),
                             calls |-> RemainingCalls(taken), seq |-> 1, end |-> Ceiling]}
                      ELSE {}
             known == (ev \ Based(ev)) \cup exact \cup span
         IN  exact \cup span \cup
             {[id |-> BaseId, tok |-> Residual(Tokens(known)), calls |-> Count - Calls(known), seq |-> Revision, end |-> End]}

-----------------------------------------------------------------------------
(* The sync.                                                               *)

Query ==
    /\ phase = "idle" /\ phase' = "read" /\ q' = led
    /\ UNCHANGED <<hermes, ev, accepted>>

\* Without a count of the calls none of them can be matched.
Visible == SUBSET {n \in DOMAIN calls : keepsCount /\ calls[n].time # Never}
Older(r, prev) == r.seq < prev.seq
Conflicting(r) == \E prev \in ev : prev.id = r.id /\ r.seq = prev.seq /\ r # prev

\* The log is read after the row; any of its calls may be unmatched.  Then
\* EvidenceQueue.merge.
Merge ==
    /\ phase = "read" /\ phase' = "idle" /\ q' = NoRow
    /\ \E visible \in Visible : \E taken \in Match(visible) :
         LET out == CollectEvidence(taken)
         IN  /\ ev' = {r \in ev : ~\E n \in out : n.id = r.id /\ ~Older(n, r)}
                      \cup {n \in out : ~\E r \in ev : r.id = n.id /\ Older(n, r)}
             /\ accepted' = IF out = {} /\ restores > 0 THEN accepted ELSE q.who
    /\ UNCHANGED <<hermes>>

Crash ==
    /\ phase # "idle" /\ phase' = "idle" /\ q' = NoRow
    /\ UNCHANGED <<hermes, ev, accepted>>

EvidenceInit ==
    /\ evidenceNow = 1 /\ calls = <<>> /\ led = NoRow /\ copy = led
    /\ keepsCount \in BOOLEAN /\ phase = "idle" /\ q = NoRow /\ ev = {}
    /\ restores = 0 /\ accepted = {}

EvidenceNext ==
    \/ EvidenceTick \/ MakeCall \/ Bill \/ Copy \/ Restore
    \/ Query \/ Merge \/ Crash

EvidenceSpec == EvidenceInit /\ [][EvidenceNext]_evidenceVars

-----------------------------------------------------------------------------
(* Properties.                                                             *)

\* However the log and the row interleave, crash, replay or go back in time,
\* the records add up to the last row that was not a step back, so no call is
\* both in an exact record and in an interval or baseline, and none is lost.
Conserved ==
    ev # {} => /\ Tokens(ev) = TokensOf(accepted)
               /\ keepsCount => Calls(ev) = Cardinality(accepted)

\* EvidenceQueue.merge never meets the same revision with another content:
\* it would throw, in this sync and in every replay of its journal.
NeverConflictingSnapshot ==
    phase = "read" => \A visible \in Visible : \A taken \in Match(visible) : \A r \in CollectEvidence(taken) : ~Conflicting(r)

\* A record only changes to a later revision with no fewer tokens: as the
\* server takes an upload only for its greater revision, batches that come
\* late, twice or in any order leave it at or below the device's records.
EvidenceGrows == \A r \in ev : \E t \in ev' : t.id = r.id /\ (t = r \/ (t.seq > r.seq /\ Fits(r.tok, t.tok)))
RecordsOnlyGrow == [][EvidenceGrows]_evidenceVars
=============================================================================
