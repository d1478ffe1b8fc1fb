--------------------------- MODULE AccountingLedger ---------------------------
(***************************************************************************)
(* Accounting details: annotations of usage rows, kept by the client in a  *)
(* ledger that survives reset, planned by sync and by pew enrich, merged   *)
(* while the sync journal is redone, uploaded after the rows and stored by *)
(* the server under revisions.  A row is its number of events; annotation  *)
(* groups are the number of events they add up to (basis) and the part of  *)
(* them with details (known).  state.lock lets one command run at a time;  *)
(* only the preview of an enrichment runs beside the others.  That a redo  *)
(* replaces rows and cursors as one is the module SyncPipeline.            *)
(***************************************************************************)
EXTENDS Integers, FiniteSets, TLAPS

CONSTANTS
    Key,          \* buckets: (source, model, half hour) of one device
    MaxEvents,    \* bound: events ever written
    BatchSize,    \* maxBatchSize
    MaxFaults,    \* bound: crashes, rotated logs, resets, client changes, lost answers, revocations
    MaxRuns       \* bound: enrichments

Absent == -1                        \* no row, or no annotation
NoAnnotation == [source |-> 0, parser |-> 0, detail |-> 0, basis |-> Absent, known |-> 0]
NoJournal == {}

VARIABLES
    log, parsed,  \* events and detailed events in the tool's logs; those behind cursors
    row, marked,  \* queue.jsonl and its dirty keys
    ledger, dirty,\* accounting-queue.jsonl and its dirty keys
    journal,      \* sync-commit.json: a set with the pending commit, or NoJournal
    parser,       \* ACCOUNTING_PARSER_REVISION of the installed client
    pc, todo,     \* the command that holds state.lock, and its keys still to send
    preview,      \* what an enrichment has verified so far, outside the lock
    serverRow, details, revoked, late,  \* the server, and requests that may still be applied
    faults, runs, written,
    excused,      \* history: buckets whose row changed without its details
    conflicts,    \* history: a merge or the server met a conflict
    swallowed     \* history: buckets acknowledged, not stored, while the device was revoked

client == <<parsed, row, marked, ledger, dirty, journal>>
server == <<serverRow, details, revoked, late>>
vars == <<log, client, parser, pc, todo, preview, server, faults, runs, written, excused, conflicts, swallowed>>

Init ==
    /\ log = [k \in Key |-> [n |-> 0, known |-> 0]] /\ parsed = log
    /\ row = [k \in Key |-> Absent] /\ marked = {}
    /\ ledger = [k \in Key |-> NoAnnotation] /\ dirty = {}
    /\ journal = NoJournal /\ parser \in {1, 2}
    /\ pc = "idle" /\ todo = {} /\ preview = NoJournal
    /\ serverRow = row /\ details = ledger /\ revoked = FALSE /\ late = {}
    /\ faults = 0 /\ runs = 0 /\ written = 0 /\ excused = {} /\ conflicts = FALSE /\ swallowed = {}

Fault == faults < MaxFaults /\ faults' = faults + 1
Step(from, to) == pc = from /\ pc' = to

-----------------------------------------------------------------------------
(* The world around the client.                                            *)

\* A tool writes an event, with or without details.
Log(k) ==
    /\ written < MaxEvents /\ written' = written + 1
    /\ \E d \in {0, 1} : log' = [log EXCEPT ![k] = [n |-> @.n + 1, known |-> @.known + d]]
    /\ UNCHANGED <<client, parser, pc, todo, preview, server, faults, runs, excused, conflicts, swallowed>>

\* The logs of a bucket are deleted, once parsed.
Rotate(k) ==
    /\ Fault /\ pc = "idle" /\ log[k].n > 0 /\ parsed[k] = log[k]
    /\ log' = [log EXCEPT ![k] = [n |-> 0, known |-> 0]]
    /\ parsed' = [parsed EXCEPT ![k] = log'[k]]
    /\ UNCHANGED <<row, marked, ledger, dirty, journal, parser, pc, todo, preview, server, runs,
                   excused, conflicts, written, swallowed>>

\* Another version of the client is installed.
Install ==
    /\ Fault /\ pc = "idle" /\ parser' = 3 - parser
    /\ UNCHANGED <<log, client, pc, todo, preview, server, runs, excused, conflicts, written, swallowed>>

-----------------------------------------------------------------------------
(* Planning.                                                               *)

\* A bucket without details and without an annotation stays without one.
WorthPlanning(prev, known) == known > 0 \/ prev # NoAnnotation

\* More events make a new source revision, better details of the same a new detail revision.
Revision(prev, same) == IF same THEN [s |-> prev.source, d |-> prev.detail + 1] ELSE [s |-> prev.source + 1, d |-> 1]
Annotation(prev, same, basis, known) ==
    LET rev == Revision(prev, same)
    IN  [source |-> rev.s, parser |-> parser, detail |-> rev.d, basis |-> basis, known |-> known]

\* planAccountingUpdates for one bucket; n events, known of them detailed,
\* are new.  The result is the annotation the bucket has afterwards.
Plan(prev, before, after, n, known, replay) ==
    LET extend == ~replay /\ before # Absent
        old    == IF prev # NoAnnotation THEN prev ELSE [prev EXCEPT !.basis = before]
        basis  == IF extend THEN old.basis + n ELSE n
        total  == IF extend THEN old.known + known ELSE known
        same   == prev # NoAnnotation /\ prev.basis = after
    IN  IF \/ n = 0 \/ ~WorthPlanning(prev, known)
           \/ extend /\ old.basis # before
           \/ basis # after
           \/ same /\ total = prev.known /\ parser = prev.parser
        THEN prev
        ELSE Annotation(prev, same, after, total)

\* An empty cursor file makes a full scan of the logs.
Replay == \A k \in Key : parsed[k].n = 0

\* executeSyncInternal up to the rename of the journal.  A row without new
\* events is kept by an incremental sync and gone after a full scan.
Sync ==
    /\ Step("idle", "merge") /\ journal = NoJournal
    /\ LET n(k) == log[k].n - parsed[k].n
           known(k) == log[k].known - parsed[k].known
           after == [k \in Key |->
                       IF n(k) > 0 THEN (IF Replay \/ row[k] = Absent THEN 0 ELSE row[k]) + n(k)
                       ELSE IF Replay THEN Absent ELSE row[k]]
           plan == [k \in Key |-> Plan(ledger[k], row[k], after[k], n(k), known(k), Replay)]
       IN  /\ journal' = {[rows |-> after, marked |-> {k \in Key : n(k) > 0} \cup (IF Replay THEN {} ELSE marked),
                           plan |-> {k \in Key : plan[k] # ledger[k]}, ledger |-> plan,
                           replay |-> Replay, parsed |-> log]}
           /\ excused' = (excused \ {k \in Key : plan[k] # ledger[k] /\ ledger[k].parser <= parser})
                           \cup {k \in Key : /\ after[k] # row[k]
                                              /\ \/ plan[k] = ledger[k] /\ Replay
                                                 \/ ledger[k].parser > parser}
    /\ UNCHANGED <<log, parsed, row, marked, ledger, dirty, parser, todo, preview, server, faults, runs,
                   conflicts, written, swallowed>>

-----------------------------------------------------------------------------
(* Merging: AccountingQueue.merge, in two writes.                          *)

Older(a, b) == a.source < b.source \/ (a.source = b.source /\ a.detail < b.detail)
Skipped(r, prev) == Older(r, prev) \/ r.parser < prev.parser \/ r = prev
Conflict(r, prev) ==
    /\ prev # NoAnnotation /\ ~Skipped(r, prev)
    /\ \/ ~Older(prev, r)
       \/ r.source = prev.source /\ r.basis # prev.basis

Merged(new, keys) == {k \in keys : ledger[k] = NoAnnotation \/ ~Skipped(new[k], ledger[k])}

\* The marks are written before the ledger; a replay marks everything.
Marks(keys, replay) == dirty \cup keys \cup (IF replay THEN {k \in Key : ledger[k] # NoAnnotation} ELSE {})

\* recoverSyncCommit: a conflict throws and leaves everything as it is.
MergeMarks ==
    /\ \E c \in journal :
         IF \E k \in c.plan : Conflict(c.ledger[k], ledger[k])
         THEN pc = "merge" /\ pc' = "idle" /\ conflicts' = TRUE /\ UNCHANGED dirty
         ELSE Step("merge", "ledger") /\ dirty' = Marks(Merged(c.ledger, c.plan), c.replay) /\ UNCHANGED conflicts
    /\ UNCHANGED <<log, parsed, row, marked, ledger, journal, parser, todo, preview, server, faults, runs, excused, written, swallowed>>

MergeLedger ==
    /\ Step("ledger", "rows")
    /\ \E c \in journal : ledger' = [k \in Key |-> IF k \in Merged(c.ledger, c.plan) THEN c.ledger[k] ELSE ledger[k]]
    /\ UNCHANGED <<log, parsed, row, marked, dirty, journal, parser, todo, preview, server, faults, runs,
                   excused, conflicts, written, swallowed>>

\* The rest of recoverSyncCommit.
RedoRows ==
    /\ Step("rows", "idle")
    /\ \E c \in journal : row' = c.rows /\ marked' = c.marked /\ parsed' = c.parsed
    /\ journal' = NoJournal
    /\ UNCHANGED <<log, ledger, dirty, parser, todo, preview, server, faults, runs, excused, conflicts, written, swallowed>>

\* Any later sync, upload or reset starts with the journal it finds.
Recover ==
    /\ Step("idle", "merge") /\ journal # NoJournal
    /\ UNCHANGED <<log, client, parser, todo, preview, server, faults, runs, excused, conflicts, written, swallowed>>

\* Reset deletes cursors and rows, never the ledger.
Reset ==
    /\ Fault /\ pc = "idle" /\ journal = NoJournal
    /\ parsed' = [k \in Key |-> [n |-> 0, known |-> 0]]
    /\ row' = [k \in Key |-> Absent] /\ marked' = {}
    /\ excused' = excused \cup {k \in Key : row[k] # Absent}
    /\ UNCHANGED <<log, ledger, dirty, journal, parser, pc, todo, preview, server, runs, conflicts, written, swallowed>>

Crash ==
    /\ Fault /\ pc # "idle" /\ pc' = "idle" /\ todo' = {}
    /\ UNCHANGED <<log, client, parser, preview, server, runs, excused, conflicts, written, swallowed>>

-----------------------------------------------------------------------------
(* pew enrich --apply.                                                     *)

\* The preview replays the logs of the moment in scratch state, unlocked.
Preview ==
    /\ preview = NoJournal /\ runs < MaxRuns /\ runs' = runs + 1
    /\ journal = NoJournal                       \* requireSettledState
    /\ preview' = {log}
    /\ UNCHANGED <<log, client, parser, pc, todo, server, faults, excused, conflicts, written, swallowed>>

\* requireSettledState, again, under the lock.
Settled == journal = NoJournal

\* reconcile under the lock: candidates that no longer fit their row are
\* dropped, the others get revisions that follow the ledger's.
Apply ==
    /\ pc = "idle" /\ preview' = NoJournal
    /\ \E seen \in preview :
         LET update(k) == Annotation(ledger[k], ledger[k].basis = seen[k].n, seen[k].n, seen[k].known)
             due == {k \in Key : /\ seen[k].n > 0 /\ row[k] = seen[k].n
                                 /\ WorthPlanning(ledger[k], seen[k].known)
                                 /\ ledger[k].parser <= parser
                                 /\ ~(/\ ledger[k].basis = seen[k].n /\ ledger[k].known = seen[k].known
                                      /\ ledger[k].parser = parser)}
         IN  IF Settled
             THEN /\ dirty' = Marks(due, FALSE)
                  /\ ledger' = [k \in Key |-> IF k \in due THEN update(k) ELSE ledger[k]]
                  /\ excused' = excused \ due
             ELSE UNCHANGED <<dirty, ledger, excused>>
    /\ UNCHANGED <<log, parsed, row, marked, journal, parser, pc, todo, server, faults, runs, conflicts, written, swallowed>>

-----------------------------------------------------------------------------
(* Upload: rows, then details batch by batch.                              *)

\* Rows are sent and their marks dropped; SyncPipeline has the details.
UploadRows ==
    /\ Step("idle", "details") /\ journal = NoJournal
    /\ serverRow' = [k \in Key |-> IF k \in marked /\ row[k] # Absent /\ ~revoked THEN row[k] ELSE serverRow[k]]
    /\ marked' = {} /\ todo' = {k \in dirty : ledger[k] # NoAnnotation}
    /\ UNCHANGED <<log, parsed, row, ledger, dirty, journal, parser, preview, details, revoked, late, faults,
                   runs, excused, conflicts, written, swallowed>>

\* The guard of the UPSERT.
Newer(r, stored) ==
    /\ r.parser >= stored.parser
    /\ \/ r.source > stored.source
       \/ r.source = stored.source /\ r.detail > stored.detail /\ r.basis = stored.basis

Applies(k, r) ==
    /\ ~revoked /\ serverRow[k] = r.basis
    /\ details[k] = NoAnnotation \/ Newer(r, details[k])

\* ingestAccounting: the receipt is read in the transaction of the upsert.
Receipt(k, r) ==
    LET stored == details[k]
    IN  IF revoked THEN "superseded"
        ELSE IF serverRow[k] # r.basis THEN "base_mismatch"
        ELSE IF Applies(k, r) THEN "applied"
        ELSE IF stored = r THEN "duplicate"
        ELSE IF stored.basis = r.basis /\ (Older(r, stored) \/ stored.parser > r.parser) THEN "superseded"
        ELSE "conflict"

Stored(b) == [k \in Key |-> IF k \in b /\ Applies(k, ledger[k]) THEN ledger[k] ELSE details[k]]
Batches == {b \in SUBSET todo : Cardinality(b) = BatchSize \/ (b = todo /\ Cardinality(b) < BatchSize)}
Positive == {"applied", "duplicate", "superseded"}

\* One negative receipt, or a lost answer, ends the upload.
SendBatch ==
    /\ pc = "details" /\ todo # {}
    /\ \E b \in Batches :
         /\ details' = Stored(b)
         /\ conflicts' = (conflicts \/ \E k \in b : Receipt(k, ledger[k]) = "conflict")
         /\ swallowed' = IF revoked THEN swallowed \cup b ELSE swallowed \ b
         /\ \/ /\ \A k \in b : Receipt(k, ledger[k]) \in Positive
               /\ todo' = todo \ b /\ UNCHANGED <<pc, faults>>
            \/ /\ \E k \in b : Receipt(k, ledger[k]) \notin Positive
               /\ todo' = {} /\ pc' = "idle" /\ UNCHANGED faults
            \/ Fault /\ todo' = {} /\ pc' = "idle"
    /\ UNCHANGED <<log, client, parser, preview, serverRow, revoked, late, runs, excused, written>>

\* A batch that never arrived, or arrives after the upload was given up.
SendLost ==
    /\ pc = "details" /\ todo # {} /\ Fault
    /\ \E b \in Batches : late' \in {late, late \cup {[key |-> k, record |-> ledger[k]] : k \in b}}
    /\ todo' = {} /\ pc' = "idle"
    /\ UNCHANGED <<log, client, parser, preview, serverRow, details, revoked, runs, excused, conflicts, written, swallowed>>

Arrive ==
    /\ \E m \in late :
         /\ late' = late \ {m}
         /\ details' = IF Applies(m.key, m.record) THEN [details EXCEPT ![m.key] = m.record] ELSE details
    /\ UNCHANGED <<log, client, parser, pc, todo, preview, serverRow, revoked, faults, runs, excused, conflicts, written, swallowed>>

\* Every batch was acknowledged.
Uploaded == todo = {}

FinishUpload ==
    /\ Step("details", "idle") /\ Uploaded
    /\ dirty' = {} /\ todo' = {}
    /\ UNCHANGED <<log, parsed, row, marked, ledger, journal, parser, preview, server, faults, runs,
                   excused, conflicts, written, swallowed>>

\* The user revokes or restores the device; what is stored stays.
SetRevoked ==
    /\ Fault /\ revoked' = ~revoked
    /\ UNCHANGED <<log, client, parser, pc, todo, preview, serverRow, details, late, runs, excused,
                   conflicts, swallowed, written>>

Next ==
    \/ \E k \in Key : Log(k) \/ Rotate(k)
    \/ Install \/ Reset \/ Crash \/ SetRevoked
    \/ Sync \/ Recover \/ MergeMarks \/ MergeLedger \/ RedoRows
    \/ Preview \/ Apply
    \/ UploadRows \/ SendBatch \/ SendLost \/ Arrive \/ FinishUpload

Spec == Init /\ [][Next]_vars

-----------------------------------------------------------------------------
(* Properties.                                                             *)

\* No order of syncs, crashes, enrichments, late requests and client versions
\* makes a merge throw, which would block every later command, or makes the
\* server answer a record of this device with a conflict.
NeverConflicting == ~conflicts

\* A row that keeps growing keeps its annotation: the two differ only where a
\* full scan found another row, or an older client refuses to write it.
DetailsFollowRow ==
    /\ pc = "idle" /\ journal = NoJournal
    => \A k \in Key \ excused :
          ledger[k] # NoAnnotation /\ row[k] # Absent => ledger[k].basis = row[k]

\* What is not marked is on the server, at least as new: an upload that was
\* interrupted, refused in part or answered too late never drops a mark.  Only
\* what a revoked device sent is acknowledged and not stored.
IntentKept ==
    \A k \in Key \ dirty :
        ledger[k] = NoAnnotation \/ k \in swallowed \/ ~Older(details[k], ledger[k])

\* Requests that arrive late never take the server's details back.
OnlyNewer == \A k \in Key : ~Older(details'[k], details[k]) /\ details'[k].parser >= details[k].parser
NeverOlder == [][OnlyNewer]_vars

-----------------------------------------------------------------------------
(* The inductive invariant.  Copies of an annotation travel through the    *)
(* journal, late requests and the server; what makes merges and receipts   *)
(* free of conflicts is that each copy precedes, or is, the one in the     *)
(* ledger, and that a commit follows it.                                   *)

Totals == [n : Nat, known : Nat]
Note == [source : Nat, parser : Nat, detail : Nat, basis : Int, known : Int]
Commits == [rows : [Key -> Int], marked : SUBSET Key, plan : SUBSET Key,
            ledger : [Key -> Note], replay : BOOLEAN, parsed : [Key -> Totals]]

TypeOK ==
    /\ log \in [Key -> Totals] /\ parsed \in [Key -> Totals]
    /\ row \in [Key -> Int] /\ serverRow \in [Key -> Int]
    /\ ledger \in [Key -> Note] /\ details \in [Key -> Note]
    /\ marked \subseteq Key /\ dirty \subseteq Key /\ todo \subseteq Key
    /\ excused \subseteq Key /\ swallowed \subseteq Key
    /\ journal \subseteq Commits /\ \A c, d \in journal : c = d
    /\ preview \subseteq [Key -> Totals]
    /\ late \subseteq [key : Key, record : Note]
    /\ parser \in {1, 2} /\ revoked \in BOOLEAN /\ conflicts \in BOOLEAN
    /\ pc \in {"idle", "merge", "ledger", "rows", "details"}

\* b is a later annotation of the bucket than a: a new source revision, or a
\* new detail revision of the same events.
Follows(a, b) == Older(a, b) /\ (a.source = b.source => a.basis = b.basis)
Copy(a, b) == a = b \/ (Follows(a, b) /\ a.parser <= b.parser)

\* What the ledger has for k once the commit c is merged.
Outcome(c, k) == IF k \in Merged(c.ledger, c.plan) THEN c.ledger[k] ELSE ledger[k]

\* The server has what the ledger has, or has acknowledged and dropped it.
Stands(k) == ledger[k] = NoAnnotation \/ k \in swallowed \/ ~Older(details[k], ledger[k])

CopiesFit ==
    /\ \A k \in Key : Copy(details[k], ledger[k])
    /\ \A m \in late : Copy(m.record, ledger[m.key])

JournalFits ==
    \A c \in journal :
        /\ \A k \in c.plan : c.ledger[k] = ledger[k] \/ Follows(ledger[k], c.ledger[k])
        /\ pc = "ledger" => Merged(c.ledger, c.plan) \subseteq dirty
        /\ pc = "rows" => \A k \in Key : Outcome(c, k) = ledger[k]

MarksFit ==
    /\ \A k \in Key \ dirty : Stands(k)
    /\ pc = "details" => todo \subseteq dirty /\ \A k \in dirty \ todo : Stands(k)

Describes(note, n) == note # NoAnnotation /\ n # Absent => note.basis = n

RowsFit ==
    \A k \in Key \ excused :
        /\ journal = NoJournal => Describes(ledger[k], row[k])
        /\ \A c \in journal : Describes(Outcome(c, k), c.rows[k])

LedgerFits == TypeOK /\ CopiesFit /\ JournalFits /\ MarksFit /\ RowsFit /\ ~conflicts

-----------------------------------------------------------------------------
(* Proofs.  LedgerFits holds whatever the number of buckets, events,       *)
(* faults, requests and enrichments.                                       *)

\* A copy of a copy is a copy, and what follows an annotation by a client not
\* older than its writer has it as a copy.
LEMMA CopyTransitive ==
    ASSUME NEW a \in Note, NEW b \in Note, NEW c \in Note, Copy(a, b), Copy(b, c)
    PROVE  Copy(a, c)
  <1>1. CASE a = b \/ b = c
    BY <1>1
  <1>2. CASE a # b /\ b # c
    <2>1. Older(a, b) /\ Older(b, c) /\ a.parser <= b.parser /\ b.parser <= c.parser
      BY <1>2 DEF Copy, Follows
    <2>2. /\ a.source = b.source => a.basis = b.basis
          /\ b.source = c.source => b.basis = c.basis
      BY <1>2 DEF Copy, Follows
    <2>3. Older(a, c) /\ a.parser <= c.parser
      BY <2>1 DEF Older, Note
    <2>4. a.source = c.source => a.source = b.source /\ b.source = c.source
      BY <2>1 DEF Older, Note
    <2> QED BY <2>2, <2>3, <2>4 DEF Copy, Follows
  <1> QED BY <1>1, <1>2

\* A copy is never the newer one.
LEMMA CopyIsOld ==
    ASSUME NEW a \in Note, NEW b \in Note, Copy(a, b) PROVE ~Older(b, a)
  BY DEF Copy, Follows, Older, Note

\* No annotation at all is a value of the type.
LEMMA NoneIsNote == NoAnnotation \in Note /\ Absent \in Int
  BY DEF NoAnnotation, Note, Absent

\* A new annotation follows the one it replaces and carries the basis and the
\* client it was made for.
LEMMA AnnotationFollows ==
    ASSUME NEW prev \in Note, parser \in {1, 2}, NEW same \in BOOLEAN,
           NEW basis \in Int, NEW known \in Int, same => prev.basis = basis
    PROVE  LET a == Annotation(prev, same, basis, known)
           IN  /\ a \in Note /\ a.basis = basis /\ a.parser = parser
               /\ Follows(prev, a) /\ a # NoAnnotation
  <1> DEFINE a == Annotation(prev, same, basis, known)
  <1>1. CASE same
    <2>1. a = [source |-> prev.source, parser |-> parser, detail |-> prev.detail + 1,
               basis |-> basis, known |-> known]
      BY <1>1 DEF Annotation, Revision
    <2> HIDE DEF a
    <2>2. prev.detail \in Nat /\ a.detail = prev.detail + 1
      BY <2>1 DEF Note
    <2>3. a.detail # 0 /\ NoAnnotation.detail = 0
      BY <2>2 DEF NoAnnotation
    <2>4. /\ a \in Note /\ a.basis = basis /\ a.parser = parser /\ Follows(prev, a)
          /\ a # NoAnnotation
      BY <1>1, <2>1, <2>3 DEF Note, Follows, Older
    <2> QED BY <2>4 DEF a
  <1>2. CASE ~same
    <2>1. a = [source |-> prev.source + 1, parser |-> parser, detail |-> 1,
               basis |-> basis, known |-> known]
      BY <1>2 DEF Annotation, Revision
    <2> QED BY <1>2, <2>1 DEF Note, Follows, Older, NoAnnotation
  <1> QED BY <1>1, <1>2

\* What planning does to the annotation of a bucket whose row goes from before
\* to after: it stays, or a later one of the row takes its place; and an
\* annotation of the row before is never left behind by an incremental sync.
LEMMA PlanFollows ==
    ASSUME NEW prev \in Note, parser \in {1, 2}, NEW before \in Int, NEW after \in Int,
           NEW n \in Int, NEW known \in Int, NEW replay \in BOOLEAN
    PROVE  LET a == Plan(prev, before, after, n, known, replay)
           IN  /\ a \in Note
               /\ a # prev => /\ Follows(prev, a) /\ a.basis = after
                              /\ a.parser = parser /\ a # NoAnnotation
               /\ (/\ a = prev /\ prev # NoAnnotation /\ n # 0 /\ ~replay
                   /\ after = (IF before = Absent THEN 0 ELSE before) + n
                   /\ before # Absent => prev.basis = before)
                     => prev.basis = after
  <1> DEFINE extend == ~replay /\ before # Absent
             old == IF prev # NoAnnotation THEN prev ELSE [prev EXCEPT !.basis = before]
             basis == IF extend THEN old.basis + n ELSE n
             total == IF extend THEN old.known + known ELSE known
             same == prev # NoAnnotation /\ prev.basis = after
             stays == \/ n = 0 \/ ~WorthPlanning(prev, known)
                      \/ extend /\ old.basis # before
                      \/ basis # after
                      \/ same /\ total = prev.known /\ parser = prev.parser
             a == Annotation(prev, same, after, total)
             plan == Plan(prev, before, after, n, known, replay)
  <1>1. plan = IF stays THEN prev ELSE a
    BY DEF Plan
  <1>2. old.known \in Int /\ (prev # NoAnnotation => old = prev)
    BY DEF Note
  <1>3. total \in Int
    BY <1>2
  <1> HIDE DEF total, old
  <1>4. /\ a \in Note /\ a.basis = after /\ a.parser = parser
        /\ Follows(prev, a) /\ a # NoAnnotation
    <2> DEFINE s == same
    <2>1. s \in BOOLEAN /\ (s => prev.basis = after)
      OBVIOUS
    <2> HIDE DEF s
    <2>2. LET b == Annotation(prev, s, after, total)
          IN  /\ b \in Note /\ b.basis = after /\ b.parser = parser
              /\ Follows(prev, b) /\ b # NoAnnotation
      BY <1>3, <2>1, AnnotationFollows
    <2> QED BY <2>2 DEF s
  <1> HIDE DEF a
  <1>5. ~Older(prev, prev)
    BY DEF Older, Note
  <1>6. a # prev
    BY <1>4, <1>5 DEF Follows
  <1>7. ASSUME stays, prev # NoAnnotation, n # 0, ~replay,
               after = (IF before = Absent THEN 0 ELSE before) + n,
               before # Absent => prev.basis = before
        PROVE  prev.basis = after
    <2>1. WorthPlanning(prev, known)
      BY <1>7 DEF WorthPlanning
    <2>2. basis = after
      BY <1>2, <1>7 DEF Note
    <2>3. ~(extend /\ old.basis # before)
      BY <1>2, <1>7
    <2> QED BY <1>7, <2>1, <2>2, <2>3
  <1> HIDE DEF stays, plan
  <1>8. CASE stays
    BY <1>1, <1>7, <1>8 DEF plan
  <1>9. CASE ~stays
    BY <1>1, <1>4, <1>6, <1>9 DEF plan
  <1> QED BY <1>8, <1>9

-----------------------------------------------------------------------------
\* No event has been written, and nobody has an annotation.
LEMMA InitFits == Init => LedgerFits
  <1> SUFFICES ASSUME Init PROVE LedgerFits
    OBVIOUS
  <1> USE DEF Init
  <1>1. TypeOK
    BY NoneIsNote DEF TypeOK, Totals, NoJournal
  <1>2. CopiesFit /\ JournalFits
    BY DEF CopiesFit, JournalFits, NoJournal, Copy
  <1>3. MarksFit /\ RowsFit
    BY DEF MarksFit, Stands, RowsFit, NoJournal, Describes
  <1> QED BY <1>1, <1>2, <1>3 DEF LedgerFits

\* Steps that leave the ledger, its copies, the rows and the journal alone.
LEMMA QuietFits ==
    ASSUME LedgerFits, TypeOK',
           UNCHANGED <<row, ledger, dirty, journal, details, late, conflicts, excused, swallowed>>,
           pc' = "details" => UNCHANGED <<pc, todo>>,
           pc' \in {"ledger", "rows"} => pc' = pc
    PROVE  LedgerFits'
  <1>1. CopiesFit'
    BY DEF LedgerFits, CopiesFit
  <1>2. JournalFits'
    BY DEF LedgerFits, JournalFits, Merged, Outcome
  <1>3. MarksFit'
    BY DEF LedgerFits, MarksFit, Stands
  <1>4. RowsFit'
    BY DEF LedgerFits, RowsFit, Merged, Outcome
  <1> QED BY <1>1, <1>2, <1>3, <1>4 DEF LedgerFits

\* Tools, installations, previews, kills, and a client that reads the journal.
LEMMA WorldFits ==
    ASSUME LedgerFits,
           \/ \E k \in Key : Log(k) \/ Rotate(k)
           \/ Install \/ Crash \/ SetRevoked \/ Recover \/ Preview \/ UNCHANGED vars
    PROVE  LedgerFits'
  <1>1. TypeOK
    BY DEF LedgerFits
  <1>2. TypeOK'
    <2>1. ASSUME NEW k \in Key, Log(k) PROVE TypeOK'
      <3>1. log' \in [Key -> Totals]
        BY <1>1, <2>1 DEF Log, TypeOK, Totals
      <3> QED BY <1>1, <2>1, <3>1 DEF Log, TypeOK, client, server
    <2>2. ASSUME NEW k \in Key, Rotate(k) PROVE TypeOK'
      <3>1. log' \in [Key -> Totals] /\ parsed' \in [Key -> Totals]
        BY <1>1, <2>2 DEF Rotate, TypeOK, Totals
      <3> QED BY <1>1, <2>2, <3>1 DEF Rotate, TypeOK, server
    <2>3. CASE Install \/ UNCHANGED vars
      BY <1>1, <2>3 DEF Install, vars, TypeOK, client, server
    <2>4. CASE Crash \/ Recover
      BY <1>1, <2>4 DEF Crash, Recover, TypeOK, client, server, Step
    <2>5. CASE SetRevoked
      BY <1>1, <2>5 DEF SetRevoked, TypeOK, client
    <2>6. CASE Preview
      BY <1>1, <2>6 DEF Preview, TypeOK, client, server
    <2> QED BY <2>1, <2>2, <2>3, <2>4, <2>5, <2>6
  <1> QED BY <1>2, QuietFits
          DEF Log, Rotate, Install, Crash, SetRevoked, Recover, Preview, vars, client,
              server, Step

\* The journal a sync writes follows the ledger, and describes its rows
\* wherever an older client does not hold the annotation back.
LEMMA SyncFits == ASSUME LedgerFits, Sync PROVE LedgerFits'
  <1> DEFINE n(k) == log[k].n - parsed[k].n
             known(k) == log[k].known - parsed[k].known
             after == [k \in Key |->
                         IF n(k) > 0 THEN (IF Replay \/ row[k] = Absent THEN 0 ELSE row[k]) + n(k)
                         ELSE IF Replay THEN Absent ELSE row[k]]
             plan == [k \in Key |-> Plan(ledger[k], row[k], after[k], n(k), known(k), Replay)]
             c == [rows |-> after,
                   marked |-> {k \in Key : n(k) > 0} \cup (IF Replay THEN {} ELSE marked),
                   plan |-> {k \in Key : plan[k] # ledger[k]}, ledger |-> plan,
                   replay |-> Replay, parsed |-> log]
  <1>1. TypeOK /\ CopiesFit /\ MarksFit /\ RowsFit /\ ~conflicts
    BY DEF LedgerFits
  <1>2. /\ pc = "idle" /\ pc' = "merge" /\ journal = NoJournal /\ journal' = {c}
        /\ excused' = (excused \ {k \in Key : plan[k] # ledger[k] /\ ledger[k].parser <= parser})
                        \cup {k \in Key : /\ after[k] # row[k]
                                           /\ \/ plan[k] = ledger[k] /\ Replay
                                              \/ ledger[k].parser > parser}
        /\ UNCHANGED <<log, parsed, row, marked, ledger, dirty, parser, todo, preview, server,
                       conflicts, swallowed>>
    BY DEF Sync, Step
  <1>3. Replay \in BOOLEAN
    BY DEF Replay
  <1>4. ASSUME NEW k \in Key
        PROVE  /\ n(k) \in Int /\ known(k) \in Int /\ row[k] \in Int
               /\ after[k] = IF n(k) > 0
                             THEN (IF Replay \/ row[k] = Absent THEN 0 ELSE row[k]) + n(k)
                             ELSE IF Replay THEN Absent ELSE row[k]
    BY <1>1, <1>4 DEF TypeOK, Totals
  <1> HIDE DEF n, known, after
  <1>5. ASSUME NEW k \in Key PROVE after[k] \in Int
    BY <1>4, NoneIsNote
  <1>6. ASSUME NEW k \in Key
        PROVE  /\ plan[k] \in Note
               /\ plan[k] # ledger[k] => /\ Follows(ledger[k], plan[k]) /\ plan[k].basis = after[k]
                                         /\ plan[k].parser = parser /\ plan[k] # NoAnnotation
               /\ (/\ plan[k] = ledger[k] /\ ledger[k] # NoAnnotation /\ n(k) # 0 /\ ~Replay
                   /\ after[k] = (IF row[k] = Absent THEN 0 ELSE row[k]) + n(k)
                   /\ row[k] # Absent => ledger[k].basis = row[k])
                     => ledger[k].basis = after[k]
    <2>1. ledger[k] \in Note /\ parser \in {1, 2}
      BY <1>1 DEF TypeOK
    <2>2. plan[k] = Plan(ledger[k], row[k], after[k], n(k), known(k), Replay)
      OBVIOUS
    <2> HIDE DEF plan
    <2> QED BY <1>3, <1>4, <1>5, <2>1, <2>2, PlanFollows
  <1>7. plan \in [Key -> Note] /\ after \in [Key -> Int]
    BY <1>5, <1>6 DEF after
  <1> HIDE DEF plan
  <1>8. c \in Commits
    <2>1. c.marked \subseteq Key /\ c.plan \subseteq Key /\ log \in [Key -> Totals]
      BY <1>1 DEF TypeOK
    <2> QED BY <1>3, <1>7, <2>1 DEF Commits
  <1>9. c.rows = after /\ c.ledger = plan /\ c.plan = {k \in Key : plan[k] # ledger[k]}
    OBVIOUS
  <1> HIDE DEF c
  <1>10. TypeOK'
    BY <1>1, <1>2, <1>8 DEF TypeOK, server
  <1>11. CopiesFit'
    BY <1>1, <1>2 DEF CopiesFit, server
  <1>12. JournalFits'
    BY <1>2, <1>6, <1>9 DEF JournalFits
  <1>13. MarksFit'
    BY <1>1, <1>2 DEF MarksFit, Stands, server
  <1>14. ASSUME NEW k \in Key, k \notin excused' PROVE Describes(Outcome(c, k), c.rows[k])
    <2>1. ledger[k] \in Note /\ plan[k] \in Note /\ parser \in {1, 2}
      BY <1>1, <1>6 DEF TypeOK
    <2>2. after[k] = row[k] \/ (~(plan[k] = ledger[k] /\ Replay) /\ ledger[k].parser <= parser)
      BY <1>2, <1>14, <2>1 DEF Note
    <2>3. k \notin excused \/ (plan[k] # ledger[k] /\ ledger[k].parser <= parser)
      BY <1>2, <1>14
    <2>4. k \notin excused => Describes(ledger[k], row[k])
      BY <1>1, <1>2 DEF RowsFit
    <2>5. CASE plan[k] # ledger[k] /\ ledger[k].parser <= parser
      <3>1. k \in c.plan /\ ~Skipped(plan[k], ledger[k])
        BY <1>6, <1>9, <2>1, <2>5 DEF Skipped, Follows, Older, Note
      <3>2. Outcome(c, k) = plan[k]
        BY <1>9, <3>1 DEF Outcome, Merged
      <3> QED BY <1>6, <1>9, <2>5, <3>2 DEF Describes
    <2>6. CASE plan[k] # ledger[k] /\ ~(ledger[k].parser <= parser)
      <3>1. ledger[k].parser > parser /\ ledger[k] # NoAnnotation
        BY <2>1, <2>6 DEF Note, NoAnnotation
      <3>2. Skipped(plan[k], ledger[k])
        BY <1>6, <2>1, <2>6, <3>1 DEF Skipped
      <3>3. Outcome(c, k) = ledger[k]
        BY <1>9, <3>1, <3>2 DEF Outcome, Merged
      <3> QED BY <1>9, <2>2, <2>3, <2>4, <2>6, <3>3
    <2>7. CASE plan[k] = ledger[k]
      <3>1. Outcome(c, k) = ledger[k]
        BY <1>9, <2>7 DEF Outcome, Merged
      <3>2. CASE after[k] = row[k]
        BY <1>9, <2>3, <2>4, <2>7, <3>1, <3>2
      <3>3. CASE after[k] # row[k]
        <4>1. ~Replay /\ n(k) > 0
          BY <1>4, <2>2, <2>7, <3>3
        <4>2. /\ n(k) # 0
              /\ after[k] = (IF row[k] = Absent THEN 0 ELSE row[k]) + n(k)
          BY <1>4, <4>1
        <4> QED BY <1>6, <1>9, <2>3, <2>4, <2>7, <3>1, <4>1, <4>2 DEF Describes
      <3> QED BY <3>2, <3>3
    <2> QED BY <2>5, <2>6, <2>7
  <1>15. RowsFit'
    <2>2. ASSUME NEW k \in Key \ excused'
          PROVE  \A d \in journal' : Describes(Outcome(d, k)', d.rows[k])
      <3>1. \A d : Outcome(d, k)' = IF k \in Merged(d.ledger, d.plan) THEN d.ledger[k] ELSE ledger[k]
        BY <1>2 DEF Outcome, Merged
      <3> QED BY <1>2, <1>14, <2>2, <3>1 DEF Outcome
    <2>3. journal' # NoJournal
      BY <1>2 DEF NoJournal
    <2> QED BY <2>2, <2>3 DEF RowsFit
  <1> QED BY <1>1, <1>2, <1>10, <1>11, <1>12, <1>13, <1>15 DEF LedgerFits

\* Redoing the journal never meets a conflict, and keeps what the commit is to
\* lead to.
LEMMA MergeFits ==
    ASSUME LedgerFits, MergeMarks \/ MergeLedger \/ RedoRows PROVE LedgerFits'
  <1>1. TypeOK /\ CopiesFit /\ JournalFits /\ MarksFit /\ RowsFit /\ ~conflicts
    BY DEF LedgerFits
  <1>2. PICK c \in journal :
           \/ /\ MergeMarks
              /\ IF \E k \in c.plan : Conflict(c.ledger[k], ledger[k])
                 THEN pc = "merge" /\ pc' = "idle" /\ conflicts' = TRUE /\ UNCHANGED dirty
                 ELSE /\ pc = "merge" /\ pc' = "ledger"
                      /\ dirty' = Marks(Merged(c.ledger, c.plan), c.replay) /\ UNCHANGED conflicts
           \/ /\ MergeLedger
              /\ ledger' = [k \in Key |-> IF k \in Merged(c.ledger, c.plan) THEN c.ledger[k]
                                          ELSE ledger[k]]
           \/ /\ RedoRows
              /\ row' = c.rows /\ marked' = c.marked /\ parsed' = c.parsed
    BY DEF MergeMarks, MergeLedger, RedoRows, Step
  <1>3. c \in Commits /\ \A d \in journal : d = c
    BY <1>1, <1>2 DEF TypeOK
  <1>4. ASSUME NEW k \in Key
        PROVE  ledger[k] \in Note /\ details[k] \in Note /\ c.ledger[k] \in Note
    BY <1>1, <1>3 DEF TypeOK, Commits
  <1>5. Merged(c.ledger, c.plan) \subseteq c.plan /\ c.plan \subseteq Key
    BY <1>3 DEF Merged, Commits
  <1>6. ASSUME NEW k \in c.plan PROVE c.ledger[k] = ledger[k] \/ Follows(ledger[k], c.ledger[k])
    BY <1>1, <1>2 DEF JournalFits
  <1>7. CASE MergeMarks
    <2>1. /\ pc = "merge"
          /\ UNCHANGED <<row, ledger, journal, todo, details, late, excused, swallowed, log,
                         parsed, marked, parser, preview, serverRow, revoked>>
      BY <1>7 DEF MergeMarks, Step, server
    <2>2. ASSUME NEW k \in c.plan PROVE ~Conflict(c.ledger[k], ledger[k])
      BY <1>4, <1>5, <1>6, <2>2 DEF Conflict, Skipped, Follows
    <2>3. /\ pc' = "ledger" /\ dirty' = Marks(Merged(c.ledger, c.plan), c.replay)
          /\ conflicts' = conflicts
      BY <1>2, <1>7, <2>1, <2>2 DEF MergeLedger, RedoRows, Step
    <2>4. /\ dirty \subseteq dirty' /\ dirty' \subseteq Key
          /\ Merged(c.ledger, c.plan) \subseteq dirty'
      BY <1>1, <1>5, <2>3 DEF Marks, TypeOK
    <2>5. TypeOK'
      BY <1>1, <2>1, <2>3, <2>4 DEF TypeOK
    <2>6. CopiesFit' /\ RowsFit'
      BY <1>1, <2>1 DEF CopiesFit, RowsFit, Outcome, Merged
    <2>7. JournalFits'
      BY <1>1, <1>3, <2>1, <2>3, <2>4 DEF JournalFits, Merged
    <2>8. MarksFit'
      BY <1>1, <2>1, <2>3, <2>4 DEF MarksFit, Stands
    <2> QED BY <1>1, <2>3, <2>5, <2>6, <2>7, <2>8 DEF LedgerFits
  <1>8. CASE MergeLedger
    <2>1. /\ pc = "ledger" /\ pc' = "rows"
          /\ UNCHANGED <<row, dirty, journal, todo, details, late, excused, swallowed, log,
                         parsed, marked, parser, preview, serverRow, revoked, conflicts>>
      BY <1>8 DEF MergeLedger, Step, server
    <2>2. ledger' = [k \in Key |-> IF k \in Merged(c.ledger, c.plan) THEN c.ledger[k]
                                   ELSE ledger[k]]
      BY <1>2, <1>8, <2>1 DEF MergeMarks, RedoRows, Step
    <2>3. ASSUME NEW k \in Key
          PROVE  /\ ledger'[k] \in Note
                 /\ ledger'[k] = Outcome(c, k)
                 /\ ledger'[k] = ledger[k] \/ ledger'[k] = c.ledger[k]
                 /\ Copy(ledger[k], ledger'[k])
      <3>1. ledger'[k] = Outcome(c, k)
        BY <2>2 DEF Outcome
      <3>2. CASE k \in Merged(c.ledger, c.plan)
        <4>1. k \in c.plan /\ ledger'[k] = c.ledger[k]
          BY <1>5, <2>2, <3>2
        <4>2. ledger[k] = NoAnnotation \/ ~Skipped(c.ledger[k], ledger[k])
          BY <3>2 DEF Merged
        <4>3. ledger[k].parser <= c.ledger[k].parser
          BY <1>4, <4>2 DEF Skipped, NoAnnotation, Note
        <4> QED BY <1>4, <1>6, <3>1, <4>1, <4>3 DEF Copy
      <3>3. CASE k \notin Merged(c.ledger, c.plan)
        BY <1>4, <2>2, <3>1, <3>3 DEF Copy
      <3> QED BY <3>2, <3>3
    <2>4. TypeOK'
      BY <1>1, <2>1, <2>2, <2>3 DEF TypeOK
    <2>5. CopiesFit'
      <3>1. ASSUME NEW k \in Key PROVE Copy(details[k], ledger'[k])
        BY <1>1, <1>4, <2>3, CopyTransitive DEF CopiesFit
      <3>2. ASSUME NEW m \in late PROVE Copy(m.record, ledger'[m.key])
        <4>1. m.key \in Key /\ m.record \in Note /\ Copy(m.record, ledger[m.key])
          BY <1>1, <3>2 DEF TypeOK, CopiesFit
        <4> QED BY <1>4, <2>3, <4>1, CopyTransitive
      <3> QED BY <2>1, <3>1, <3>2 DEF CopiesFit
    <2>6. ASSUME NEW k \in Key PROVE Outcome(c, k)' = ledger'[k] /\ c' = c
      <3>1. Outcome(c, k)' \in {c.ledger[k], ledger'[k]}
        BY DEF Outcome
      <3>2. CASE ledger'[k] = c.ledger[k]
        BY <3>1, <3>2
      <3>3. CASE ledger'[k] # c.ledger[k]
        <4>1. ledger'[k] = ledger[k] /\ k \notin Merged(c.ledger, c.plan)
          BY <2>2, <2>3, <3>3
        <4>2. k \notin Merged(c.ledger, c.plan)'
          BY <4>1 DEF Merged
        <4> QED BY <4>2 DEF Outcome
      <3> QED BY <3>2, <3>3
    <2>7. JournalFits'
      <3>1. \A k \in c.plan : c.ledger[k] = ledger'[k] \/ Follows(ledger'[k], c.ledger[k])
        BY <1>5, <1>6, <2>3
      <3> QED BY <1>3, <2>1, <2>6, <3>1 DEF JournalFits
    <2>8. MarksFit'
      <3>1. Merged(c.ledger, c.plan) \subseteq dirty
        BY <1>1, <1>2, <2>1 DEF JournalFits
      <3>2. \A k \in Key \ dirty : ledger'[k] = ledger[k]
        BY <2>2, <3>1
      <3> QED BY <1>1, <2>1, <3>2 DEF MarksFit, Stands
    <2>9. RowsFit'
      <3>1. \A k \in Key \ excused : Describes(Outcome(c, k), c.rows[k])
        BY <1>1, <1>2 DEF RowsFit
      <3>2. journal' # NoJournal
        BY <1>2, <2>1 DEF NoJournal
      <3>3. \A k \in Key \ excused : Describes(Outcome(c, k)', c.rows[k])
        BY <2>3, <2>6, <3>1
      <3> QED BY <1>3, <2>1, <3>2, <3>3 DEF RowsFit
    <2> QED BY <1>1, <2>1, <2>4, <2>5, <2>7, <2>8, <2>9 DEF LedgerFits
  <1>9. CASE RedoRows
    <2>1. /\ pc = "rows" /\ pc' = "idle" /\ journal' = NoJournal
          /\ UNCHANGED <<ledger, dirty, todo, details, late, excused, swallowed, log, parser,
                         preview, serverRow, revoked, conflicts>>
      BY <1>9 DEF RedoRows, Step, server
    <2>2. row' = c.rows /\ marked' = c.marked /\ parsed' = c.parsed
      BY <1>2, <1>9, <2>1 DEF MergeMarks, MergeLedger, Step
    <2>3. TypeOK'
      BY <1>1, <1>3, <2>1, <2>2 DEF TypeOK, Commits, NoJournal
    <2>4. CopiesFit' /\ JournalFits' /\ MarksFit'
      BY <1>1, <2>1 DEF CopiesFit, JournalFits, MarksFit, Stands, NoJournal
    <2>5. ASSUME NEW k \in Key \ excused PROVE Describes(ledger[k], c.rows[k])
      BY <1>1, <1>2, <2>1, <2>5 DEF RowsFit, JournalFits
    <2>6. RowsFit'
      BY <2>1, <2>2, <2>5 DEF RowsFit, NoJournal
    <2> QED BY <1>1, <2>1, <2>3, <2>4, <2>6 DEF LedgerFits
  <1> QED BY <1>7, <1>8, <1>9

\* Reset leaves the ledger, and no row for it to describe.
LEMMA ResetFits == ASSUME LedgerFits, Reset PROVE LedgerFits'
  <1>1. TypeOK /\ CopiesFit /\ JournalFits /\ MarksFit /\ ~conflicts
    BY DEF LedgerFits
  <1>2. /\ pc = "idle" /\ journal = NoJournal
        /\ parsed' = [k \in Key |-> [n |-> 0, known |-> 0]]
        /\ row' = [k \in Key |-> Absent] /\ marked' = {}
        /\ excused' = excused \cup {k \in Key : row[k] # Absent}
        /\ UNCHANGED <<log, ledger, dirty, journal, parser, pc, todo, preview, server,
                       conflicts, swallowed>>
    BY DEF Reset
  <1>3. TypeOK'
    <2>1. parsed' \in [Key -> Totals] /\ row' \in [Key -> Int]
      BY <1>2, NoneIsNote DEF Totals
    <2> QED BY <1>1, <1>2, <2>1 DEF TypeOK, server
  <1>4. CopiesFit' /\ JournalFits' /\ MarksFit'
    BY <1>1, <1>2 DEF CopiesFit, JournalFits, MarksFit, Stands, NoJournal, server
  <1>5. RowsFit'
    BY <1>2 DEF RowsFit, Describes, NoJournal
  <1> QED BY <1>1, <1>2, <1>3, <1>4, <1>5 DEF LedgerFits

\* An enrichment replaces annotations by later ones that describe their rows,
\* and marks them.
LEMMA ApplyFits == ASSUME LedgerFits, Apply PROVE LedgerFits'
  <1>1. TypeOK /\ CopiesFit /\ JournalFits /\ MarksFit /\ RowsFit /\ ~conflicts
    BY DEF LedgerFits
  <1> DEFINE update(seen, k) == Annotation(ledger[k], ledger[k].basis = seen[k].n,
                                           seen[k].n, seen[k].known)
             due(seen) == {k \in Key : /\ seen[k].n > 0 /\ row[k] = seen[k].n
                                       /\ WorthPlanning(ledger[k], seen[k].known)
                                       /\ ledger[k].parser <= parser
                                       /\ ~(/\ ledger[k].basis = seen[k].n
                                            /\ ledger[k].known = seen[k].known
                                            /\ ledger[k].parser = parser)}
  <1>2. PICK seen \in preview :
           IF Settled
           THEN /\ dirty' = Marks(due(seen), FALSE)
                /\ ledger' = [k \in Key |-> IF k \in due(seen) THEN update(seen, k) ELSE ledger[k]]
                /\ excused' = excused \ due(seen)
           ELSE UNCHANGED <<dirty, ledger, excused>>
    BY DEF Apply
  <1>3. /\ pc = "idle" /\ preview' = NoJournal
        /\ UNCHANGED <<log, parsed, row, marked, journal, parser, pc, todo, server, conflicts,
                       swallowed>>
    BY DEF Apply
  <1>4. CASE ~Settled
    <2>1. UNCHANGED <<dirty, ledger, excused>>
      BY <1>2, <1>4
    <2>2. TypeOK'
      BY <1>1, <1>3, <2>1 DEF TypeOK, NoJournal, server
    <2> QED BY <1>3, <2>1, <2>2, QuietFits DEF server
  <1>5. CASE Settled
    <2>1. /\ dirty' = Marks(due(seen), FALSE) /\ excused' = excused \ due(seen)
          /\ ledger' = [k \in Key |-> IF k \in due(seen) THEN update(seen, k) ELSE ledger[k]]
      BY <1>2, <1>5
    <2>2. journal = NoJournal /\ journal' = NoJournal
      BY <1>3, <1>5 DEF Settled
    <2>3. ASSUME NEW k \in Key
          PROVE  ledger[k] \in Note /\ details[k] \in Note /\ seen[k].n \in Int /\ seen[k].known \in Int
      BY <1>1, <1>2 DEF TypeOK, Totals
    <2>4. ASSUME NEW k \in due(seen)
          PROVE  /\ update(seen, k) \in Note /\ update(seen, k).basis = row[k]
                 /\ Copy(ledger[k], update(seen, k))
      <3> DEFINE same == ledger[k].basis = seen[k].n
      <3>1. k \in Key /\ row[k] = seen[k].n /\ ledger[k].parser <= parser
        BY <2>4
      <3>2. same \in BOOLEAN /\ (same => ledger[k].basis = seen[k].n)
        OBVIOUS
      <3> HIDE DEF same
      <3>3. parser \in {1, 2}
        BY <1>1 DEF TypeOK
      <3>4. LET a == Annotation(ledger[k], same, seen[k].n, seen[k].known)
            IN  /\ a \in Note /\ a.basis = seen[k].n /\ a.parser = parser
                /\ Follows(ledger[k], a) /\ a # NoAnnotation
        BY <2>3, <3>1, <3>2, <3>3, AnnotationFollows
      <3> QED BY <3>1, <3>4 DEF Copy, same
    <2>5. due(seen) \subseteq Key
      OBVIOUS
    <2> HIDE DEF update, due
    <2>6. ASSUME NEW k \in Key
          PROVE  ledger'[k] \in Note /\ Copy(ledger[k], ledger'[k])
      BY <2>1, <2>3, <2>4 DEF Copy
    <2>7. dirty \subseteq dirty' /\ due(seen) \subseteq dirty' /\ dirty' \subseteq Key
      BY <1>1, <2>1, <2>5 DEF Marks, TypeOK
    <2>8. TypeOK'
      <3>1. ledger' \in [Key -> Note]
        BY <2>1, <2>6
      <3> QED BY <1>1, <1>3, <2>1, <2>7, <3>1 DEF TypeOK, NoJournal, server
    <2>9. CopiesFit'
      <3>1. ASSUME NEW k \in Key PROVE Copy(details[k], ledger'[k])
        BY <1>1, <2>3, <2>6, CopyTransitive DEF CopiesFit
      <3>2. ASSUME NEW m \in late PROVE Copy(m.record, ledger'[m.key])
        <4>1. m.key \in Key /\ m.record \in Note /\ Copy(m.record, ledger[m.key])
          BY <1>1, <3>2 DEF TypeOK, CopiesFit
        <4> QED BY <2>3, <2>6, <4>1, CopyTransitive
      <3> QED BY <1>3, <3>1, <3>2 DEF CopiesFit, server
    <2>10. JournalFits'
      BY <2>2 DEF JournalFits, NoJournal
    <2>11. MarksFit'
      <3>1. \A k \in Key \ dirty' : k \in Key \ dirty /\ ledger'[k] = ledger[k]
        BY <2>1, <2>7
      <3> QED BY <1>1, <1>3, <3>1 DEF MarksFit, Stands, server
    <2>12. RowsFit'
      <3>1. ASSUME NEW k \in Key \ excused' PROVE Describes(ledger'[k], row[k])
        <4>1. CASE k \in due(seen)
          BY <2>1, <2>4, <4>1 DEF Describes
        <4>2. CASE k \notin due(seen)
          BY <1>1, <2>1, <2>2, <3>1, <4>2 DEF RowsFit
        <4> QED BY <4>1, <4>2
      <3> QED BY <1>3, <2>2, <3>1 DEF RowsFit, NoJournal
    <2> QED BY <1>1, <1>3, <2>8, <2>9, <2>10, <2>11, <2>12 DEF LedgerFits
  <1> QED BY <1>4, <1>5

\* The upload of the rows leaves annotations alone and lists those to send.
LEMMA UploadRowsFits == ASSUME LedgerFits, UploadRows PROVE LedgerFits'
  <1>1. TypeOK /\ CopiesFit /\ JournalFits /\ MarksFit /\ RowsFit /\ ~conflicts
    BY DEF LedgerFits
  <1>2. /\ pc = "idle" /\ pc' = "details" /\ journal = NoJournal
        /\ marked' = {} /\ todo' = {k \in dirty : ledger[k] # NoAnnotation}
        /\ UNCHANGED <<log, parsed, row, ledger, dirty, journal, parser, preview, details,
                       revoked, late, excused, conflicts, swallowed>>
    BY DEF UploadRows, Step
  <1>3. serverRow' \in [Key -> Int]
    BY <1>1 DEF UploadRows, TypeOK
  <1>4. TypeOK'
    BY <1>1, <1>2, <1>3 DEF TypeOK
  <1>5. CopiesFit' /\ JournalFits'
    BY <1>1, <1>2 DEF CopiesFit, JournalFits, NoJournal
  <1>6. MarksFit' /\ RowsFit'
    BY <1>1, <1>2 DEF MarksFit, Stands, RowsFit, NoJournal
  <1> QED BY <1>1, <1>2, <1>4, <1>5, <1>6 DEF LedgerFits

\* What applies to a stored annotation is not older than it, and a copy of
\* the ledger's leaves the server's stored one a copy; a bucket the server has
\* stays so.
LEMMA AppliedFits ==
    ASSUME TypeOK, NEW k \in Key, NEW r \in Note, Copy(details[k], ledger[k]), Copy(r, ledger[k])
    PROVE  LET d == IF Applies(k, r) THEN r ELSE details[k]
           IN  /\ Copy(d, ledger[k]) /\ d \in Note
               /\ ~Older(d, details[k]) /\ d.parser >= details[k].parser
               /\ ~Older(details[k], ledger[k]) => ~Older(d, ledger[k])
  <1>1. details[k] \in Note /\ ledger[k] \in Note
    BY DEF TypeOK
  <1>2. CASE Applies(k, r)
    <2>1. details[k] = NoAnnotation \/ Newer(r, details[k])
      BY <1>2 DEF Applies
    <2>2. ~Older(r, details[k]) /\ r.parser >= details[k].parser
      BY <1>1, <2>1 DEF Newer, Older, Note, NoAnnotation
    <2>3. ~Older(details[k], ledger[k]) => ~Older(r, ledger[k])
      BY <1>1, <2>2 DEF Older, Note
    <2> QED BY <1>2, <2>2, <2>3
  <1>3. CASE ~Applies(k, r)
    BY <1>1, <1>3 DEF Older, Note
  <1> QED BY <1>2, <1>3

\* The receipt of the ledger's own annotation is never a conflict, and a
\* positive one of a device that is not revoked says that the server has it.
LEMMA ReceiptIsTrue ==
    ASSUME TypeOK, NEW k \in Key, Copy(details[k], ledger[k])
    PROVE  /\ Receipt(k, ledger[k]) # "conflict"
           /\ Receipt(k, ledger[k]) \in Positive /\ ~revoked
                 => Applies(k, ledger[k]) \/ details[k] = ledger[k]
  <1>1. details[k] \in Note /\ ledger[k] \in Note
    BY DEF TypeOK
  <1>2. ~Older(ledger[k], details[k]) /\ ~(details[k].parser > ledger[k].parser)
    BY <1>1 DEF Copy, Follows, Older, Note
  <1>3. details[k] # ledger[k] => Newer(ledger[k], details[k])
    BY <1>1 DEF Copy, Follows, Older, Note, Newer
  <1> QED BY <1>2, <1>3 DEF Receipt, Applies, Positive

\* A batch, an answer that is lost, and the batches that never arrive.
LEMMA SendFits == ASSUME LedgerFits, SendBatch PROVE LedgerFits'
  <1>1. TypeOK /\ CopiesFit /\ JournalFits /\ MarksFit /\ RowsFit /\ ~conflicts
    BY DEF LedgerFits
  <1>2. PICK b \in Batches :
         /\ details' = Stored(b)
         /\ conflicts' = (conflicts \/ \E k \in b : Receipt(k, ledger[k]) = "conflict")
         /\ swallowed' = IF revoked THEN swallowed \cup b ELSE swallowed \ b
         /\ \/ /\ \A k \in b : Receipt(k, ledger[k]) \in Positive
               /\ todo' = todo \ b /\ pc' = pc
            \/ todo' = {} /\ pc' = "idle"
    BY DEF SendBatch
  <1>3. /\ pc = "details"
        /\ UNCHANGED <<log, client, parser, preview, serverRow, revoked, late, excused>>
    BY DEF SendBatch
  <1>4. b \subseteq todo /\ todo \subseteq dirty /\ dirty \subseteq Key
    BY <1>1, <1>3 DEF Batches, MarksFit, TypeOK
  <1>5. ASSUME NEW k \in Key
        PROVE  /\ details'[k] \in Note /\ Copy(details'[k], ledger[k])
               /\ ~Older(details[k], ledger[k]) => ~Older(details'[k], ledger[k])
               /\ k \in b /\ Applies(k, ledger[k]) => details'[k] = ledger[k]
    <2>1. Copy(details[k], ledger[k]) /\ ledger[k] \in Note /\ details[k] \in Note
      BY <1>1 DEF CopiesFit, TypeOK
    <2>2. details'[k] = IF k \in b /\ Applies(k, ledger[k]) THEN ledger[k] ELSE details[k]
      BY <1>2 DEF Stored
    <2>3. Copy(ledger[k], ledger[k]) /\ ~Older(ledger[k], ledger[k])
      BY <2>1 DEF Copy, Older, Note
    <2> QED BY <2>1, <2>2, <2>3
  <1>6. ~conflicts'
    BY <1>1, <1>2, <1>4, ReceiptIsTrue DEF CopiesFit
  <1>7. /\ todo' \subseteq todo /\ swallowed' \subseteq Key /\ swallowed \ b \subseteq swallowed'
        /\ revoked => b \subseteq swallowed'
    BY <1>1, <1>2, <1>4 DEF TypeOK
  <1>8. TypeOK'
    <2>1. details' \in [Key -> Note]
      BY <1>2, <1>5 DEF Stored
    <2> QED BY <1>1, <1>2, <1>3, <1>6, <1>7, <2>1 DEF TypeOK, client
  <1>9. CopiesFit'
    BY <1>1, <1>3, <1>5 DEF CopiesFit, client
  <1>10. JournalFits' /\ RowsFit'
    BY <1>1, <1>2, <1>3 DEF JournalFits, RowsFit, Merged, Outcome, client
  <1>11. ASSUME NEW k \in Key \ b, Stands(k) PROVE Stands(k)'
    BY <1>3, <1>5, <1>7, <1>11 DEF Stands, client
  <1>12. ASSUME NEW k \in b, Receipt(k, ledger[k]) \in Positive PROVE Stands(k)'
    <2>1. CASE revoked
      BY <1>7, <1>12, <2>1 DEF Stands
    <2>2. CASE ~revoked
      <3>1. k \in Key /\ ledger[k] \in Note /\ Copy(details[k], ledger[k])
        BY <1>1, <1>4, <1>12 DEF TypeOK, CopiesFit
      <3>2. Applies(k, ledger[k]) \/ details[k] = ledger[k]
        BY <1>1, <1>12, <2>2, <3>1, ReceiptIsTrue
      <3>3. ~Older(details'[k], ledger[k])
        BY <1>5, <3>1, <3>2 DEF Older, Note
      <3> QED BY <1>3, <3>3 DEF Stands, client
    <2> QED BY <2>1, <2>2
  <1>13. MarksFit'
    <2>1. dirty' = dirty /\ \A k \in Key \ dirty : Stands(k)'
      BY <1>1, <1>3, <1>4, <1>11 DEF MarksFit, client
    <2>2. ASSUME pc' = "details" PROVE \A k \in dirty \ todo' : Stands(k)'
      <3>1. todo' = todo \ b /\ \A k \in b : Receipt(k, ledger[k]) \in Positive
        BY <1>2, <2>2
      <3> QED BY <1>1, <1>3, <1>4, <1>11, <1>12, <3>1 DEF MarksFit
    <2> QED BY <1>4, <1>7, <2>1, <2>2 DEF MarksFit
  <1> QED BY <1>6, <1>8, <1>9, <1>10, <1>13 DEF LedgerFits

\* A batch that is lost or delayed, a delayed one that arrives, and the end.
LEMMA LateFits ==
    ASSUME LedgerFits, SendLost \/ Arrive \/ FinishUpload PROVE LedgerFits'
  <1>1. TypeOK /\ CopiesFit /\ JournalFits /\ MarksFit /\ RowsFit /\ ~conflicts
    BY DEF LedgerFits
  <1>2. CASE SendLost
    <2>1. /\ pc = "details" /\ pc' = "idle" /\ todo' = {}
          /\ UNCHANGED <<log, client, parser, preview, serverRow, details, revoked, excused,
                         conflicts, swallowed>>
      BY <1>2 DEF SendLost
    <2>2. PICK b \in Batches :
             late' \in {late, late \cup {[key |-> k, record |-> ledger[k]] : k \in b}}
      BY <1>2 DEF SendLost
    <2>3. b \subseteq Key
      BY <1>1, <2>2 DEF Batches, TypeOK
    <2>4. ASSUME NEW m \in late' PROVE m \in late \/ \E k \in Key : m = [key |-> k, record |-> ledger[k]]
      BY <2>2, <2>3
    <2>5. late' \subseteq [key : Key, record : Note]
      BY <1>1, <2>4 DEF TypeOK
    <2>6. TypeOK'
      BY <1>1, <2>1, <2>5 DEF TypeOK, client
    <2>7. CopiesFit'
      <3>1. \A m \in late' : Copy(m.record, ledger[m.key])
        BY <1>1, <2>4 DEF CopiesFit, Copy
      <3> QED BY <1>1, <2>1, <3>1 DEF CopiesFit, client
    <2>8. JournalFits' /\ RowsFit' /\ MarksFit'
      BY <1>1, <2>1 DEF JournalFits, RowsFit, MarksFit, Stands, Merged, Outcome, client
    <2> QED BY <1>1, <2>1, <2>6, <2>7, <2>8 DEF LedgerFits
  <1>3. CASE Arrive
    <2>1. PICK m \in late :
             /\ late' = late \ {m}
             /\ details' = IF Applies(m.key, m.record) THEN [details EXCEPT ![m.key] = m.record]
                           ELSE details
      BY <1>3 DEF Arrive
    <2>2. UNCHANGED <<log, client, parser, pc, todo, preview, serverRow, revoked, excused,
                      conflicts, swallowed>>
      BY <1>3 DEF Arrive
    <2>3. m.key \in Key /\ m.record \in Note /\ Copy(m.record, ledger[m.key])
      BY <1>1, <2>1 DEF TypeOK, CopiesFit
    <2>4. ASSUME NEW k \in Key
          PROVE  /\ details'[k] \in Note /\ Copy(details'[k], ledger[k])
                 /\ ~Older(details[k], ledger[k]) => ~Older(details'[k], ledger[k])
      <3>1. details[k] \in Note /\ Copy(details[k], ledger[k])
        BY <1>1 DEF TypeOK, CopiesFit
      <3>2. CASE k # m.key
        BY <1>1, <2>1, <3>1, <3>2 DEF TypeOK
      <3>3. CASE k = m.key
        <4>1. details'[k] = IF Applies(k, m.record) THEN m.record ELSE details[k]
          BY <1>1, <2>1, <3>3 DEF TypeOK
        <4> QED BY <1>1, <2>3, <3>1, <3>3, <4>1, AppliedFits
      <3> QED BY <3>2, <3>3
    <2>5. TypeOK'
      <3>1. details' \in [Key -> Note]
        BY <1>1, <2>1, <2>3 DEF TypeOK
      <3> QED BY <1>1, <2>1, <2>2, <3>1 DEF TypeOK, client
    <2>6. CopiesFit'
      BY <1>1, <2>1, <2>2, <2>4 DEF CopiesFit, client
    <2>7. \A k \in Key : Stands(k) => Stands(k)'
      BY <2>2, <2>4 DEF Stands, client
    <2>8. MarksFit'
      BY <1>1, <2>2, <2>7 DEF MarksFit, TypeOK, client
    <2>9. JournalFits' /\ RowsFit'
      BY <1>1, <2>2 DEF JournalFits, RowsFit, Merged, Outcome, client
    <2> QED BY <1>1, <2>2, <2>5, <2>6, <2>8, <2>9 DEF LedgerFits
  <1>4. CASE FinishUpload
    <2>1. /\ pc = "details" /\ pc' = "idle" /\ todo = {} /\ dirty' = {} /\ todo' = {}
          /\ UNCHANGED <<log, parsed, row, marked, ledger, journal, parser, preview, server,
                         excused, conflicts, swallowed>>
      BY <1>4 DEF FinishUpload, Step, Uploaded
    <2>2. TypeOK'
      BY <1>1, <2>1 DEF TypeOK, server
    <2>3. CopiesFit' /\ JournalFits' /\ RowsFit'
      BY <1>1, <2>1 DEF CopiesFit, JournalFits, RowsFit, Merged, Outcome, server
    <2>4. MarksFit'
      BY <1>1, <2>1 DEF MarksFit, Stands, server
    <2> QED BY <1>1, <2>1, <2>2, <2>3, <2>4 DEF LedgerFits
  <1> QED BY <1>2, <1>3, <1>4

\* One step per action.
LEMMA LedgerStep == LedgerFits /\ [Next]_vars => LedgerFits'
  BY WorldFits, SyncFits, MergeFits, ResetFits, ApplyFits, UploadRowsFits, SendFits, LateFits
     DEF Next

\* What the invariant says of the properties.
LEMMA LedgerImplies == LedgerFits => NeverConflicting /\ IntentKept /\ DetailsFollowRow
  BY DEF LedgerFits, NeverConflicting, MarksFit, Stands, IntentKept, RowsFit, Describes,
         DetailsFollowRow

\* Only a request and its late copy change the server's annotations.
LEMMA OnlyNewerFollows == ASSUME LedgerFits, Next PROVE OnlyNewer
  <1>1. TypeOK /\ CopiesFit
    BY DEF LedgerFits
  <1>2. \A k \in Key : details[k] \in Note /\ ledger[k] \in Note /\ Copy(ledger[k], ledger[k])
    BY <1>1 DEF TypeOK, Copy
  <1>3. CASE details' = details
    BY <1>2, <1>3 DEF OnlyNewer, Older, Note
  <1>4. CASE Arrive
    <2>1. PICK m \in late :
             details' = IF Applies(m.key, m.record) THEN [details EXCEPT ![m.key] = m.record]
                        ELSE details
      BY <1>4 DEF Arrive
    <2>2. m.key \in Key /\ m.record \in Note /\ Copy(m.record, ledger[m.key])
      BY <1>1, <2>1 DEF TypeOK, CopiesFit
    <2>3. ASSUME NEW k \in Key
          PROVE  ~Older(details'[k], details[k]) /\ details'[k].parser >= details[k].parser
      <3>1. CASE k = m.key
        <4>1. details'[k] = IF Applies(k, m.record) THEN m.record ELSE details[k]
          BY <1>1, <2>1, <3>1 DEF TypeOK
        <4> QED BY <1>1, <2>2, <3>1, <4>1, AppliedFits DEF CopiesFit
      <3>2. CASE k # m.key
        <4>1. details'[k] = details[k]
          BY <1>1, <2>1, <3>2 DEF TypeOK
        <4> QED BY <1>2, <4>1 DEF Older, Note
      <3> QED BY <3>1, <3>2
    <2> QED BY <2>3 DEF OnlyNewer
  <1>5. CASE SendBatch
    <2>1. PICK b \in Batches : details' = Stored(b)
      BY <1>5 DEF SendBatch
    <2>2. ASSUME NEW k \in Key
          PROVE  ~Older(details'[k], details[k]) /\ details'[k].parser >= details[k].parser
      <3>1. \/ details'[k] = details[k]
            \/ Applies(k, ledger[k]) /\ details'[k] = ledger[k]
        BY <2>1 DEF Stored
      <3> QED BY <1>1, <1>2, <3>1, AppliedFits DEF CopiesFit, Older, Note
    <2> QED BY <2>2 DEF OnlyNewer
  <1>6. Arrive \/ SendBatch \/ details' = details
    BY DEF Next, Log, Rotate, Install, Reset, Crash, SetRevoked, Sync, Recover, MergeMarks,
           MergeLedger, RedoRows, Preview, Apply, UploadRows, SendLost, FinishUpload, server
  <1> QED BY <1>3, <1>4, <1>5, <1>6

\* The invariant holds in every state.
THEOREM LedgerIsSound == Spec => []LedgerFits
  BY InitFits, LedgerStep, PTL DEF Spec

\* No merge throws and no receipt of this device is a conflict, whatever
\* syncs, kills, rotated logs, resets, enrichments, late requests and changes
\* of the client came before (mergeAccounting, ingestAccounting).
THEOREM NoConflict == Spec => []NeverConflicting
  BY LedgerImplies, LedgerIsSound, PTL

\* A mark of the accounting ledger goes only when the server has the
\* annotation, or has acknowledged it while the device was revoked
\* (uploadAccountingUnlocked).
THEOREM MarksAreKept == Spec => []IntentKept
  BY LedgerImplies, LedgerIsSound, PTL

\* Between two commands an annotation adds up to its row, unless a full scan
\* found another row or an older client would not write it
\* (planAccountingUpdates).
THEOREM DetailsDescribeRow == Spec => []DetailsFollowRow
  BY LedgerImplies, LedgerIsSound, PTL

\* No request, late or repeated, takes the server's annotation of a bucket
\* back to an older revision or client (the guard of the upsert).
THEOREM NeverGoesBack == Spec => NeverOlder
  <1>1. LedgerFits /\ [Next]_vars => [OnlyNewer]_vars
    BY OnlyNewerFollows DEF vars
  <1> QED BY <1>1, LedgerIsSound, PTL DEF Spec, NeverOlder
=============================================================================
