--------------------------- MODULE PreservedRows ---------------------------
(***************************************************************************)
(* What a full scan and a reset keep of queue.jsonl, and what the scan     *)
(* that a new accounting schema asks for takes back.  Rows of Antigravity  *)
(* are replaced by each snapshot of its database; rows of retired sources  *)
(* and of other devices have no source any more and must outlive all; the  *)
(* rows of Codex stand for every source that is parsed again from logs.    *)
(* A commit and an upload are one step here: SyncPipeline has their parts. *)
(***************************************************************************)
EXTENDS Integers, FiniteSets

CONSTANTS
    CodexKey, AntiKey,    \* buckets of Codex and of Antigravity on this device
    MaxTok, MaxTroubles   \* bounds: tokens in a bucket; crashes, failed parses, unreadable sources

Kept == {"other device", "retired"}
Row == CodexKey \cup AntiKey \cup Kept
Absent == -1
Inflated == MaxTok + 1  \* what the old schema made of a Codex bucket: no count of the new one

VARIABLES
    codexLog, antiDb,     \* tokens in the logs and in Antigravity's database, 0 for none
    pruned,               \* Codex buckets whose logs were deleted
    queue, dirty,         \* queue.jsonl and dirtyKeys
    usage,                \* the server's rows
    cursors,              \* "old" schema, "new", or "empty"
    counted,              \* tokens of a Codex bucket that the cursors have passed
    running,              \* the command between its first write and its last
    previousKeys,         \* reconcilePreviousQueueRecords, in memory
    antiSnapshot,             \* antigravitySnapshot, in memory
    lastSnapshot,         \* history: the snapshot last committed
    basisLost,            \* history: the old schema's rows were forgotten before a complete scan
    troubles

world == <<codexLog, antiDb, pruned>>
preservedVars == <<world, queue, dirty, usage, cursors, counted, running, previousKeys, antiSnapshot, lastSnapshot, basisLost, troubles>>

NoSnapshot == [k \in AntiKey |-> Absent]
Trouble == troubles < MaxTroubles /\ troubles' = troubles + 1
Present(q, ks) == {k \in ks : q[k] # Absent}

\* The server still has rows of the old schema.
ZerosDue == \E k \in CodexKey : usage[k] = Inflated

-----------------------------------------------------------------------------
(* The sources, and the upload.                                            *)

Work ==
    /\ \/ \E k \in CodexKey \ pruned : codexLog[k] < MaxTok /\ codexLog' = [codexLog EXCEPT ![k] = @ + 1] /\ UNCHANGED antiDb
       \/ \E k \in AntiKey : antiDb[k] < MaxTok /\ antiDb' = [antiDb EXCEPT ![k] = @ + 1] /\ UNCHANGED codexLog
    /\ UNCHANGED <<pruned, queue, dirty, usage, cursors, counted, running, previousKeys, antiSnapshot, lastSnapshot, basisLost, troubles>>

\* Logs rotated away; a conversation deleted in Antigravity.
Forget ==
    /\ Trouble
    /\ \/ \E k \in CodexKey : /\ codexLog[k] > 0 /\ codexLog' = [codexLog EXCEPT ![k] = 0]
                              /\ pruned' = pruned \cup {k} /\ UNCHANGED antiDb
       \/ \E k \in AntiKey : antiDb[k] > 0 /\ antiDb' = [antiDb EXCEPT ![k] = 0] /\ UNCHANGED <<codexLog, pruned>>
    /\ UNCHANGED <<queue, dirty, usage, cursors, counted, running, previousKeys, antiSnapshot, lastSnapshot, basisLost>>

Upload ==
    /\ running = "none" /\ dirty # {}
    /\ usage' = [k \in Row |-> IF k \in dirty /\ queue[k] # Absent THEN queue[k] ELSE usage[k]]
    /\ dirty' = {}
    /\ UNCHANGED <<world, queue, cursors, counted, running, previousKeys, antiSnapshot, lastSnapshot, basisLost, troubles>>

-----------------------------------------------------------------------------
(* pew sync.                                                               *)

\* The baseline and Antigravity's snapshot, or none when its database cannot
\* be read or does not add up.
StartSync ==
    /\ running = "none" /\ running' = "sync"
    /\ \/ antiSnapshot' = antiDb /\ UNCHANGED troubles
       \/ antiSnapshot' = NoSnapshot /\ Trouble
    /\ UNCHANGED <<world, queue, dirty, usage, cursors, counted, previousKeys, lastSnapshot, basisLost>>

\* Accounting schema: the cursors are wiped on disk, the rows that may need
\* a tombstone are known to this process alone.
Wipe ==
    /\ running = "sync" /\ cursors = "old" /\ cursors' = "empty"
    /\ previousKeys' = Present(queue, CodexKey) /\ counted' = [k \in CodexKey |-> 0]
    /\ UNCHANGED <<world, queue, dirty, usage, running, antiSnapshot, lastSnapshot, basisLost, troubles>>

\* A replaced file or a lost cursor: the cursors are wiped for a full scan,
\* which replaces tombstones that are not uploaded yet.
Rescan ==
    /\ running = "sync" /\ cursors = "new" /\ cursors' = "empty" /\ Trouble
    /\ counted' = [k \in CodexKey |-> 0] /\ basisLost' = (basisLost \/ ZerosDue)
    /\ UNCHANGED <<world, queue, dirty, usage, running, previousKeys, antiSnapshot, lastSnapshot>>

\* codexFullyRescanned: some log, and every log parsed.
FullyRescanned(parsed) == parsed # {} /\ parsed = {k \in CodexKey : codexLog[k] > 0}

Reconciled(parsed) == IF FullyRescanned(parsed) THEN previousKeys \ parsed ELSE {}

\* replaceAntigravityPartition: the snapshot, tombstones for what it lacks.
Partition(k) ==
    IF antiSnapshot = NoSnapshot THEN queue[k]
    ELSE IF antiSnapshot[k] > 0 THEN antiSnapshot[k] ELSE IF queue[k] # Absent THEN 0 ELSE Absent

AntiChanged == {k \in AntiKey : Partition(k) # queue[k]}

\* Mutant: a full scan marks what it wrote, and nothing else.
RetainedNone == {}

\* Marks of rows that the scan takes over as they are.
RetainedDirty == dirty \cap Present(queue, AntiKey \cup Kept)

\* \E parsed: the logs that could be read; the commit is atomic.
Commit(parsed) ==
    LET full == cursors = "empty"
        fresh == {k \in parsed : codexLog[k] > counted[k]}
        zeros == IF full THEN Reconciled(parsed) ELSE {}
        base == [k \in CodexKey |-> IF full \/ queue[k] = Absent THEN 0 ELSE queue[k]]
    IN  /\ running = "sync" /\ cursors # "old" /\ running' = "none"
        /\ queue' = [k \in Row |->
              CASE k \in Kept -> queue[k]
                [] k \in AntiKey -> Partition(k)
                [] k \in fresh -> base[k] + codexLog[k] - counted[k]
                [] k \in zeros -> 0
                [] OTHER -> IF full THEN Absent ELSE queue[k]]
        /\ dirty' = fresh \cup zeros \cup AntiChanged \cup (IF full THEN RetainedDirty ELSE dirty)
        /\ counted' = [k \in CodexKey |-> IF k \in parsed THEN codexLog[k] ELSE counted[k]]
        /\ cursors' = "new" /\ previousKeys' = {} /\ antiSnapshot' = NoSnapshot
        /\ lastSnapshot' = IF antiSnapshot = NoSnapshot THEN lastSnapshot ELSE antiSnapshot
        /\ basisLost' = (basisLost \/ (previousKeys # {} /\ ~FullyRescanned(parsed)))
        /\ UNCHANGED <<world, usage>>

SyncCommit ==
    LET logs == {k \in CodexKey : codexLog[k] > 0}
    IN  \/ Commit(logs) /\ UNCHANGED troubles
        \/ \E bad \in logs : Commit(logs \ {bad}) /\ Trouble

-----------------------------------------------------------------------------
(* pew reset.                                                              *)

\* Rows that no scan can bring back.
RowsToKeep == Present(queue, AntiKey \cup Kept)

\* The cursors first, then the marks, then the rows.
ResetCursors ==
    /\ running = "none" /\ running' = "reset marks" /\ cursors' = "empty"
    /\ basisLost' = (basisLost \/ cursors = "old" \/ ZerosDue)
    /\ counted' = [k \in CodexKey |-> 0]
    /\ UNCHANGED <<world, queue, dirty, usage, previousKeys, antiSnapshot, lastSnapshot, troubles>>

ResetMarks ==
    /\ running = "reset marks" /\ running' = "reset rows" /\ dirty' = dirty \cap RowsToKeep
    /\ UNCHANGED <<world, queue, usage, cursors, counted, previousKeys, antiSnapshot, lastSnapshot, basisLost, troubles>>

ResetRows ==
    /\ running = "reset rows" /\ running' = "none"
    /\ queue' = [k \in Row |-> IF k \in RowsToKeep THEN queue[k] ELSE Absent]
    /\ UNCHANGED <<world, dirty, usage, cursors, counted, previousKeys, antiSnapshot, lastSnapshot, basisLost, troubles>>

\* The process is killed: what it held in memory is gone.
KillSync ==
    /\ running # "none" /\ running' = "none" /\ Trouble
    /\ basisLost' = (basisLost \/ previousKeys # {}) /\ previousKeys' = {} /\ antiSnapshot' = NoSnapshot
    /\ UNCHANGED <<world, queue, dirty, usage, cursors, counted, lastSnapshot>>

-----------------------------------------------------------------------------

\* Rows of an older version of pew, uploaded or not yet.
PreservedInit ==
    /\ \E had \in SUBSET CodexKey :
         /\ queue = [k \in Row |-> IF k \in had THEN Inflated ELSE IF k \in Kept THEN 1 ELSE Absent]
         /\ cursors = IF had = {} THEN "empty" ELSE "old"
         /\ codexLog \in [CodexKey -> 0..1]
         /\ pruned = {k \in had : codexLog[k] = 0}
    /\ dirty \in {{}, Present(queue, Row), Present(queue, Row) \cap {"retired"}}
    /\ usage = [k \in Row |-> IF k \in dirty THEN Absent ELSE queue[k]]
    /\ antiDb = [k \in AntiKey |-> 0] /\ counted = [k \in CodexKey |-> 0]
    /\ running = "none" /\ previousKeys = {} /\ antiSnapshot = NoSnapshot
    /\ lastSnapshot = [k \in AntiKey |-> 0] /\ basisLost = FALSE /\ troubles = 0

PreservedNext ==
    \/ Work \/ Forget \/ Upload \/ StartSync \/ Wipe \/ Rescan \/ SyncCommit
    \/ ResetCursors \/ ResetMarks \/ ResetRows \/ KillSync

PreservedSpec == PreservedInit /\ [][PreservedNext]_preservedVars

-----------------------------------------------------------------------------
(* Properties.                                                             *)

AtLeastZero(n) == IF n = Absent THEN 0 ELSE n

\* Rows without a source survive every scan and reset, Antigravity's are
\* those of its last snapshot, and each is on the server unless it is still
\* marked: a mark lost with a full scan would never be made up for.
PreservedIsUploaded ==
    /\ \A k \in Kept : queue[k] = 1
    /\ \A k \in AntiKey : AtLeastZero(queue[k]) = lastSnapshot[k]
    /\ \A k \in AntiKey \cup Kept : k \notin dirty => AtLeastZero(usage[k]) = AtLeastZero(queue[k])

\* Once the new schema's scan is committed and uploaded, nothing the old one
\* inflated is left, unless the tombstones or the basis for them were lost with
\* a killed process, a reset, an incomplete scan or another full scan.
NoInflatedRowLeft ==
    cursors = "new" /\ ~basisLost =>
        \A k \in CodexKey : queue[k] # Inflated /\ (k \notin dirty => usage[k] # Inflated)

\* A row is zeroed only if its logs are gone: a scan that could not read
\* them all is no proof of anything.
ZeroedOnlyIfGone == \A k \in CodexKey : usage[k] = 0 => k \in pruned
=============================================================================
