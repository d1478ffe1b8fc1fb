-------------------------- MODULE OpenCodeSources --------------------------
(***************************************************************************)
(* OpenCode keeps messages as JSON files in a directory per session, and   *)
(* later as rows of a SQLite database; for a while a message is in both.   *)
(* The JSON driver skips a directory whose mtime it knows and diffs each   *)
(* file's totals; the SQLite driver asks for rows at or after a watermark  *)
(* and leaves out rows whose JSON file it counts.  One session is modelled.*)
(***************************************************************************)
EXTENDS Integers, FiniteSets

CONSTANTS
    Msg,          \* assistant messages
    MaxTotal,     \* bound: tokens of a message
    MaxClock,     \* bound: time_created
    MaxHitches    \* bound: replaced databases, failed opens, crashes

NoJson == [there |-> FALSE, total |-> 0, torn |-> FALSE]
NoRow == [there |-> FALSE, time |-> 0, total |-> 0]
NoFileCursor == [there |-> FALSE, seen |-> NoJson, last |-> 0, key |-> FALSE]
NoDbCursor == [there |-> FALSE, ino |-> 0, time |-> 0, ids |-> {}]
NoCursors == [files |-> [m \in Msg |-> NoFileCursor], dir |-> 0, db |-> NoDbCursor]

VARIABLES
    json, dirTime,     \* the message files and the mtime of their directory
    db, dbIno, clock,  \* the rows, the database file, the time of the latest row
    openCodeDisk,              \* cursors.json
    count,             \* tokens per message in the queue's rows
    step, fresh,       \* the sync, and whether it is a full scan
    mine, unread, sum, \* its cursors, files left and deltas
    hitches,
    settled,           \* history: nothing happened since this sync began
    overlapped,        \* history: rows counted while their file had no key
    early,             \* history: messages that went on after their row was passed
    late,              \* history: rows inserted before the time of another row
    unseen             \* history: files rewritten in a directory that looks unchanged

tool == <<json, dirTime, db, dbIno, clock>>
runVars == <<step, fresh, mine, unread, sum>>
past == <<settled, overlapped, early, late, unseen>>
openCodeVars == <<tool, openCodeDisk, count, runVars, hitches, past>>

Nothing == [m \in Msg |-> 0]
Largest(a, b) == IF a >= b THEN a ELSE b
Total(m) == Largest(json[m].total, db[m].total)

-----------------------------------------------------------------------------
(* OpenCode.  A file is rewritten in place: its directory's mtime stays.   *)
(* What a file holds stands for its own fingerprint.                       *)

CreateFile(m) ==
    /\ ~json[m].there /\ ~db[m].there
    /\ \E torn \in BOOLEAN : json' = [json EXCEPT ![m] = [there |-> TRUE, total |-> 0, torn |-> torn]]
    /\ dirTime' = dirTime + 1 /\ settled' = FALSE
    /\ UNCHANGED <<db, dbIno, clock, openCodeDisk, count, runVars, hitches, overlapped, early, late, unseen>>

CreateRow(m) ==
    /\ ~db[m].there
    /\ \E t \in {clock - 1, clock, clock + 1} \cap 1..MaxClock :
         /\ db' = [db EXCEPT ![m] = [there |-> TRUE, time |-> t, total |-> json[m].total]]
         /\ clock' = Largest(clock, t)
         /\ late' = IF t < clock THEN late \cup {m} ELSE late
    /\ settled' = FALSE
    /\ UNCHANGED <<json, dirTime, dbIno, openCodeDisk, count, runVars, hitches, overlapped, early, unseen>>

Passed(m, cs) == db[m].there /\ (db[m].time < cs.time \/ m \in cs.ids)

\* The message goes on, or its file is written to the end.
Update(m) ==
    /\ json[m].there \/ db[m].there
    /\ \E more \in {0, 1}, torn \in BOOLEAN :
         /\ more = 1 \/ (json[m].torn /\ ~torn)
         /\ torn => json[m].there
         /\ json[m].total + more <= MaxTotal /\ db[m].total + more <= MaxTotal
         /\ json' = IF json[m].there THEN [json EXCEPT ![m].total = @ + more, ![m].torn = torn]
                    ELSE json
         /\ db' = IF db[m].there THEN [db EXCEPT ![m].total = @ + more] ELSE db
    /\ settled' = FALSE
    /\ early' = IF Passed(m, openCodeDisk.db) \/ Passed(m, mine.db) THEN early \cup {m} ELSE early
    /\ unseen' = IF json[m].there /\ dirTime \in {openCodeDisk.dir, mine.dir} THEN unseen \cup {m} ELSE unseen
    /\ UNCHANGED <<dirTime, dbIno, clock, openCodeDisk, count, runVars, hitches, overlapped, late>>

Hitch == hitches < MaxHitches /\ hitches' = hitches + 1

ReplaceDb ==
    /\ Hitch /\ dbIno' = dbIno + 1 /\ settled' = FALSE
    /\ UNCHANGED <<json, dirTime, db, clock, openCodeDisk, count, runVars, overlapped, early, late, unseen>>

-----------------------------------------------------------------------------
(* The sync.                                                               *)

\* discoverOpenCodeFiles: no file of a directory whose mtime is known.
Discovered(cs) == IF cs.dir = dirTime THEN {} ELSE {m \in Msg : json[m].there}

Begin(cs) ==
    /\ mine' = [cs EXCEPT !.dir = dirTime] /\ unread' = Discovered(cs)
    /\ sum' = Nothing /\ step' = "files"
    /\ fresh' = (cs.files = NoCursors.files /\ ~cs.db.there)

StartOpenCode ==
    /\ step = "idle" /\ Begin(openCodeDisk) /\ settled' = TRUE
    /\ UNCHANGED <<tool, openCodeDisk, count, hitches, overlapped, early, late, unseen>>

\* parseOpenCodeFile and buildCursor: a torn file has no key, and keeps its totals.
Read(m, c) ==
    [there |-> TRUE, seen |-> json[m], key |-> ~json[m].torn,
     last |-> IF json[m].torn THEN c.last ELSE json[m].total]

TakeFile(m) ==
    /\ step = "files" /\ m \in unread /\ unread' = unread \ {m}
    /\ LET c == mine.files[m]
       IN  IF c.there /\ c.seen = json[m] THEN UNCHANGED <<mine, sum, unseen>>
           ELSE /\ mine' = [mine EXCEPT !.files[m] = Read(m, c)]
                /\ sum' = [sum EXCEPT ![m] = @ + (IF json[m].torn THEN 0 ELSE json[m].total - c.last)]
                /\ unseen' = unseen \ {m}
    /\ UNCHANGED <<tool, openCodeDisk, count, step, fresh, hitches, settled, overlapped, early, late>>

\* afterAll: the keys of all cursors, skipped directories included.
Keys == {m \in Msg : mine.files[m].key}

\* Rows at or after the watermark.
RowsFrom(cs) == {m \in Msg : db[m].there /\ db[m].time >= cs.time}

DbReplaced == ~fresh /\ mine.db.there /\ mine.db.ino # dbIno

\* Another database file: cursors are cleared, on disk too, and the scan
\* starts again.
RescanOpenCode ==
    /\ step = "files" /\ unread = {} /\ DbReplaced
    /\ openCodeDisk' = NoCursors /\ Begin(NoCursors) /\ settled' = TRUE
    /\ UNCHANGED <<tool, count, hitches, overlapped, early, late, unseen>>

\* The query throws and the cursor is left alone, or the database cannot be
\* opened and a first cursor starts from nothing: the sync goes on.
QueryFails ==
    /\ step = "files" /\ unread = {} /\ Hitch
    /\ step' = "commit" /\ settled' = FALSE
    /\ mine' \in {mine, [mine EXCEPT !.db = IF @.there THEN @
                                           ELSE [there |-> TRUE, ino |-> dbIno, time |-> 0, ids |-> {}]]}
    /\ UNCHANGED <<tool, openCodeDisk, count, fresh, unread, sum, overlapped, early, late, unseen>>

\* processOpenCodeMessages: each row counts its totals.
Processed(new) == [m \in Msg |-> sum[m] + (IF m \in new THEN db[m].total ELSE 0)]

\* The SQLite driver; rows it has seen at the watermark's time are left out.
QueryRows ==
    /\ step = "files" /\ unread = {} /\ ~DbReplaced
    /\ step' = "commit"
    /\ LET found == RowsFrom(mine.db)
           new   == (found \ mine.db.ids) \ Keys
           last  == IF found = {} THEN mine.db.time ELSE CHOOSE t \in {db[m].time : m \in found} :
                       \A m \in found : db[m].time <= t
       IN  /\ sum' = Processed(new)
           /\ mine' = [mine EXCEPT !.db = [there |-> TRUE, ino |-> dbIno, time |-> last,
                                           ids |-> {m \in found : db[m].time = last}]]
           /\ overlapped' = overlapped \cup {m \in new : json[m].there /\ ~mine.files[m].key}
    /\ UNCHANGED <<tool, openCodeDisk, count, fresh, unread, hitches, settled, early, late, unseen>>

CommitOpenCode ==
    /\ step = "commit" /\ step' = "idle"
    /\ openCodeDisk' = mine
    /\ count' = [m \in Msg |-> sum[m] + (IF fresh THEN 0 ELSE count[m])]
    /\ sum' = Nothing /\ fresh' = FALSE
    /\ UNCHANGED <<tool, mine, unread, hitches, past>>

CrashOpenCode ==
    /\ Hitch /\ step # "idle" /\ step' = "idle"
    /\ mine' = openCodeDisk /\ unread' = {} /\ sum' = Nothing /\ fresh' = FALSE /\ settled' = FALSE
    /\ UNCHANGED <<tool, openCodeDisk, count, overlapped, early, late, unseen>>

OpenCodeInit ==
    /\ json = [m \in Msg |-> NoJson] /\ dirTime = 1
    /\ db = [m \in Msg |-> NoRow] /\ dbIno = 1 /\ clock = 1
    /\ openCodeDisk = NoCursors /\ count = Nothing
    /\ step = "idle" /\ fresh = FALSE /\ mine = NoCursors /\ unread = {} /\ sum = Nothing
    /\ hitches = 0 /\ settled = FALSE
    /\ overlapped = {} /\ early = {} /\ late = {} /\ unseen = {}

OpenCodeNext ==
    \/ \E m \in Msg : CreateFile(m) \/ CreateRow(m) \/ Update(m) \/ TakeFile(m)
    \/ ReplaceDb \/ StartOpenCode \/ RescanOpenCode \/ QueryFails \/ QueryRows \/ CommitOpenCode \/ CrashOpenCode

OpenCodeSpec == OpenCodeInit /\ [][OpenCodeNext]_openCodeVars

-----------------------------------------------------------------------------
(* Properties.                                                             *)

\* No message counts more tokens than it has, although it is in both stores
\* and its directory is skipped; what is counted twice was in the database
\* before its file could be read.
NeverTwice == \A m \in Msg : count[m] <= Total(m) \/ m \in overlapped

\* A sync that nothing disturbs leaves no message behind, but for rows that
\* went on after the watermark passed them or came late, and files whose
\* directory looked unchanged.
NothingMissed ==
    step = "idle" /\ settled => \A m \in Msg :
        count[m] >= Total(m) \/ m \in early \cup late \cup unseen \/ json[m].torn
=============================================================================
