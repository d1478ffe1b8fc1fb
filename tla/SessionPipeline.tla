--------------------------- MODULE SessionPipeline ---------------------------
(***************************************************************************)
(* The session pipeline of the pew CLI.  Every changed session file is     *)
(* parsed as a whole into a snapshot; the snapshots are appended to a      *)
(* queue, then the cursors (the stat of each file) are saved; the upload   *)
(* sends what lies behind its byte offset and the server keeps the newest  *)
(* snapshot of each session.                                               *)
(*                                                                         *)
(* state.lock lets one command run at a time (SyncPipeline), so there is   *)
(* one control point.  A file is a version number that grows with each     *)
(* write: mtime and size tell versions apart, and of two snapshots the one *)
(* of the later version is the later one.                                  *)
(***************************************************************************)
EXTENDS Integers, Sequences, FiniteSets

CONSTANTS
    Session,     \* sessions, each with a file of its own
    MaxVersion,  \* bound: writes to one file
    MaxWrites,   \* bound: writes to all files
    BatchSize,   \* records per ingest request
    MaxRetries,  \* retries of one request
    MaxFaults,   \* bound: killed commands and failed writes
    MaxLate,     \* bound: given-up requests the server may still apply
    Null         \* no session

ASSUME SessionAssumption ==
    /\ MaxVersion \in Nat /\ MaxWrites \in Nat /\ MaxRetries \in Nat /\ MaxFaults \in Nat
    /\ MaxLate \in Nat /\ BatchSize \in Nat \ {0}
    /\ Null \notin Session

VARIABLES
    file,     \* version of each session file
    writes,   \* writes so far
    present,  \* sessions whose file exists
    cursors,  \* session-cursors.json: the version each file had; 0: none
    queue,    \* session-queue.jsonl
    offset,   \* session-queue.state.json
    server,   \* version of the server's row of each session; 0: none
    late,     \* requests given up by the client that may still be applied
    pc, mem,
    lost,     \* history: sessions whose snapshot was skipped (see NothingElseLost)
    faults    \* killed commands so far

tools == <<file, writes, present>>
cloud == <<server, late>>
vars == <<tools, cursors, queue, offset, cloud, pc, mem, lost, faults>>

Version == 0..MaxVersion
Versions == [Session -> Version]
Unseen == [s \in Session |-> 0]

\* A piece of the queue as one append wrote it: a record, or the fragment of
\* one (no session), with or without its newline.
Piece == [of : Session \cup {Null}, version : Version, ended : BOOLEAN]
Record(s, v) == [of |-> s, version |-> v, ended |-> TRUE]

Mem == [cur : Versions, found : SUBSET Session, todo : SUBSET Session,
        at : {Null} \cup Session, stat : Version,
        snapshots : Seq(Session \X Version),
        rows : Versions, batch : SUBSET Session, attempt : 0..MaxRetries]
NoMem == [cur |-> Unseen, found |-> {}, todo |-> {}, at |-> Null, stat |-> 0,
          snapshots |-> <<>>, rows |-> Unseen, batch |-> {}, attempt |-> 0]

PC == {"idle", "scan", "saveCursors", "send", "saveOffset",
       "xCursors", "xQueue", "xState"}

Goto(label) == pc' = label
Finish == pc' = "idle" /\ mem' = NoMem

Init ==
    /\ file = Unseen /\ writes = 0 /\ present = {}
    /\ cursors = Unseen /\ queue = <<>> /\ offset = 0
    /\ server = Unseen /\ late = {}
    /\ pc = "idle" /\ mem = NoMem
    /\ lost = {} /\ faults = 0

-----------------------------------------------------------------------------
(* The AI tool writes its session files at any time.                       *)

ToolStep == UNCHANGED <<cursors, queue, offset, cloud, pc, mem, lost, faults>>

WriteFile(s) ==
    /\ file[s] < MaxVersion /\ writes < MaxWrites /\ writes' = writes + 1
    /\ file' = [file EXCEPT ![s] = @ + 1] /\ present' = present \cup {s}
    /\ ToolStep

RemoveFile(s) ==
    /\ s \in present
    /\ present' = present \ {s} /\ UNCHANGED <<file, writes>>
    /\ ToolStep

-----------------------------------------------------------------------------
(* sessionSyncLocked.                                                      *)

ScanStep == UNCHANGED <<tools, offset, cloud, faults>>

\* Directory walks swallow errors, so discovery may miss a file.
StartSync ==
    /\ pc = "idle" /\ Goto("scan")
    /\ \E found \in SUBSET present :
          mem' = [NoMem EXCEPT !.cur = cursors, !.found = found, !.todo = found]
    /\ UNCHANGED <<cursors, queue, lost>> /\ ScanStep

\* A file that is gone, or whose stat is the one in the cursor, is skipped.
StatFile(s) ==
    /\ pc = "scan" /\ mem.at = Null /\ s \in mem.todo
    /\ mem' = IF s \notin present \/ cursors[s] = file[s]
              THEN [mem EXCEPT !.todo = @ \ {s}]
              ELSE [mem EXCEPT !.todo = @ \ {s}, !.at = s, !.stat = file[s]]
    /\ UNCHANGED <<cursors, queue, pc, lost>> /\ ScanStep

\* Mutant: the stat kept in the cursor is taken after the parse, by when the
\* file may have grown.
ParseFileThenStat ==
    /\ pc = "scan" /\ mem.at \in present
    /\ mem' = [mem EXCEPT !.cur[mem.at] = file[mem.at], !.at = Null,
                          !.snapshots = Append(@, <<mem.at, mem.stat>>)]
    /\ UNCHANGED <<cursors, queue, pc, lost>> /\ ScanStep

\* The parser reads what the file has become; the cursor keeps the earlier stat.
ParseFile ==
    /\ pc = "scan" /\ mem.at \in present
    /\ mem' = [mem EXCEPT !.cur[mem.at] = mem.stat, !.at = Null,
                          !.snapshots = Append(@, <<mem.at, file[mem.at]>>)]
    /\ UNCHANGED <<cursors, queue, pc, lost>> /\ ScanStep

\* A parser that throws yields no snapshot; the cursor moves all the same.
ParseFailed ==
    /\ pc = "scan" /\ mem.at # Null
    /\ mem' = [mem EXCEPT !.cur[mem.at] = mem.stat, !.at = Null]
    /\ lost' = lost \cup {mem.at}
    /\ UNCHANGED <<cursors, queue, pc>> /\ ScanStep

ScanDone == pc = "scan" /\ mem.at = Null /\ mem.todo = {}

Records(snapshots) ==
    [i \in DOMAIN snapshots |-> Record(snapshots[i][1], snapshots[i][2])]

\* Where the queue ends in a fragment that no upload has read, the first
\* record joins its line.
Ragged == queue # <<>> /\ ~queue[Len(queue)].ended /\ offset < Len(queue)

\* Sessions of appended records that no upload will read: the one that joins
\* a fragment and those that fall below the offset of a deleted queue.
Skipped(snapshots) ==
    {snapshots[i][1] : i \in {j \in DOMAIN snapshots :
                                (j = 1 /\ Ragged) \/ Len(queue) + j <= offset}}

AppendBatch ==
    /\ ScanDone /\ mem.snapshots # <<>> /\ Goto("saveCursors")
    /\ queue' = queue \o Records(mem.snapshots)
    /\ lost' = (lost \ {mem.snapshots[i][1] : i \in DOMAIN mem.snapshots})
               \cup Skipped(mem.snapshots)
    /\ UNCHANGED <<cursors, mem>> /\ ScanStep

Saving == pc = "saveCursors" \/ (ScanDone /\ mem.snapshots = <<>>)

\* pruneAliasCursors forgets the paths that are gone.
SaveCursors ==
    /\ Saving /\ Finish
    /\ cursors' = [s \in Session |->
                     IF s \in mem.found \cup present THEN mem.cur[s] ELSE 0]
    /\ UNCHANGED <<queue, lost>> /\ ScanStep

-----------------------------------------------------------------------------
(* The upload engine without record keys: everything behind the offset.    *)

UploadStep == UNCHANGED <<tools, cursors, queue, lost, faults>>

\* A line that starts at the offset or after a newline, and parses.
Readable(i) ==
    /\ i > offset /\ queue[i].of # Null
    /\ i - 1 > offset => queue[i - 1].ended
    /\ queue[i].ended \/ i = Len(queue)

Highest(S) == CHOOSE v \in S : \A w \in S : w <= v

\* deduplicateSessionRecords: the latest snapshot of each session.
Pending == [s \in Session |->
    Highest({0} \cup {queue[i].version : i \in {j \in 1..Len(queue) :
                                           Readable(j) /\ queue[j].of = s}})]

\* With nothing to send the offset still moves past lines that do not parse.
StartUpload ==
    /\ pc = "idle"
    /\ IF Pending # Unseen
       THEN Goto("send") /\ mem' = [mem EXCEPT !.rows = Pending]
       ELSE Goto(IF offset # Len(queue) THEN "saveOffset" ELSE "idle")
            /\ UNCHANGED mem
    /\ UNCHANGED <<offset, cloud>> /\ UploadStep

Unsent == {s \in Session : mem.rows[s] > 0}
Batches ==
    IF mem.batch # {} THEN {mem.batch}
    ELSE {b \in SUBSET Unsent : \/ Cardinality(b) = BatchSize
                                \/ b = Unsent /\ Cardinality(b) < BatchSize}
Request(b) == [s \in Session |-> IF s \in b THEN mem.rows[s] ELSE 0]

\* Mutant: the upsert overwrites whatever snapshot the row has.
UpsertAny(table, r) == [s \in Session |-> IF r[s] > 0 THEN r[s] ELSE table[s]]

\* A row is replaced by a snapshot that is not older.
Upsert(table, r) ==
    [s \in Session |-> IF r[s] > 0 /\ r[s] >= table[s] THEN r[s] ELSE table[s]]

SendOk ==
    /\ pc = "send"
    /\ \E b \in Batches :
         /\ server' = Upsert(server, Request(b))
         /\ mem' = [mem EXCEPT !.rows = [s \in Session |-> IF s \in b THEN 0 ELSE @[s]],
                               !.batch = {}, !.attempt = 0]
         /\ Goto(IF Unsent \subseteq b THEN "saveOffset" ELSE "send")
    /\ UNCHANGED <<offset, late>> /\ UploadStep

\* Mutant: the engine retries without end.
SendFailedForever ==
    /\ pc = "send"
    /\ \E b \in Batches : mem' = [mem EXCEPT !.batch = b, !.attempt = @ + 1]
    /\ UNCHANGED <<offset, cloud, pc>> /\ UploadStep

\* 429, 5xx or a network error: not applied, applied with its answer lost, or
\* applied later.
SendFailed ==
    /\ pc = "send"
    /\ \E b \in Batches :
         /\ \/ UNCHANGED cloud
            \/ server' = Upsert(server, Request(b)) /\ UNCHANGED late
            \/ /\ Cardinality(late) < MaxLate
               /\ late' = late \cup {Request(b)} /\ UNCHANGED server
         /\ IF mem.attempt < MaxRetries
            THEN mem' = [mem EXCEPT !.batch = b, !.attempt = @ + 1] /\ UNCHANGED pc
            ELSE Finish
    /\ UNCHANGED offset /\ UploadStep

\* Any other 4xx ends the upload.
SendRefused ==
    /\ pc = "send" /\ Finish
    /\ UNCHANGED <<offset, cloud>> /\ UploadStep

\* The offset is the length the queue had when it was read.
SaveOffset ==
    /\ pc = "saveOffset" /\ Finish
    /\ offset' = Len(queue)
    /\ UNCHANGED cloud /\ UploadStep

ApplyLate ==
    /\ \E r \in late : server' = Upsert(server, r) /\ late' = late \ {r}
    /\ UNCHANGED <<offset, pc, mem>> /\ UploadStep

-----------------------------------------------------------------------------
(* executeReset.  It reads the queue first and refuses when a line does    *)
(* not parse; then it deletes cursors, queue and offset.                   *)

ResetStep == UNCHANGED <<tools, cloud, mem, lost, faults>>

Lines(q) == {i \in DOMAIN q : i = 1 \/ q[i - 1].ended}
Parses(q) == \A i \in DOMAIN q : i \in Lines(q) /\ q[i].of # Null

StartReset ==
    /\ pc = "idle" /\ Parses(queue) /\ Goto("xCursors")
    /\ UNCHANGED <<cursors, queue, offset>> /\ ResetStep

ResetCursors ==
    /\ pc = "xCursors" /\ Goto("xQueue")
    /\ cursors' = Unseen /\ UNCHANGED <<queue, offset>> /\ ResetStep

ResetQueue ==
    /\ pc = "xQueue" /\ Goto("xState")
    /\ queue' = <<>> /\ UNCHANGED <<cursors, offset>> /\ ResetStep

ResetState ==
    /\ pc = "xState" /\ Goto("idle")
    /\ offset' = 0 /\ UNCHANGED <<cursors, queue>> /\ ResetStep

-----------------------------------------------------------------------------
\* What a torn append leaves: some records and perhaps a piece of the next,
\* which is a fragment or lacks only its newline.
TornAppends ==
    LET all == Records(mem.snapshots)
    IN  UNION {{SubSeq(all, 1, n - 1),
                Append(SubSeq(all, 1, n - 1), [all[n] EXCEPT !.ended = FALSE]),
                Append(SubSeq(all, 1, n - 1),
                       [of |-> Null, version |-> 0, ended |-> FALSE])}
               : n \in DOMAIN all}

\* The command is killed or its write fails.  An append, and the plain
\* writeFile of cursors and offset, may be torn; torn files load as empty.
Interrupt ==
    /\ pc # "idle" /\ faults < MaxFaults
    /\ faults' = faults + 1 /\ Finish
    /\ \/ UNCHANGED <<cursors, queue, offset>>
       \/ /\ ScanDone
          /\ \E torn \in TornAppends : queue' = queue \o torn
          /\ UNCHANGED <<cursors, offset>>
       \/ Saving /\ cursors' = Unseen /\ UNCHANGED <<queue, offset>>
       \/ pc = "saveOffset" /\ offset' = 0 /\ UNCHANGED <<cursors, queue>>
    /\ UNCHANGED <<tools, cloud, lost>>

-----------------------------------------------------------------------------
SessionSync ==
    \/ \E s \in Session : StatFile(s)
    \/ ParseFile \/ ParseFailed \/ AppendBatch \/ SaveCursors

SessionUpload == SendOk \/ SendFailed \/ SendRefused \/ SaveOffset

Reset == ResetCursors \/ ResetQueue \/ ResetState

Next ==
    \/ \E s \in Session : WriteFile(s) \/ RemoveFile(s)
    \/ StartSync \/ StartUpload \/ StartReset
    \/ SessionSync \/ SessionUpload \/ Reset
    \/ ApplyLate \/ Interrupt

Spec == Init /\ [][Next]_vars

\* What must stop for the pipeline to converge: kills, failed requests, files
\* that cannot be parsed or are missed by discovery, and resets.
Trouble ==
    \/ Interrupt \/ SendFailed \/ SendRefused \/ ParseFailed \/ StartReset
    \/ StartSync /\ mem'.found # present

\* A started command keeps running, hooks and the user keep starting syncs
\* and uploads, and trouble stops some day.
FairSpec ==
    /\ Spec
    /\ WF_vars(SessionSync \/ SessionUpload \/ Reset)
    /\ SF_vars(StartSync) /\ SF_vars(StartUpload) /\ WF_vars(ApplyLate)
    /\ <>[][~Trouble]_vars

-----------------------------------------------------------------------------
TypeOK ==
    /\ file \in Versions /\ writes \in 0..MaxWrites /\ present \subseteq Session
    /\ cursors \in Versions /\ queue \in Seq(Piece) /\ offset \in Nat
    /\ server \in Versions /\ late \subseteq Versions
    /\ pc \in PC /\ mem \in Mem
    /\ lost \subseteq Session /\ faults \in 0..MaxFaults

\* A cursor that will skip a file stands for a snapshot, at least as new, that
\* the server has or the next upload sends, whatever is killed or torn in
\* between (session-sync.ts: the queue is written first "so that a crash
\* between the two never loses data").  The ways to lose one are those that
\* enter `lost`: a parser that throws, a torn append whose line swallows the
\* next record, and a reset killed before it deleted the offset.
NothingElseLost ==
    \A s \in Session \ lost :
        server[s] >= cursors[s] \/ Pending[s] >= cursors[s]

\* Late and repeated requests never put an older snapshot back
\* (SESSION_UPSERT_SQL), and once trouble stops the server has the newest
\* version of every file that is not lost.
NewestWins ==
    <>[](\A s \in present \ lost : server[s] = file[s])
=============================================================================
