---------------------------- MODULE SyncPipeline ----------------------------
(***************************************************************************)
(* The token pipeline of the pew CLI: `pew sync` parses the append-only    *)
(* logs of AI tools behind per-file cursors and folds what is new into a   *)
(* local queue of usage rows, `pew upload` sends the dirty rows to the     *)
(* server, `pew reset` deletes the local state.  All three run under       *)
(* state.lock; a process may be killed between, or in the middle of, any   *)
(* two writes.                                                             *)
(*                                                                         *)
(* Token counts are abstracted to multiplicities: a log is a sequence of   *)
(* events, a queue (or the server's table) says how many times it counts   *)
(* each event, and the row of a bucket key is the restriction of that      *)
(* function to the events of the key.  Summing two rows adds               *)
(* multiplicities, so a double count is a 2 and a lost event is a 0.       *)
(***************************************************************************)
EXTENDS Integers, FiniteSets

CONSTANTS
    Proc,        \* processes that may run a pew command
    File,        \* log files of the AI tools
    MaxLen,      \* bound: events ever appended to one log file
    Key,         \* bucket keys source|model|hour_start|device_id
    KeyOf,       \* the bucket key of each event
    BatchSize,   \* records per ingest request
    MaxRetries,  \* retries of one request
    MaxIno,      \* bound: inodes one path ever has
    MaxFaults,   \* bound: crashes, failed writes and lost cursor entries
    MaxLate,     \* bound: given-up requests the server may still apply
    Null         \* an absent cursor, journal, field or lock file

Event == File \X (1..MaxLen)

(* The data. *)

Counts == [Event -> Nat]
Nothing == [e \in Event |-> 0]

Cursor == [ino : 1..MaxIno, to : 0..MaxLen]
CursorFile == [file : [File -> {Null} \cup Cursor], known : SUBSET File]
NoCursors == [file |-> [f \in File |-> Null], known |-> {}]

QState == [offset : {"start", "eof"}, dirty : {Null} \cup SUBSET Key]
\* What loadState returns for a missing or unparsable file.
NoQState == [offset |-> "start", dirty |-> Null]

\* A commit whose records are Null leaves the queue alone.
Commit == [records : {Null} \cup Counts, dirty : SUBSET Key,
           cursors : CursorFile]

Orphan == "orphan"   \* state.lock of a process that died holding it

ASSUME ConstantsAssumption ==
    /\ MaxLen \in Nat /\ MaxIno \in Nat /\ MaxRetries \in Nat
    /\ MaxFaults \in Nat /\ MaxLate \in Nat
    /\ BatchSize \in Nat \ {0}
    /\ KeyOf \in [Event -> Key]
    /\ Orphan \notin Proc /\ Null \notin Proc \cup {Orphan}
    /\ Null \notin Cursor /\ \A s \in SUBSET Key : Null # s
    /\ Null \notin Counts /\ Null \notin Commit

VARIABLES
    log,        \* the log files: inode, events dropped from the front, length
    cursors,    \* cursors.json
    queue,      \* queue.jsonl
    qstate,     \* queue.state.json: upload offset and dirty keys
    journal,    \* sync-commit.json
    server,     \* usage rows of this device in the server's database
    late,       \* requests given up by the client that may still be applied
    stateLock,  \* state.lock
    pc, mem,    \* control point and local memory of each process
    faults      \* crashes, failed writes and lost cursor entries so far

disk == <<cursors, queue, qstate, journal>>
cloud == <<server, late>>
vars == <<log, disk, cloud, stateLock, pc, mem, faults>>

-----------------------------------------------------------------------------
(* Local memory of a command.  loaded: the cursors read at the start of    *)
(* the scan; cur: the cursors built so far; seen: the events parsed so     *)
(* far; rows, send, batch, attempt: the state of an upload.                *)

Mem == [op : {"sync", "upload", "reset"}, committed : BOOLEAN,
        loaded : CursorFile, cur : CursorFile,
        found : SUBSET File, todo : SUBSET File, seen : SUBSET Event,
        rows : Counts, legacy : BOOLEAN,
        send : SUBSET Key, batch : SUBSET Key, attempt : 0..MaxRetries]
NoMem == [op |-> "sync", committed |-> FALSE,
          loaded |-> NoCursors, cur |-> NoCursors,
          found |-> {}, todo |-> {}, seen |-> {},
          rows |-> Nothing, legacy |-> FALSE,
          send |-> {}, batch |-> {}, attempt |-> 0]

PC == {"idle", "recover", "rDirty", "rQueue", "rOffset", "rCursors",
       "rUnlink", "discover", "scan", "wipe", "load", "rewind", "send",
       "saveOffset", "clearDirty", "xCursors", "xQueue", "xState", "release"}

\* Control points whose write is a plain writeFile: truncate, then write.
WritesQState == {"rDirty", "rOffset", "rewind", "saveOffset", "clearDirty"}
WritesCursors == {"rCursors", "wipe"}

\* A queue has a record for each key some parsed delta fell in.
KeysOf(q) == {KeyOf[e] : e \in {x \in Event : q[x] > 0}}
Present == {f \in File : log[f].there}

\* initialCursorEmpty: the sync is a full scan.
IsEmpty(c) == \A f \in File : c.file[f] = Null

Goto(p, label) == pc' = [pc EXCEPT ![p] = label]
Set(p, m) == mem' = [mem EXCEPT ![p] = m]

Init ==
    /\ log = [f \in File |-> [there |-> FALSE, ino |-> 0, base |-> 0, size |-> 0]]
    /\ cursors = NoCursors /\ queue = Nothing /\ qstate = NoQState
    /\ journal = Null
    /\ server = Nothing /\ late = {}
    /\ stateLock = Null
    /\ pc = [p \in Proc |-> "idle"] /\ mem = [p \in Proc |-> NoMem]
    /\ faults = 0

-----------------------------------------------------------------------------
(* The tools that own the log files.                                       *)

ToolStep == UNCHANGED <<disk, cloud, stateLock, pc, mem, faults>>

Create(f) ==
    /\ ~log[f].there /\ log[f].ino < MaxIno
    /\ log' = [log EXCEPT ![f].there = TRUE, ![f].ino = @ + 1]
    /\ ToolStep

AppendTo(f) ==
    /\ log[f].there /\ log[f].size < MaxLen
    /\ log' = [log EXCEPT ![f].size = @ + 1]
    /\ ToolStep

\* The path gets a new inode: the file was rewritten with its history, or
\* rotated without it.
Replace(f) ==
    /\ log[f].there /\ log[f].ino < MaxIno
    /\ \E base \in {log[f].base, log[f].size} :
          log' = [log EXCEPT ![f].ino = @ + 1, ![f].base = base]
    /\ ToolStep

Delete(f) ==
    /\ log[f].there
    /\ log' = [log EXCEPT ![f].there = FALSE, ![f].base = log[f].size]
    /\ ToolStep

Tool == \E f \in File : Create(f) \/ AppendTo(f) \/ Replace(f) \/ Delete(f)

-----------------------------------------------------------------------------
(* withStateLock.  A command that finds the lock taken fails at once and   *)
(* changes nothing; a dead owner's lock stays until the operator has       *)
(* checked that the owner is gone.                                         *)

\* Mutant: the command does not look at the lock.
StartUnlocked(p, op) ==
    /\ pc[p] = "idle"
    /\ stateLock' = p
    /\ Goto(p, "recover") /\ Set(p, [NoMem EXCEPT !.op = op])
    /\ UNCHANGED <<log, disk, cloud, faults>>

Start(p, op) ==
    /\ pc[p] = "idle" /\ stateLock = Null
    /\ stateLock' = p
    /\ Goto(p, "recover") /\ Set(p, [NoMem EXCEPT !.op = op])
    /\ UNCHANGED <<log, disk, cloud, faults>>

\* Mutant: the lock file is not removed.
ReleaseNothing(p) ==
    /\ pc[p] = "release"
    /\ Goto(p, "idle") /\ Set(p, NoMem)
    /\ UNCHANGED <<log, disk, cloud, stateLock, faults>>

Release(p) ==
    /\ pc[p] = "release"
    /\ stateLock' = IF stateLock = p THEN Null ELSE stateLock
    /\ Goto(p, "idle") /\ Set(p, NoMem)
    /\ UNCHANGED <<log, disk, cloud, faults>>

RemoveOrphan ==
    /\ stateLock = Orphan
    /\ stateLock' = Null
    /\ UNCHANGED <<log, disk, cloud, pc, mem, faults>>

-----------------------------------------------------------------------------
(* recoverSyncCommit: redo the journalled commit, one write at a time.     *)

AfterRecovery(m) ==
    CASE m.op = "upload" -> "load"
      [] m.op = "reset" -> "xCursors"
      [] m.op = "sync" /\ ~m.committed -> "discover"
      [] OTHER -> "release"

RecoverStep(p, from, to) ==
    /\ pc[p] = from /\ Goto(p, to)
    /\ UNCHANGED <<log, cloud, stateLock, mem, faults>>

ReadJournal(p) ==
    /\ RecoverStep(p, "recover",
           IF journal = Null THEN AfterRecovery(mem[p])
           ELSE IF journal.records = Null THEN "rCursors" ELSE "rDirty")
    /\ UNCHANGED disk

RedoDirty(p) ==
    /\ RecoverStep(p, "rDirty", "rQueue")
    /\ qstate' = [qstate EXCEPT !.dirty = journal.dirty]
    /\ UNCHANGED <<cursors, queue, journal>>

\* Mutant: the records are appended to the queue.
RedoQueueAdds(p) ==
    /\ RecoverStep(p, "rQueue", "rOffset")
    /\ queue' = [e \in Event |-> queue[e] + journal.records[e]]
    /\ UNCHANGED <<cursors, qstate, journal>>

RedoQueue(p) ==
    /\ RecoverStep(p, "rQueue", "rOffset")
    /\ queue' = journal.records
    /\ UNCHANGED <<cursors, qstate, journal>>

RedoOffset(p) ==
    /\ RecoverStep(p, "rOffset", "rCursors")
    /\ qstate' = [qstate EXCEPT !.offset = "start"]
    /\ UNCHANGED <<cursors, queue, journal>>

RedoCursors(p) ==
    /\ RecoverStep(p, "rCursors", "rUnlink")
    /\ cursors' = journal.cursors
    /\ UNCHANGED <<queue, qstate, journal>>

DropJournal(p) ==
    /\ RecoverStep(p, "rUnlink", AfterRecovery(mem[p]))
    /\ journal' = Null
    /\ UNCHANGED <<cursors, queue, qstate>>

Recovery(p) ==
    \/ ReadJournal(p) \/ RedoDirty(p) \/ RedoQueue(p) \/ RedoOffset(p)
    \/ RedoCursors(p) \/ DropJournal(p)

-----------------------------------------------------------------------------
(* executeSync: discovery, the per-file loop, the replay restart and the   *)
(* planning of the commit.                                                 *)

SyncStep == UNCHANGED <<log, cloud, stateLock, faults>>

\* Directory walks swallow errors, so discovery may miss a file.
Discover(p, found) ==
    /\ pc[p] = "discover" /\ Goto(p, "scan")
    /\ found \subseteq Present
    /\ Set(p, [NoMem EXCEPT !.loaded = cursors, !.cur = cursors,
                            !.found = found, !.todo = found])
    /\ UNCHANGED disk /\ SyncStep

\* A replay of f would count again what the queue already holds.
NeedsReplay(loaded, f) ==
    /\ ~IsEmpty(loaded)
    /\ IF loaded.file[f] = Null THEN f \in loaded.known
       ELSE loaded.file[f].ino # log[f].ino

NewEvents(loaded, f) ==
    LET from == IF loaded.file[f] = Null THEN log[f].base ELSE loaded.file[f].to
    IN  {f} \X ((from + 1)..log[f].size)

\* The cursor of f moves to the end of the file.
Advanced(c, f) ==
    [file  |-> [c.file EXCEPT ![f] = [ino |-> log[f].ino, to |-> log[f].size]],
     known |-> c.known \cup {f}]

ScanFile(p, f) ==
    /\ pc[p] = "scan" /\ f \in mem[p].todo
    /\ log[f].there /\ ~NeedsReplay(mem[p].loaded, f)
    /\ Set(p, [mem[p] EXCEPT
                 !.todo = @ \ {f},
                 !.seen = @ \cup NewEvents(mem[p].loaded, f),
                 !.cur = Advanced(@, f)])
    /\ UNCHANGED <<disk, pc>> /\ SyncStep

\* stat or the parser failed: the file keeps the cursor it had.
ScanFailed(p, f) ==
    /\ pc[p] = "scan" /\ f \in mem[p].todo
    /\ log[f].there => ~NeedsReplay(mem[p].loaded, f)
    /\ Set(p, [mem[p] EXCEPT !.todo = @ \ {f}])
    /\ UNCHANGED <<disk, pc>> /\ SyncStep

DetectReplay(p, f) ==
    /\ pc[p] = "scan" /\ f \in mem[p].todo
    /\ log[f].there /\ NeedsReplay(mem[p].loaded, f)
    /\ Goto(p, "wipe") /\ Set(p, NoMem)
    /\ UNCHANGED disk /\ SyncStep

Wipe(p) ==
    /\ pc[p] = "wipe" /\ Goto(p, "discover")
    /\ cursors' = NoCursors
    /\ UNCHANGED <<queue, qstate, journal, mem>> /\ SyncStep

\* pruneAliasCursors: forget the paths that discovery did not list and that
\* do not exist any more.
Pruned(c, found) ==
    LET gone == File \ (found \cup Present)
    IN  [file |-> [f \in File |-> IF f \in gone THEN Null ELSE c.file[f]],
         known |-> c.known \ gone]

\* Full scan: the records replace the queue.  Otherwise they are summed with it.
PlannedQueue(m) ==
    [e \in Event |-> (IF IsEmpty(m.loaded) THEN 0 ELSE queue[e])
                     + (IF e \in m.seen THEN 1 ELSE 0)]

\* Mutant: an incremental sync forgets the keys that were already dirty.
PlannedDirtyFreshOnly(m) == {KeyOf[e] : e \in m.seen}

PlannedDirty(m) ==
    LET fresh == {KeyOf[e] : e \in m.seen}
        pending == IF qstate.dirty # Null THEN qstate.dirty
                   ELSE IF qstate.offset = "start" THEN KeysOf(queue) ELSE {}
    IN  IF IsEmpty(m.loaded) THEN fresh
        ELSE (IF qstate.dirty = Null THEN {} ELSE qstate.dirty) \cup fresh
             \cup (pending \cap KeysOf(PlannedQueue(m)))

Planned(m) ==
    LET write == IsEmpty(m.loaded) \/ m.seen # {}
    IN  [records |-> IF write THEN PlannedQueue(m) ELSE Null,
         dirty   |-> IF write THEN PlannedDirty(m) ELSE {},
         cursors |-> Pruned(m.cur, m.found)]

\* The commit becomes durable with the rename of its temporary file.
WriteJournal(p) ==
    /\ pc[p] = "scan" /\ mem[p].todo = {} /\ Goto(p, "recover")
    /\ journal' = Planned(mem[p])
    /\ Set(p, [NoMem EXCEPT !.committed = TRUE])
    /\ UNCHANGED <<cursors, queue, qstate>> /\ SyncStep

Sync(p) ==
    \/ \E found \in SUBSET Present : Discover(p, found)
    \/ \E f \in File : ScanFile(p, f) \/ ScanFailed(p, f) \/ DetectReplay(p, f)
    \/ Wipe(p) \/ WriteJournal(p)

-----------------------------------------------------------------------------
(* The upload engine.                                                      *)

\* Mutant: the server adds to its rows (the upsert before overwriting).
AddUp(table, r) ==
    [e \in Event |-> table[e] + IF KeyOf[e] \in r.keys THEN r.rows[e] ELSE 0]

\* A request overwrites the server's rows of the keys it carries.
Overwrite(table, r) ==
    [e \in Event |-> IF KeyOf[e] \in r.keys THEN r.rows[e] ELSE table[e]]

ToSend ==
    IF qstate.dirty # Null THEN qstate.dirty \cap KeysOf(queue)
    ELSE IF qstate.offset = "start" THEN KeysOf(queue) ELSE {}

LoadUpload(p) ==
    LET legacy == qstate.dirty = Null
    IN  /\ pc[p] = "load"
        /\ IF ToSend # {}
           THEN /\ Goto(p, "send")
                /\ Set(p, [mem[p] EXCEPT !.legacy = legacy, !.send = ToSend,
                                         !.rows = queue])
           ELSE /\ Goto(p, IF legacy /\ qstate.offset = "eof" /\ queue = Nothing
                           THEN "rewind"
                           ELSE IF ~legacy /\ qstate.dirty # {}
                           THEN "clearDirty" ELSE "release")
                /\ UNCHANGED mem
        /\ UNCHANGED <<log, disk, cloud, stateLock, faults>>

\* A legacy offset past the end of a queue that was deleted goes back to 0.
RewindOffset(p) ==
    /\ pc[p] = "rewind" /\ Goto(p, "release")
    /\ qstate' = [qstate EXCEPT !.offset = "start"]
    /\ UNCHANGED <<log, cursors, queue, journal, cloud, stateLock, mem, faults>>

Batches(m) ==
    IF m.batch # {} THEN {m.batch}
    ELSE {b \in SUBSET m.send :
            \/ Cardinality(b) = BatchSize
            \/ b = m.send /\ Cardinality(b) < BatchSize}

Request(m, b) == [keys |-> b, rows |-> m.rows]

\* Mutant: the engine takes the first batch for the whole upload.
SendOkOnce(p) ==
    /\ pc[p] = "send"
    /\ \E b \in Batches(mem[p]) :
         /\ server' = Overwrite(server, Request(mem[p], b))
         /\ Set(p, [mem[p] EXCEPT !.send = {}, !.batch = {}, !.attempt = 0])
         /\ Goto(p, "saveOffset")
    /\ UNCHANGED <<log, disk, late, stateLock, faults>>

SendOk(p) ==
    /\ pc[p] = "send"
    /\ \E b \in Batches(mem[p]) :
         /\ server' = Overwrite(server, Request(mem[p], b))
         /\ Set(p, [mem[p] EXCEPT !.send = @ \ b, !.batch = {}, !.attempt = 0])
         /\ Goto(p, IF mem[p].send \subseteq b THEN "saveOffset" ELSE "send")
    /\ UNCHANGED <<log, disk, late, stateLock, faults>>

\* Mutant: the engine retries without end.
SendFailedForever(p) ==
    /\ pc[p] = "send"
    /\ \E b \in Batches(mem[p]) :
         Set(p, [mem[p] EXCEPT !.batch = b, !.attempt = @ + 1])
    /\ UNCHANGED <<log, disk, cloud, stateLock, pc, faults>>

\* 429, 5xx or a network error.  The request was not applied, was applied
\* and its answer lost, or will be applied later.
SendFailed(p) ==
    /\ pc[p] = "send"
    /\ \E b \in Batches(mem[p]) :
         /\ \/ UNCHANGED cloud
            \/ server' = Overwrite(server, Request(mem[p], b)) /\ UNCHANGED late
            \/ /\ Cardinality(late) < MaxLate
               /\ late' = late \cup {Request(mem[p], b)} /\ UNCHANGED server
         /\ IF mem[p].attempt < MaxRetries
            THEN Set(p, [mem[p] EXCEPT !.batch = b, !.attempt = @ + 1]) /\ UNCHANGED pc
            ELSE Goto(p, "release") /\ UNCHANGED mem
    /\ UNCHANGED <<log, disk, stateLock, faults>>

\* Any other 4xx: the request is refused and not retried.
SendRefused(p) ==
    /\ pc[p] = "send" /\ Goto(p, "release")
    /\ UNCHANGED <<log, disk, cloud, stateLock, mem, faults>>

SaveOffset(p) ==
    /\ pc[p] = "saveOffset"
    /\ Goto(p, IF mem[p].legacy THEN "release" ELSE "clearDirty")
    /\ qstate' = [qstate EXCEPT !.offset = "eof"]
    /\ UNCHANGED <<log, cursors, queue, journal, cloud, stateLock, mem, faults>>

ClearDirty(p) ==
    /\ pc[p] = "clearDirty" /\ Goto(p, "release")
    /\ qstate' = [qstate EXCEPT !.dirty = {}]
    /\ UNCHANGED <<log, cursors, queue, journal, cloud, stateLock, mem, faults>>

Upload(p) ==
    \/ LoadUpload(p) \/ RewindOffset(p) \/ SendOk(p) \/ SendFailed(p) \/ SendRefused(p)
    \/ SaveOffset(p) \/ ClearDirty(p)

\* A request the client has given up reaches the database after all.
ApplyLate ==
    /\ \E r \in late : server' = Overwrite(server, r) /\ late' = late \ {r}
    /\ UNCHANGED <<log, disk, stateLock, pc, mem, faults>>

-----------------------------------------------------------------------------
(* executeReset deletes the cursors first.                                 *)

ResetCursors(p) ==
    /\ pc[p] = "xCursors" /\ Goto(p, "xQueue")
    /\ cursors' = NoCursors /\ UNCHANGED <<queue, qstate, journal, mem>>
    /\ SyncStep

ResetQueue(p) ==
    /\ pc[p] = "xQueue" /\ Goto(p, "xState")
    /\ queue' = Nothing /\ UNCHANGED <<cursors, qstate, journal, mem>>
    /\ SyncStep

ResetQState(p) ==
    /\ pc[p] = "xState" /\ Goto(p, "release")
    /\ qstate' = NoQState /\ UNCHANGED <<cursors, queue, journal, mem>>
    /\ SyncStep

Reset(p) == ResetCursors(p) \/ ResetQueue(p) \/ ResetQState(p)

-----------------------------------------------------------------------------
(* Faults.  A write may be torn; loading a torn file gives the empty state *)
(* (loadState, BaseCursorStore.load).                                      *)

\* A killed process leaves its lock behind; one whose write failed with an
\* exception releases it.
Interrupt(p) ==
    /\ pc[p] # "idle" /\ faults < MaxFaults
    /\ faults' = faults + 1
    /\ stateLock' \in {Orphan, Null}
    /\ \/ UNCHANGED <<cursors, qstate>>
       \/ pc[p] \in WritesQState /\ qstate' = NoQState /\ UNCHANGED cursors
       \/ pc[p] \in WritesCursors /\ cursors' = NoCursors /\ UNCHANGED qstate
    /\ Goto(p, "idle") /\ Set(p, NoMem)
    /\ UNCHANGED <<log, queue, journal, cloud>>

\* An entry of cursors.json is lost while its path stays in knownFilePaths.
LoseCursor(f) ==
    /\ cursors.file[f] # Null /\ faults < MaxFaults
    /\ faults' = faults + 1
    /\ cursors' = [cursors EXCEPT !.file[f] = Null]
    /\ UNCHANGED <<log, queue, qstate, journal, cloud, stateLock, pc, mem>>

-----------------------------------------------------------------------------
Command(p) ==
    \/ \E op \in {"sync", "upload", "reset"} : Start(p, op)
    \/ Recovery(p) \/ Sync(p) \/ Upload(p) \/ Reset(p) \/ Release(p)
    \/ Interrupt(p)

Next ==
    \/ Tool \/ ApplyLate \/ RemoveOrphan
    \/ \E f \in File : LoseCursor(f)
    \/ \E p \in Proc : Command(p)

Spec == Init /\ [][Next]_vars

\* What the environment must stop doing for the pipeline to converge: faults,
\* failed requests, unreadable files and resets.
Trouble ==
    \/ \E f \in File : LoseCursor(f)
    \/ \E p \in Proc :
          \/ Interrupt(p) \/ SendFailed(p) \/ SendRefused(p) \/ Start(p, "reset")
          \/ \E f \in File : ScanFailed(p, f) /\ ~ScanFile(p, f)
          \/ \E found \in SUBSET Present : found # Present /\ Discover(p, found)

\* A started command keeps running (one event loop, every await returns),
\* hooks and the user keep starting syncs and uploads, the operator removes
\* an orphaned lock, and trouble stops some day.
Fairness ==
    /\ \A p \in Proc : WF_vars(Recovery(p) \/ Sync(p) \/ Upload(p) \/ Reset(p)
                               \/ Release(p))
    /\ SF_vars(\E p \in Proc : Start(p, "sync"))
    /\ SF_vars(\E p \in Proc : Start(p, "upload"))
    /\ WF_vars(RemoveOrphan) /\ WF_vars(ApplyLate)
    /\ <>[][~Trouble]_vars

FairSpec == Spec /\ Fairness

-----------------------------------------------------------------------------
Log == [there : BOOLEAN, ino : 0..MaxIno, base : 0..MaxLen, size : 0..MaxLen]

TypeOK ==
    /\ log \in [File -> Log]
    /\ cursors \in CursorFile /\ queue \in Counts /\ qstate \in QState
    /\ journal \in {Null} \cup Commit
    /\ server \in Counts
    /\ late \subseteq [keys : SUBSET Key, rows : Counts]
    /\ stateLock \in Proc \cup {Null, Orphan}
    /\ pc \in [Proc -> PC] /\ mem \in [Proc -> Mem]
    /\ faults \in 0..MaxFaults

\* What the next command will find on disk once it has recovered.
Durable ==
    IF journal = Null
    THEN [queue |-> queue, dirty |-> qstate.dirty, offset |-> qstate.offset,
          cursors |-> cursors]
    ELSE IF journal.records = Null
    THEN [queue |-> queue, dirty |-> qstate.dirty, offset |-> qstate.offset,
          cursors |-> journal.cursors]
    ELSE [queue |-> journal.records, dirty |-> journal.dirty, offset |-> "start",
          cursors |-> journal.cursors]
-----------------------------------------------------------------------------
(* Safety. *)

\* With the logs l, the queue q counts the events behind the cursors c, each
\* of them once, and no event that the next scan will parse.
Agree(l, q, c) ==
    \A f \in File, i \in 1..MaxLen :
        /\ q[<<f, i>>] <= 1
        /\ i > l[f].size => q[<<f, i>>] = 0
        /\ c.file[f] # Null =>
              /\ i > c.file[f].to => q[<<f, i>>] = 0
              /\ c.file[f].ino = l[f].ino /\ l[f].base < i /\ i <= c.file[f].to
                     => q[<<f, i>>] = 1
        /\ c.file[f] = Null /\ f \notin c.known /\ i > l[f].base => q[<<f, i>>] = 0

\* Whatever crashes and torn writes happened, unless the next sync is a full
\* scan every event behind a cursor is in the queue exactly once and every
\* event a later scan will parse is not in it (recoverSyncCommit: a crash
\* between queue and cursor replacement cannot replay additive deltas).
CountedOnce ==
    ~IsEmpty(Durable.cursors) => Agree(log, Durable.queue, Durable.cursors)

\* The server never counts an event twice: uploads overwrite rows, so neither
\* retries, lost answers, late requests nor full rescans inflate them.
NeverInflated == \A e \in Event : server[e] <= 1

\* The keys the next upload would send.
Marked ==
    IF Durable.dirty # Null THEN Durable.dirty \cap KeysOf(Durable.queue)
    ELSE IF Durable.offset = "start" THEN KeysOf(Durable.queue) ELSE {}

Ledger == INSTANCE UsageLedger WITH counted <- Durable.queue, marked <- Marked

\* The pipeline implements the ledger: a sync takes effect in one step, the
\* rename of its journal; requests carry current rows; the marks are dropped
\* only after every row they stand for has been accepted (sync-commit.ts: "the
\* single journal makes queue/detail/cursor replacement retryable after any
\* partial write").
ImplementsLedger == Ledger!LedgerSpec

\* A queue row that differs from the server's is still marked for upload.
PendingIsMarked == Ledger!NothingForgotten

\* Once trouble stops, every event still in a log reaches the server, counted
\* once (sync.ts: re-sending the queue "ensures eventual consistency even if a
\* previous upload was partial").
EventuallyUploaded ==
    <>[](\A f \in File, i \in 1..MaxLen :
            log[f].there /\ log[f].base < i /\ i <= log[f].size => server[<<f, i>>] = 1)

-----------------------------------------------------------------------------
(* The inductive invariant.  CountedOnce and NeverInflated speak of files  *)
(* at rest; what makes them inductive is what holds of the journal and of  *)
(* the memory of a command between two of its writes.                      *)

Single(q) == \A e \in Event : q[e] <= 1

\* A deleted log has nothing left to parse.
LogFits(l) ==
    \A f \in File : /\ l[f].base <= l[f].size
                    /\ l[f].there => l[f].ino > 0
                    /\ ~l[f].there => l[f].base = l[f].size

\* Cursors point into the logs and belong to known files.
CursorsFit(l, c) ==
    \A f \in File : c.file[f] # Null =>
        c.file[f].to <= l[f].size /\ c.file[f].ino <= l[f].ino /\ f \in c.known

\* The next sync is a full scan, or may add what it parses to q.
Sound(l, q, c) == IsEmpty(c) \/ Agree(l, q, c)

\* Only the owner of state.lock is inside a command (withStateLock).
Owner == \A p \in Proc : pc[p] # "idle" => stateLock = p

\* What the journal will put on disk.
JournalFits ==
    journal # Null =>
        /\ CursorsFit(log, journal.cursors)
        /\ journal.records = Null => Sound(log, queue, journal.cursors)
        /\ journal.records # Null => /\ Single(journal.records)
                                     /\ Sound(log, journal.records, journal.cursors)

\* The scan in memory m: files still to do are as they were loaded, and the
\* queue planned so far agrees with the cursors built so far.
ScanFits(m) ==
    /\ CursorsFit(log, m.loaded) /\ CursorsFit(log, m.cur)
    /\ Sound(log, queue, m.loaded)
    /\ Agree(log, PlannedQueue(m), m.cur)
    /\ \A f \in m.todo :
          /\ m.cur.file[f] = m.loaded.file[f]
          /\ f \in m.cur.known => f \in m.loaded.known
          /\ \A i \in 1..MaxLen : <<f, i>> \notin m.seen

Redoing == {"rDirty", "rQueue", "rOffset", "rCursors", "rUnlink"}

ProcFits(p) ==
    /\ pc[p] \in Redoing => journal # Null
    /\ pc[p] \in {"rDirty", "rQueue", "rOffset"} => journal.records # Null
    /\ pc[p] \in {"rOffset", "rCursors", "rUnlink"} /\ journal.records # Null
          => queue = journal.records
    /\ pc[p] = "rUnlink" => Sound(log, queue, cursors)
    /\ pc[p] \notin Redoing \cup {"idle", "recover"} => journal = Null
    /\ pc[p] \in {"xQueue", "xState"} => IsEmpty(cursors)
    /\ pc[p] = "scan" => ScanFits(mem[p])
    /\ pc[p] = "send" => Single(mem[p].rows)

\* Nothing counts an event twice.
Tables ==
    /\ Single(queue) /\ Single(server)
    /\ \A r \in late : Single(r.rows)

DiskFits ==
    /\ LogFits(log) /\ CursorsFit(log, cursors)
    /\ journal = Null => Sound(log, queue, cursors)

\* At any point of any command the files, the journal and the memory of the
\* lock's owner together determine a queue without double counts
\* (recoverSyncCommit, executeSyncInternal).
Inductive ==
    /\ TypeOK /\ Owner /\ DiskFits /\ JournalFits /\ Tables
    /\ \A p \in Proc : ProcFits(p)

\* What a command in the middle of a recovery or an upload may rely on: the
\* half of the journal it has redone, the rows it sends, and that every marked
\* row outside the requests still to come stands on the server already.
MarkFits(p) ==
    /\ pc[p] \in Redoing \cup {"recover", "load"} => mem[p].batch = {}
    /\ pc[p] \in Redoing \ {"rDirty"} /\ journal.records # Null
          => qstate.dirty = journal.dirty
    /\ pc[p] \in {"rCursors", "rUnlink"} /\ journal.records # Null
          => qstate.offset = "start"
    /\ pc[p] = "send" => /\ mem[p].rows = queue
                         /\ mem[p].batch \subseteq mem[p].send
                         /\ mem[p].send \subseteq Marked
                         /\ \A k \in Marked \ mem[p].send : Ledger!Equal(queue, server, k)
    /\ pc[p] \in {"send", "saveOffset"} => (mem[p].legacy <=> qstate.dirty = Null)
    /\ pc[p] \in {"saveOffset", "clearDirty"}
          => \A k \in Marked : Ledger!Equal(queue, server, k)

\* No mark is dropped before its row is on the server (upload-engine.ts: the
\* dirty keys are cleared after the last batch), as long as no request that
\* was given up is applied later.
MarksFit == late = {} /\ \A p \in Proc : MarkFits(p)
=============================================================================
