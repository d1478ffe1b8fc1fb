--------------------------- MODULE JsonlContinuity ---------------------------
(***************************************************************************)
(* Offset cursors over JSONL logs that tools append to, trim, truncate,    *)
(* replace and delete while a sync reads them.  A log is a sequence of     *)
(* bytes; a byte names the event whose record it belongs to and its place  *)
(* in it, and the last byte of a record is its newline.  A cursor carries  *)
(* the last records before its offset as continuity anchors.  A file that  *)
(* is opened stays in the process of one sync; other processes change it   *)
(* between any two reads.  The commit is one step (module SyncPipeline).   *)
(***************************************************************************)
EXTENDS Integers, FiniteSets, Sequences

CONSTANTS
    File,         \* log files of the JSONL sources
    AnchorCount,  \* CONTINUITY_ANCHOR_COUNT
    MaxEvents,    \* bound: events ever written
    MaxChanges    \* bound: changes of a log other than appending, and faults

ASSUME JsonlAssumption == AnchorCount \in Nat \ {0} /\ MaxEvents \in Nat \ {0}

Event == 1..MaxEvents
Length(e) == IF e % 2 = 1 THEN 2 ELSE 1       \* records differ in length
Record(e) == [k \in 1..Length(e) |-> <<e, k>>]
IsEnd(byte) == byte[2] = Length(byte[1])      \* the newline

Absent == [there |-> FALSE, ino |-> 0, ver |-> 0, bytes |-> <<>>]
NoJsonlCursor == [ino |-> 0, ver |-> 0, size |-> 0, offset |-> 0, anchors |-> {}]
Nowhere == [file |-> {}, step |-> "none", start |-> 0, action |-> "none", opts |-> NoJsonlCursor,
            snap |-> 0, ver |-> 0, ino |-> 0, pre |-> <<>>, bound |-> 0, got |-> {}]
NoCount == [e \in Event |-> 0]

VARIABLES
    disk,         \* the log files: inode, version (mtime) and bytes
    cursors,      \* cursors.json: per file a cursor, or NoCursor
    known,        \* knownFilePaths
    counted,      \* how often the queue's rows count each event
    pc, full,     \* the sync: where it is, and whether it is a full scan
    mem, todo, failed, delta,   \* its cursors, files left, parse failures and deltas
    at,           \* the file it is reading
    written, changes,
    returned,     \* history: events that were gone from disk and came back
    passedOver    \* history: events a cursor was put behind without proof

syncVars == <<pc, full, mem, todo, failed, delta, at>>
stored == <<cursors, known, counted>>
jsonlVars == <<disk, stored, syncVars, written, changes, returned, passedOver>>

Holds(bytes) == {bytes[i][1] : i \in {j \in DOMAIN bytes : IsEnd(bytes[j])}}

-----------------------------------------------------------------------------
(* continuity-anchor.ts and jsonl-offset.ts.                               *)

\* The events of the complete records between two offsets.
Between(bytes, start, bound) ==
    {bytes[i][1] : i \in {j \in (start + 1)..bound : IsEnd(bytes[j]) /\ j - Length(bytes[j][1]) >= start}}

\* lastCompleteJsonlOffset: the last newline, or where the read started.
CompleteBound(bytes, start, bound) ==
    LET ends == {j \in (start + 1)..bound : IsEnd(bytes[j])}
    IN  IF ends = {} THEN start ELSE CHOOSE j \in ends : \A i \in ends : i <= j

\* readContinuityAnchors: the last records complete before an offset.  Events
\* are numbered in the order they are written, so a set of them has their order.
Newest(n, events) == {e \in events : Cardinality({d \in events : d > e}) < n}
Records(bytes, offset) == Holds(SubSeq(bytes, 1, offset))
Anchors(bytes, offset) == Newest(AnchorCount, Records(bytes, offset))

\* anchorsMatchAt: the anchors end exactly at the offset.
MatchAt(bytes, offset, anchors) ==
    /\ offset \in DOMAIN bytes /\ IsEnd(bytes[offset])
    /\ Newest(Cardinality(anchors), Records(bytes, offset)) = anchors

Decision(action, start) == [action |-> action, start |-> start]

\* Mutant: anchors that are found nowhere replay the file.
ResolveOrReplay(bytes, c) ==
    IF c.anchors # {} /\ c.offset <= Len(bytes) /\ MatchAt(bytes, c.offset, c.anchors)
    THEN Decision("append", c.offset) ELSE Decision("append", 0)

\* resolveJsonlContinuity.
Resolve(bytes, c) ==
    LET found == {j \in DOMAIN bytes : MatchAt(bytes, j, c.anchors)}
    IN  IF c.anchors = {}
        THEN IF c.offset = 0 /\ c.size = 0 THEN Decision("append", 0) ELSE Decision("skip", 0)
        ELSE IF MatchAt(bytes, c.offset, c.anchors) THEN Decision("append", c.offset)
        ELSE IF found = {} THEN Decision("skip", 0)
        ELSE LET last == CHOOSE j \in found : \A i \in found : i <= j
             IN  Decision(IF last = c.offset THEN "append" ELSE "rebase", last)

-----------------------------------------------------------------------------
(* The logs.                                                               *)

Change(f, there, ino, bytes) ==
    /\ disk' = [disk EXCEPT ![f] = [there |-> there, ino |-> ino, ver |-> disk[f].ver + 1, bytes |-> bytes]]
    /\ UNCHANGED <<stored, syncVars, passedOver>>
Rewrite(f, bytes) == Change(f, disk[f].there, disk[f].ino, bytes)

\* A record is written whole, or in two writes.
WriteRecord(f) ==
    /\ written < MaxEvents /\ disk[f].there
    /\ disk[f].bytes # <<>> => IsEnd(disk[f].bytes[Len(disk[f].bytes)])
    /\ written' = written + 1
    /\ \E n \in 1..Length(written') :
         Rewrite(f, disk[f].bytes \o SubSeq(Record(written'), 1, n))
    /\ UNCHANGED <<changes, returned>>
Finish(f) ==
    /\ disk[f].bytes # <<>>
    /\ LET last == disk[f].bytes[Len(disk[f].bytes)]
       IN  ~IsEnd(last) /\ Rewrite(f, disk[f].bytes \o <<<<last[1], last[2] + 1>>>>)
    /\ UNCHANGED <<written, changes, returned>>

Fault == changes < MaxChanges /\ changes' = changes + 1

Suffixes(bytes) == {SubSeq(bytes, n + 1, Len(bytes)) : n \in {i \in DOMAIN bytes : IsEnd(bytes[i])}}

\* The tool drops the oldest records, in place.
Trim(f) ==
    /\ Fault /\ \E b \in Suffixes(disk[f].bytes) : Rewrite(f, b)
    /\ UNCHANGED <<written, returned>>

\* The log is replaced by another file, with the same records or fewer.
Replace(f) ==
    /\ Fault /\ disk[f].there
    /\ \E b \in Suffixes(disk[f].bytes) \cup {disk[f].bytes} :
         Change(f, TRUE, disk[f].ino + 1, b)
    /\ UNCHANGED <<written, returned>>

\* A volume is unmounted, and mounted again later.
Vanish(f) ==
    /\ Fault /\ disk[f].there /\ Change(f, FALSE, disk[f].ino, disk[f].bytes)
    /\ UNCHANGED <<written, returned>>
Return(f) ==
    /\ ~disk[f].there /\ disk[f].ino > 0 /\ Change(f, TRUE, disk[f].ino, disk[f].bytes)
    /\ returned' = returned \cup Holds(disk[f].bytes)
    /\ UNCHANGED <<written, changes>>

-----------------------------------------------------------------------------
(* executeSyncInternal.                                                    *)

PresentFiles == {f \in File : disk[f].there}

StartJsonl ==
    /\ pc = "idle" /\ pc' = "scan"
    /\ mem' = cursors /\ full' = (\A f \in File : cursors[f] = NoJsonlCursor)
    /\ todo' = PresentFiles /\ failed' = {} /\ delta' = NoCount /\ at' = Nowhere
    /\ UNCHANGED <<disk, stored, written, changes, returned, passedOver>>

\* Cursors are wiped, on disk too, and the scan starts again.
Wipe ==
    /\ cursors' = [f \in File |-> NoJsonlCursor] /\ known' = {}
    /\ mem' = cursors' /\ full' = TRUE
    /\ todo' = PresentFiles /\ failed' = {} /\ delta' = NoCount /\ at' = Nowhere
    /\ UNCHANGED <<counted, pc, passedOver>>

\* A file that is another one now, or whose cursor was lost.
ReplayIsDue(f, c) ==
    /\ ~full
    /\ \/ c # NoJsonlCursor /\ c.ino # disk[f].ino
       \/ c = NoJsonlCursor /\ f \in known

Fresh(f, offset, anchors) ==
    [ino |-> disk[f].ino, ver |-> disk[f].ver, size |-> Len(disk[f].bytes), offset |-> offset, anchors |-> anchors]

\* fileUnchanged, for an offset that is inside the file.
Unchanged(f, c) ==
    c # NoJsonlCursor /\ c.ino = disk[f].ino /\ c.ver = disk[f].ver /\ c.offset <= Len(disk[f].bytes)

SkipFile(f, c) ==
    /\ mem' = [mem EXCEPT ![f] = c]
    /\ UNCHANGED <<stored, pc, full, failed, delta, at>>

OpenAt(f, action, start, opts) ==
    /\ at' = [file |-> {f}, step |-> "hash", start |-> start, action |-> action, opts |-> opts,
              snap |-> Len(disk[f].bytes), ver |-> disk[f].ver, ino |-> disk[f].ino,
              pre |-> <<>>, bound |-> 0, got |-> {}]
    /\ UNCHANGED <<stored, pc, full, mem, failed, delta>>

\* Up to the parse: stat, fast skip, replay detection and continuity.
Look(f) ==
    /\ pc = "scan" /\ at = Nowhere /\ f \in todo
    /\ LET c     == mem[f]
           bytes == disk[f].bytes
           size  == Len(bytes)
           d     == Resolve(bytes, c)
           parked == IF c.offset < size THEN c.offset ELSE size
           stamped == Anchors(bytes, parked)
       IN  \/ /\ ~disk[f].there
              /\ failed' = failed \cup {f} /\ todo' = todo \ {f}
              /\ UNCHANGED <<stored, pc, full, mem, delta, at, passedOver>>
           \/ /\ disk[f].there /\ Unchanged(f, c) /\ todo' = todo \ {f}
              /\ SkipFile(f, IF size = 0 THEN Fresh(f, 0, {})
                             ELSE IF c.anchors = {} THEN [c EXCEPT !.anchors = Anchors(bytes, c.offset)] ELSE c)
              /\ UNCHANGED passedOver
           \/ disk[f].there /\ ~Unchanged(f, c) /\ ReplayIsDue(f, c) /\ Wipe
           \/ /\ disk[f].there /\ ~Unchanged(f, c) /\ ~ReplayIsDue(f, c) /\ todo' = todo \ {f}
              /\ IF c = NoJsonlCursor
                 THEN OpenAt(f, "new", 0, NoJsonlCursor) /\ UNCHANGED passedOver
                 ELSE IF size = 0
                 THEN SkipFile(f, Fresh(f, 0, {})) /\ UNCHANGED passedOver
                 ELSE IF d.action # "skip"
                 THEN OpenAt(f, d.action, d.start, c) /\ UNCHANGED passedOver
                 ELSE IF stamped # {} /\ parked < size
                 THEN /\ OpenAt(f, "append", parked, [c EXCEPT !.offset = parked, !.size = parked, !.anchors = stamped])
                      /\ passedOver' = passedOver \cup Holds(SubSeq(bytes, 1, parked)) \cup {bytes[parked + 1][1]}
                 ELSE /\ SkipFile(f, Fresh(f, size, Anchors(bytes, size)))
                      /\ passedOver' = passedOver \cup Holds(bytes) \cup {bytes[size][1]}
    /\ UNCHANGED <<disk, written, changes, returned>>

\* The confirm callback of the stable parse.
Confirmed(bytes) == at.action = "new" \/ Resolve(bytes, at.opts) = Decision(at.action, at.start)

GiveUp ==
    /\ failed' = failed \cup at.file /\ at' = Nowhere
    /\ UNCHANGED <<mem, delta>>

\* parseStableJsonlFile: the hash of what is to be read.
Hash ==
    /\ at.step = "hash"
    /\ \E f \in at.file :
         IF Len(disk[f].bytes) >= at.snap /\ disk[f].there /\ Confirmed(disk[f].bytes)
         THEN /\ at' = [at EXCEPT !.step = "parse", !.pre = SubSeq(disk[f].bytes, at.start + 1, at.snap)]
              /\ UNCHANGED <<failed, mem, delta>>
         ELSE GiveUp
    /\ UNCHANGED <<disk, stored, pc, full, todo, written, changes, returned, passedOver>>

\* The parse reads complete records up to the snapshot's size, or throws.
Parse ==
    /\ at.step = "parse"
    /\ \/ \E f \in at.file :
            LET bytes == disk[f].bytes
                end   == IF Len(bytes) < at.snap THEN Len(bytes) ELSE at.snap
                bound == CompleteBound(bytes, at.start, end)
            IN  /\ disk[f].there
                /\ at' = [at EXCEPT !.step = "verify", !.got = Between(bytes, at.start, bound), !.bound = bound]
                /\ UNCHANGED <<failed, mem, delta, changes>>
       \/ Fault /\ GiveUp
    /\ UNCHANGED <<disk, stored, pc, full, todo, written, returned, passedOver>>

Stable(bytes) == Len(bytes) >= at.snap /\ SubSeq(bytes, at.start + 1, at.snap) = at.pre

\* The anchors of the new cursor, continuity and hash once more.
Verify ==
    /\ at.step = "verify"
    /\ \E f \in at.file :
         IF disk[f].there /\ Confirmed(disk[f].bytes) /\ Stable(disk[f].bytes)
         THEN /\ mem' = [mem EXCEPT ![f] = [ino |-> at.ino, ver |-> at.ver, size |-> at.snap, offset |-> at.bound,
                                            anchors |-> Anchors(disk[f].bytes, at.bound)]]
              /\ delta' = [e \in Event |-> delta[e] + (IF e \in at.got THEN 1 ELSE 0)]
              /\ at' = Nowhere /\ UNCHANGED failed
         ELSE GiveUp
    /\ UNCHANGED <<disk, stored, pc, full, todo, written, changes, returned, passedOver>>

\* Known paths are the ones a cursor was confirmed for.
Valid(files) == files \ failed

\* pruneAliasCursors: paths that are gone from disk.
Gone == {f \in File : ~disk[f].there /\ f \notin failed}

\* The end of the scan and the commit: a full scan's deltas are the rows.
CommitJsonl ==
    /\ pc = "scan" /\ todo = {} /\ at = Nowhere /\ pc' = "idle"
    /\ cursors' = [f \in File |-> IF f \in Gone THEN NoJsonlCursor ELSE mem[f]]
    /\ known' = (known \cup Valid({f \in File : mem[f] # NoJsonlCursor \/ f \in failed})) \ Gone
    /\ counted' = [e \in Event |-> delta[e] + (IF full THEN 0 ELSE counted[e])]
    /\ mem' = cursors' /\ delta' = NoCount /\ failed' = {} /\ full' = FALSE
    /\ UNCHANGED <<disk, todo, at, written, changes, returned, passedOver>>

CrashJsonl ==
    /\ Fault /\ pc = "scan" /\ pc' = "idle"
    /\ mem' = cursors /\ todo' = {} /\ failed' = {} /\ delta' = NoCount /\ at' = Nowhere /\ full' = FALSE
    /\ UNCHANGED <<disk, stored, written, returned, passedOver>>

\* Reset deletes cursors and rows; the next sync is a full scan.
ResetJsonl ==
    /\ Fault /\ pc = "idle"
    /\ cursors' = [f \in File |-> NoJsonlCursor] /\ known' = {} /\ counted' = NoCount
    /\ mem' = cursors' /\ returned' = {}
    /\ UNCHANGED <<disk, pc, full, todo, failed, delta, at, written, passedOver>>

\* Nothing was synced yet, or an older client that kept no anchors read a log.
JsonlInit ==
    /\ \E first \in File, read \in BOOLEAN :
         /\ disk = [f \in File |-> [there |-> TRUE, ino |-> 1, ver |-> 1, bytes |-> IF f = first THEN Record(1) ELSE <<>>]]
         /\ cursors = [f \in File |-> IF f = first /\ read THEN [ino |-> 1, ver |-> 1, size |-> 2, offset |-> 2, anchors |-> {}]
                                      ELSE NoJsonlCursor]
         /\ known = IF read THEN {first} ELSE {}
         /\ counted = [NoCount EXCEPT ![1] = IF read THEN 1 ELSE 0]
    /\ pc = "idle" /\ full = FALSE /\ mem = cursors
    /\ todo = {} /\ failed = {} /\ delta = NoCount /\ at = Nowhere
    /\ written = 1 /\ changes = 0 /\ returned = {} /\ passedOver = {}

JsonlNext ==
    \/ \E f \in File : WriteRecord(f) \/ Finish(f) \/ Trim(f) \/ Replace(f) \/ Vanish(f) \/ Return(f) \/ Look(f)
    \/ StartJsonl \/ Hash \/ Parse \/ Verify \/ CommitJsonl \/ CrashJsonl \/ ResetJsonl

JsonlSpec == JsonlInit /\ [][JsonlNext]_jsonlVars

-----------------------------------------------------------------------------
(* Properties.                                                             *)

\* No trim, replacement, crash, failed parse or change under a running sync
\* makes the rows count an event twice; only a log that was gone and came
\* back is counted again, until a reset (prune-alias-cursors.ts:90-97).
NeverCountedTwice == \A e \in Event : counted[e] > 1 => e \in returned

\* Between syncs, every complete record before a file's offset is in the rows:
\* a cursor is put behind records it did not read only when it gives up on
\* the continuity of the log.
NothingBehindCursor ==
    pc = "idle" => \A f \in File :
        disk[f].there /\ cursors[f].ino = disk[f].ino /\ cursors[f].ver = disk[f].ver
        => \A e \in Between(disk[f].bytes, 0, cursors[f].offset) : counted[e] > 0 \/ e \in passedOver
=============================================================================
