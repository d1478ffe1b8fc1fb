---------------------------- MODULE ClaudeDedup ----------------------------
(***************************************************************************)
(* Claude Code writes the same message id on several lines and in several  *)
(* logs, sometimes first with no usage.  The driver counts an id once: the *)
(* ids a sync has seen are shared by the files it parses, and every cursor *)
(* keeps a bounded ring of the ids its file contributed.  Offsets count    *)
(* lines; module JsonlContinuity models what happens to the bytes.         *)
(***************************************************************************)
EXTENDS Integers, FiniteSets, Sequences

CONSTANTS
    Log,          \* Claude's JSONL files
    MessageId,          \* message ids
    Cap,          \* SEEN_ID_CAP
    MaxLines,     \* bound: lines of a log
    MaxClaudeMishaps    \* bound: discarded parses, crashes, deleted and replaced logs

NoClaudeCursor == [ino |-> 0, offset |-> 0, ring |-> <<>>, legacy |-> FALSE]
NoMessages == [m \in MessageId |-> 0]

VARIABLES
    claudeLog,          \* per file its inode (0: not there) and lines
    claudeSaved,        \* cursors.json
    claudeRows,         \* how often the queue counts each id
    claudePhase, claudeFull,  \* the sync: where it is, and whether it scans everything
    claudeCur, seen, left, deltas,    \* its cursors, ctx.seenClaudeMessageIds, files left, deltas
    claudeMishaps,
    forgotten     \* history: ids that left every ring

claudeVars == <<claudeLog, claudeSaved, claudeRows, claudePhase, claudeFull, claudeCur, seen, left, deltas, claudeMishaps, forgotten>>

Ids(ring) == {ring[i] : i \in DOMAIN ring}
Remembered(cs) == UNION {Ids(cs[f].ring) : f \in Log}

\* mergeBounded: the last occurrences, at most Cap of them, latest last.
MergeBounded(prior, next) ==
    LET all  == prior \o next
        last == {i \in DOMAIN all : \A j \in (i + 1)..Len(all) : all[j] # all[i]}
        kept == {i \in last : Cardinality({j \in last : j > i}) < Cap}
    IN  [n \in 1..Cardinality(kept) |->
            all[CHOOSE i \in kept : Cardinality({j \in kept : j < i}) = n - 1]]

-----------------------------------------------------------------------------
(* parseClaudeFile over the lines of a file from a line on.                *)

\* A line emits a delta when its id is new and its usage is not all zero.
Emits(lines, from, i, before) ==
    /\ ~lines[i].zero /\ lines[i].id \notin before
    /\ \A j \in from..(i - 1) : lines[j].zero \/ lines[j].id # lines[i].id

Emitted(lines, offset, before) ==
    LET is == {i \in (offset + 1)..Len(lines) : Emits(lines, offset + 1, i, before)}
    IN  [n \in 1..Cardinality(is) |-> lines[CHOOSE i \in is : Cardinality({j \in is : j < i}) = n - 1].id]

-----------------------------------------------------------------------------
(* Claude Code.                                                            *)

WriteLine(f) ==
    /\ claudeLog[f].ino > 0 /\ Len(claudeLog[f].lines) < MaxLines
    /\ \E m \in MessageId, zero \in BOOLEAN :
         claudeLog' = [claudeLog EXCEPT ![f].lines = Append(@, [id |-> m, zero |-> zero])]
    /\ UNCHANGED <<claudeSaved, claudeRows, claudePhase, claudeFull, claudeCur, seen, left, deltas, claudeMishaps, forgotten>>

ClaudeMishap == claudeMishaps < MaxClaudeMishaps /\ claudeMishaps' = claudeMishaps + 1

Delete(f) ==
    /\ ClaudeMishap /\ claudeLog[f].ino > 0
    /\ claudeLog' = [claudeLog EXCEPT ![f] = [ino |-> 0, lines |-> <<>>]]
    /\ forgotten' = forgotten \cup {m \in MessageId : claudeSaved[f].legacy /\ claudeRows[m] > 0}
    /\ UNCHANGED <<claudeSaved, claudeRows, claudePhase, claudeFull, claudeCur, seen, left, deltas>>

\* The log becomes another file, with the same lines or with none.
Rotate(f) ==
    /\ ClaudeMishap /\ claudeLog[f].ino > 0
    /\ \E lines \in {claudeLog[f].lines, <<>>} : claudeLog' = [claudeLog EXCEPT ![f] = [ino |-> @.ino + 1, lines |-> lines]]
    /\ UNCHANGED <<claudeSaved, claudeRows, claudePhase, claudeFull, claudeCur, seen, left, deltas, forgotten>>

-----------------------------------------------------------------------------
(* The sync.                                                               *)

PresentLogs == {f \in Log : claudeLog[f].ino > 0}

\* needsReplay, asked before any file of the driver is touched.
NeedsReplay(f, cs) == cs[f] # NoClaudeCursor /\ cs[f].legacy

\* preload: the rings of all cursors, before any file is skipped.
Preload(cs) == Remembered(cs)

Enter(cs) ==
    /\ claudeCur' = cs /\ seen' = Preload(cs) /\ left' = PresentLogs /\ deltas' = NoMessages
    /\ claudePhase' = "scan"

\* Clearing all cursors: what follows is a full scan.
RestartClaude ==
    /\ claudeSaved' = [f \in Log |-> NoClaudeCursor] /\ claudeFull' = TRUE /\ Enter(claudeSaved')
    /\ UNCHANGED <<claudeLog, claudeRows, claudeMishaps, forgotten>>

StartClaude ==
    /\ claudePhase = "idle"
    /\ IF \E f \in PresentLogs : NeedsReplay(f, claudeSaved) THEN RestartClaude
       ELSE /\ Enter(claudeSaved) /\ claudeFull' = (\A f \in Log : claudeSaved[f] = NoClaudeCursor)
            /\ UNCHANGED <<claudeLog, claudeSaved, claudeRows, claudeMishaps, forgotten>>

\* A replaced file, in an incremental scan.
LogReplaced(f) == ~claudeFull /\ claudeCur[f] # NoClaudeCursor /\ claudeCur[f].ino # claudeLog[f].ino
ReplayDetected(f) == claudePhase = "scan" /\ f \in left /\ f \in PresentLogs /\ LogReplaced(f) /\ RestartClaude

\* Mutant: what a discarded parse has seen stays seen.
Unrestored(before, ids) == before \cup ids

\* restoreJsonlSharedState.
Restored(before, ids) == before

\* A file that is skipped, parsed and confirmed, or parsed in vain.
TakeLog(f) ==
    /\ claudePhase = "scan" /\ f \in left /\ left' = left \ {f}
    /\ LET c      == claudeCur[f]
           lines  == claudeLog[f].lines
           ids    == Emitted(lines, c.offset, seen)
       IN  \/ /\ f \notin PresentLogs \/ (c # NoClaudeCursor /\ c.ino = claudeLog[f].ino /\ c.offset = Len(lines))
              /\ UNCHANGED <<claudeCur, seen, deltas, claudeMishaps>>
           \/ /\ f \in PresentLogs /\ ~LogReplaced(f)
              /\ c = NoClaudeCursor \/ c.offset < Len(lines)
              /\ claudeCur' = [claudeCur EXCEPT ![f] = [ino |-> claudeLog[f].ino, offset |-> Len(lines), legacy |-> FALSE,
                                            ring |-> MergeBounded(c.ring, ids)]]
              /\ seen' = seen \cup Ids(ids)
              /\ deltas' = [m \in MessageId |-> deltas[m] + (IF m \in Ids(ids) THEN 1 ELSE 0)]
              /\ UNCHANGED claudeMishaps
           \/ /\ f \in PresentLogs /\ ~LogReplaced(f) /\ ClaudeMishap
              /\ c = NoClaudeCursor \/ c.offset < Len(lines)
              /\ seen' = Restored(seen, Ids(ids))
              /\ UNCHANGED <<claudeCur, deltas>>
    /\ UNCHANGED <<claudeLog, claudeSaved, claudeRows, claudePhase, claudeFull, forgotten>>

\* The commit; cursors of files that are gone are dropped with their rings.
CommitClaude ==
    /\ claudePhase = "scan" /\ left = {} /\ claudePhase' = "idle"
    /\ claudeSaved' = [f \in Log |-> IF f \in PresentLogs THEN claudeCur[f] ELSE NoClaudeCursor]
    /\ claudeRows' = [m \in MessageId |-> deltas[m] + (IF claudeFull THEN 0 ELSE claudeRows[m])]
    /\ forgotten' = {m \in MessageId : claudeRows'[m] > 0 /\ (m \notin Remembered(claudeSaved') \/ (~claudeFull /\ m \in forgotten))}
    /\ claudeCur' = claudeSaved' /\ seen' = {} /\ deltas' = NoMessages /\ claudeFull' = FALSE
    /\ UNCHANGED <<claudeLog, left, claudeMishaps>>

CrashClaude ==
    /\ ClaudeMishap /\ claudePhase = "scan" /\ claudePhase' = "idle"
    /\ claudeCur' = claudeSaved /\ seen' = {} /\ left' = {} /\ deltas' = NoMessages /\ claudeFull' = FALSE
    /\ UNCHANGED <<claudeLog, claudeSaved, claudeRows, forgotten>>

\* A first run, or the cursor of a client that kept no rings.
ClaudeInit ==
    \E first \in Log, m \in MessageId, legacy \in BOOLEAN :
        /\ claudeLog = [f \in Log |-> [ino |-> 1, lines |-> IF f = first THEN <<[id |-> m, zero |-> FALSE]>> ELSE <<>>]]
        /\ claudeSaved = [f \in Log |-> IF legacy /\ f = first THEN [ino |-> 1, offset |-> 1, ring |-> <<>>, legacy |-> TRUE]
                                  ELSE NoClaudeCursor]
        /\ claudeRows = [NoMessages EXCEPT ![m] = IF legacy THEN 1 ELSE 0]
        /\ claudePhase = "idle" /\ claudeFull = FALSE /\ claudeCur = claudeSaved /\ seen = {} /\ left = {} /\ deltas = NoMessages
        /\ claudeMishaps = 0 /\ forgotten = {}

ClaudeNext ==
    \/ \E f \in Log : WriteLine(f) \/ Delete(f) \/ Rotate(f) \/ ReplayDetected(f) \/ TakeLog(f)
    \/ StartClaude \/ CommitClaude \/ CrashClaude

ClaudeSpec == ClaudeInit /\ [][ClaudeNext]_claudeVars

-----------------------------------------------------------------------------
(* Properties.                                                             *)

\* A message id is counted once, whichever files and syncs its lines are
\* spread over; only an id that has left every ring can be counted again.
CountedOnce == \A m \in MessageId : claudeRows[m] > 1 => m \in forgotten

\* Between syncs every id with usage before a file's offset is in the rows:
\* no stub, discarded parse or duplicate elsewhere makes it pass uncounted.
NoneSwallowed ==
    claudePhase = "idle" => \A f \in Log : claudeLog[f].ino = claudeSaved[f].ino =>
        \A i \in 1..claudeSaved[f].offset : claudeLog[f].lines[i].zero \/ claudeRows[claudeLog[f].lines[i].id] > 0
=============================================================================
