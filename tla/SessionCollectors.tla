-------------------------- MODULE SessionCollectors --------------------------
(* What the session collectors make of the tools' JSON-lines files: a file   *)
(* that has changed is read from its beginning, and what it says of a        *)
(* session replaces the session's row.  A session may be spread over files   *)
(* and a file may hold several; a line may be half written, without a time,  *)
(* or earlier than the line before.                                          *)
EXTENDS Integers, Sequences, FiniteSets, FiniteSetsExt

CONSTANTS File, Id, MaxTime, MaxLines

CollectorKinds == {"claude", "codex", "pi", "openclaw"}
NoSession == [total |-> 0]
NoLine == [type |-> "none"]

VARIABLES
    collectorKind,      \* the tool
    collectorLines,     \* the whole lines of each file
    half,      \* the line that is half written
    collectorCursor,    \* the stat each file was last read with: its lines, and whether one was half written
    collectorRows,      \* the row of each session key: an id, or the hash of a path
    mixed      \* history: two files told of one session, or a file came to be of another

collectorVars == <<collectorKind, collectorLines, half, collectorCursor, collectorRows, mixed>>

CollectorsInit ==
    /\ collectorKind \in CollectorKinds /\ collectorLines = [f \in File |-> <<>>] /\ half = [f \in File |-> NoLine]
    /\ collectorCursor = [f \in File |-> <<0, FALSE>>] /\ collectorRows = [k \in Id \cup File |-> NoSession] /\ mixed = FALSE

FileStat(f) == <<Len(collectorLines[f]), half[f] # NoLine>>

-----------------------------------------------------------------------------
(* The tools write.  Every line of Claude Code names its session; the others *)
(* begin a file with a header, and a forked Codex rollout repeats its        *)
(* parent's.                                                                 *)

SessionLine(types, ids) == [type : types, id : ids, time : 0..MaxTime]

SessionWrites(f) ==
    CASE collectorKind = "claude" -> SessionLine({"user", "assistant"}, Id)
      [] collectorKind # "claude" /\ collectorLines[f] = <<>> -> SessionLine({"header"}, Id)
      [] OTHER -> SessionLine({"user", "assistant", "other"}, {"none"}) \cup IF collectorKind = "codex" THEN SessionLine({"header"}, Id) ELSE {}

Written == FoldSet(LAMBDA f, n : n + Len(collectorLines[f]) + (IF half[f] = NoLine THEN 0 ELSE 1), 0, File)

BeginLine(f) ==
    /\ half[f] = NoLine /\ Written < MaxLines
    /\ \E l \in SessionWrites(f) : half' = [half EXCEPT ![f] = l]
    /\ UNCHANGED <<collectorKind, collectorLines, collectorCursor, collectorRows, mixed>>

-----------------------------------------------------------------------------
(* The collectors.  A half-written line does not parse and is passed over.   *)

Of(f, types) == {i \in DOMAIN collectorLines[f] : collectorLines[f][i].type \in types}
Every(f) == DOMAIN collectorLines[f]
Times(f, at) == {collectorLines[f][i].time : i \in at} \ {0}

\* Mutant: the last message is the one written last.
LatestLine(f, at) == collectorLines[f][Max({i \in at : collectorLines[f][i].time # 0})].time

MaxTimestamp(f, at) == Max(Times(f, at))

\* The row that the lines at these places give: none without a time.
SessionRow(f, at, user, assistant, total) ==
    IF Times(f, at) = {} THEN NoSession
    ELSE [total |-> Cardinality(total), user |-> Cardinality(user), assistant |-> Cardinality(assistant),
          start |-> Min(Times(f, at)), last |-> MaxTimestamp(f, at)]

HeaderId(f) == collectorLines[f][Max(Of(f, {"header"}))].id

\* Mutant: the lines of a file are all of the session that it names last.
ByFile(f) ==
    LET all == Every(f)
    IN  [k \in IF all = {} THEN {} ELSE {collectorLines[f][Max(all)].id} |->
            SessionRow(f, all, Of(f, {"user"}), Of(f, {"assistant"}), all)]

CollectClaudeSessions(f) ==
    [k \in {collectorLines[f][i].id : i \in Every(f)} |->
        LET own == {i \in Every(f) : collectorLines[f][i].id = k}
        IN  SessionRow(f, own, own \cap Of(f, {"user"}), own \cap Of(f, {"assistant"}), own)]

CollectCodexSessions(f) ==
    [k \in {IF Of(f, {"header"}) = {} THEN f ELSE HeaderId(f)} |->
        SessionRow(f, Every(f), Of(f, {"user"}), Of(f, {"assistant"}), Every(f))]

\* Headers are no messages; a file without one is no session.
CollectPiSessions(f) ==
    [k \in IF Of(f, {"header"}) = {} THEN {} ELSE {HeaderId(f)} |->
        SessionRow(f, Every(f), Of(f, {"user"}), Of(f, {"assistant"}), Every(f) \ Of(f, {"header"}))]

\* There are no user messages, and the path is the session.
CollectOpenClawSessions(f) ==
    [k \in {f} |-> SessionRow(f, Every(f), {}, Of(f, {"user", "assistant"}), Every(f))]

Collect(f) ==
    CASE collectorKind = "claude" -> CollectClaudeSessions(f) [] collectorKind = "codex" -> CollectCodexSessions(f)
      [] collectorKind = "pi" -> CollectPiSessions(f)         [] collectorKind = "openclaw" -> CollectOpenClawSessions(f)

\* The files that say something of a session.
Tells(f, k) == k \in DOMAIN Collect(f)

\* A session is spread over files: its row is then that of the file read last.
Spread == \E f, g \in File, k \in Id : f # g /\ Tells(f, k) /\ Tells(g, k)

\* A rollout that was forked comes to be of another session.
Renamed(f) == collectorKind = "codex" /\ half[f].type = "header" /\ Every(f) # {} /\ HeaderId(f) # half[f].id

EndLine(f) ==
    /\ half[f] # NoLine /\ collectorLines' = [collectorLines EXCEPT ![f] = Append(@, half[f])] /\ half' = [half EXCEPT ![f] = NoLine]
    /\ UNCHANGED <<collectorKind, collectorCursor, collectorRows>>
    /\ mixed' = (mixed \/ Spread' \/ Renamed(f))

Read(f) ==
    /\ collectorCursor[f] # FileStat(f) /\ collectorCursor' = [collectorCursor EXCEPT ![f] = FileStat(f)]
    /\ collectorRows' = [k \in Id \cup File |-> IF Tells(f, k) /\ Collect(f)[k] # NoSession THEN Collect(f)[k] ELSE collectorRows[k]]
    /\ UNCHANGED <<collectorKind, collectorLines, half, mixed>>

CollectorsNext == \E f \in File : BeginLine(f) \/ EndLine(f) \/ Read(f)

CollectorsSpec == CollectorsInit /\ [][CollectorsNext]_collectorVars

-----------------------------------------------------------------------------
(* Properties.                                                             *)

\* The lines that are a session's: those that name it, or those of the file
\* whose header does.
Own(f, k) == {i \in Every(f) : collectorKind = "claude" /\ collectorLines[f][i].id = k} \cup
             {i \in Every(f) : collectorKind \in {"codex", "pi"} /\ Of(f, {"header"}) # {} /\ HeaderId(f) = k} \cup
             {i \in Every(f) : collectorKind = "openclaw" /\ k = f}

\* Once all files have been read, each with a time, a row says what the lines
\* of its session say, those of no other, and half-written lines are made up for.
RowIsItsSession ==
    ~mixed /\ (\A f \in File : collectorCursor[f] = FileStat(f)) =>
        \A f \in File, k \in Id \cup File :
            LET own == Own(f, k)
            IN  Times(f, own) # {} =>
                  /\ collectorRows[k] # NoSession
                  /\ collectorRows[k].user + collectorRows[k].assistant <= collectorRows[k].total
                  /\ collectorRows[k].total = Cardinality(IF collectorKind = "pi" THEN own \ Of(f, {"header"}) ELSE own)
                  /\ collectorRows[k].start = Min(Times(f, own))

Grown(r, s) == /\ s.total >= r.total /\ s.user >= r.user /\ s.assistant >= r.assistant
               /\ s.start <= r.start /\ s.last >= r.last

\* A file that grows never makes the row of its session smaller: neither its counts nor
\* the time from its first message to its last.
NoRowShrinks == ~mixed' => \A k \in Id \cup File : collectorRows[k] # NoSession => Grown(collectorRows[k], collectorRows'[k])
RowsOnlyGrow == [][NoRowShrinks]_collectorVars
=============================================================================
