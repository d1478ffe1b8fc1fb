---------------------------- MODULE TokenParsers ----------------------------
(* The parsers of Pi, OpenClaw and Copilot CLI logs: a log that has grown is *)
(* read from the stored offset to the size it had at its stat, and the       *)
(* offset moves to where the reading ended.  The tool may have been writing  *)
(* a line, so a pass can end within one; and what a line means can depend on *)
(* lines that an earlier pass has read.                                      *)
EXTENDS Integers, Sequences, FiniteSets, FiniteSetsExt

CONSTANTS Model, EventId, MaxLogLines

ParserKinds == {"pi", "openclaw", "otel", "copilot"}
Unknown == "unknown"

VARIABLES
    parserKind,      \* the format of the log
    parserLines,     \* its whole lines
    torn,      \* what is there of the next line: <<>>, or the line and how much of it
    parserCursor,    \* the stat of the last pass that was kept
    offset,    \* how many lines are behind the offset
    deltas,    \* what was counted: the line, its model, where the pass began
    cut        \* history: the markers that a kept pass ended at

parserVars == <<parserKind, parserLines, torn, parserCursor, offset, deltas, cut>>

LogStat == <<Len(parserLines), torn>>

ParsersInit ==
    /\ parserKind \in ParserKinds /\ parserLines = <<>> /\ torn = <<>> /\ parserCursor = <<0, <<>>>>
    /\ offset = 0 /\ deltas = {} /\ cut = {}

-----------------------------------------------------------------------------
(* The tools.  A process log of Copilot CLI holds a marker and, on lines of  *)
(* their own, the start and the end of a JSON block; a plain line may break  *)
(* the block off.                                                            *)

LogLine(type, model, id, tokens) == [type : {type}, model : model, id : id, tokens : tokens]
Plain == LogLine("plain", {Unknown}, {"none"}, {0})

LastType == IF parserLines = <<>> THEN "plain" ELSE parserLines[Len(parserLines)].type

LogWrites ==
    CASE parserKind = "pi" -> LogLine("session", {Unknown}, {"none"}, {0}) \cup LogLine("change", Model, {"none"}, {0})
                        \cup LogLine("message", Model, {"none"}, {0, 1}) \cup LogLine("compaction", {Unknown}, EventId, {1})
      [] parserKind = "openclaw" -> LogLine("message", Model, {"none"}, {0, 1})
      [] parserKind = "otel" -> LogLine("span", Model, EventId \cup {"none"}, {0, 1})
      [] parserKind = "copilot" /\ LastType = "marker" -> LogLine("open", {Unknown}, {"none"}, {0})
      [] parserKind = "copilot" /\ LastType = "open" -> Plain \cup LogLine("close", Model, {"none"}, {0, 1})
      [] OTHER -> Plain \cup LogLine("marker", {Unknown}, {"none"}, {0})

\* A piece too short to be told, one that has its time stamp, or all but the line's end.
Pieces(l) == {"piece", "text"} \cup (IF l.type \in {"plain", "marker"} THEN {"stamp"} ELSE {})

WritePart ==
    /\ torn = <<>> /\ Len(parserLines) < MaxLogLines
    /\ \E l \in LogWrites : \E p \in Pieces(l) : torn' = <<l, p>>
    /\ UNCHANGED <<parserKind, parserLines, parserCursor, offset, deltas, cut>>

WriteRest ==
    /\ torn # <<>> /\ parserLines' = Append(parserLines, torn[1]) /\ torn' = <<>>
    /\ UNCHANGED <<parserKind, parserCursor, offset, deltas, cut>>

-----------------------------------------------------------------------------
(* What a pass over the whole lines from + 1 .. to counts.                   *)

Before(i, types) == {j \in 1..i : parserLines[j].type \in types}

\* Pi's log is read from its start: the session and the model in force are those before line i.
CurrentModel(i, from) ==
    LET set == Before(i, {"session", "change", "message"})
    IN  IF set = {} THEN Unknown ELSE parserLines[Max(set)].model

\* The usage that a line carries: one without tokens does not count.
PiUsage(i) == parserLines[i].tokens > 0
SpanUsage(i) == parserLines[i].tokens > 0
BlockUsage(i) == parserLines[i].tokens > 0

Compactions(i) == {j \in Before(i, {"compaction"}) : Before(j, {"session"}) # {}}

ParsePi(from, to) ==
    {[line |-> i, model |-> CurrentModel(i, from), from |-> from] : i \in
        {j \in (from + 1)..to : parserLines[j].type = "message" /\ PiUsage(j)} \cup
        {j \in Compactions(to) \ 1..from : \A k \in Compactions(j - 1) : parserLines[k].id # parserLines[j].id}}

ParseOpenClaw(from, to) ==
    {[line |-> i, model |-> parserLines[i].model, from |-> from] : i \in
        {j \in (from + 1)..to : parserLines[j].tokens > 0}}

\* A span is passed over if its id was seen in this pass.
ParseCopilotOtel(from, to) ==
    {[line |-> i, model |-> parserLines[i].model, from |-> from] : i \in
        {j \in (from + 1)..to : SpanUsage(j) /\
            \A k \in (from + 1)..(j - 1) : parserLines[k].id = "none" \/ parserLines[k].id # parserLines[j].id}}

\* What the process-log parser takes line i for: of the torn line, what its text shows.
TypeAt(i) ==
    IF i <= Len(parserLines) THEN parserLines[i].type
    ELSE CASE torn[2] = "piece" -> "open" [] torn[2] = "stamp" -> "plain" [] torn[2] = "text" -> torn[1].type

\* One line read: a log line ends a block, a marker begins one, and the line that
\* completes the block counts it.
ReadLine(s, i) ==
    CASE TypeAt(i) = "plain" -> [s EXCEPT !.collecting = FALSE, !.json = {}, !.safe = i]
      [] TypeAt(i) = "marker" -> [s EXCEPT !.collecting = TRUE, !.json = {}]
      [] TypeAt(i) = "open" /\ s.collecting -> [s EXCEPT !.json = @ \cup {i}]
      [] TypeAt(i) = "close" /\ s.json # {} ->
            [s EXCEPT !.collecting = FALSE, !.json = {}, !.safe = i, !.counted = @ \cup {i}]
      [] OTHER -> s

ParseCopilotCli(from, to) ==
    LET read[i \in from..to] ==
            IF i = from THEN [collecting |-> FALSE, json |-> {}, safe |-> from, counted |-> {}]
            ELSE ReadLine(read[i - 1], i)
    IN  read[to]

Deltas(from, to) ==
    CASE parserKind = "pi" -> ParsePi(from, to) [] parserKind = "openclaw" -> ParseOpenClaw(from, to)
      [] parserKind = "otel" -> ParseCopilotOtel(from, to)
      [] parserKind = "copilot" -> {[line |-> i, model |-> parserLines[i].model, from |-> from] :
                                 i \in {j \in ParseCopilotCli(from, to).counted \ {Len(parserLines) + 1} : BlockUsage(j)}}

-----------------------------------------------------------------------------
(* The passes.                                                             *)

\* A block that is open is read again from its marker; but a marker that is the
\* last line is behind the offset.
EndOffset(s, to) == IF s.collecting /\ s.json # {} THEN s.safe ELSE to

\* A pass that took the torn line for a whole one ended behind the size, and is thrown away.
Parse ==
    /\ parserCursor # LogStat
    /\ LET to == Len(parserLines) + IF parserKind = "copilot" /\ torn # <<>> THEN 1 ELSE 0
           end == IF parserKind = "copilot" THEN EndOffset(ParseCopilotCli(offset, to), to) ELSE to
       IN  /\ end <= Len(parserLines)
           /\ deltas' = deltas \cup Deltas(offset, to) /\ offset' = end
           /\ cut' = IF end > 0 /\ parserLines[end].type = "marker" THEN cut \cup {end} ELSE cut
    /\ parserCursor' = LogStat /\ UNCHANGED <<parserKind, parserLines, torn>>

ParsersNext == WritePart \/ WriteRest \/ Parse

ParsersSpec == ParsersInit /\ [][ParsersNext]_parserVars

-----------------------------------------------------------------------------
(* Properties.                                                             *)

LinesOf(ds) == {[line |-> d.line, model |-> d.model] : d \in ds}

\* What one pass over all that is behind the offset would count.
Whole == LinesOf(Deltas(0, offset))

AtCut(l) == \E m \in cut : m = l.line - 2

\* However the passes cut the log, what is behind the offset is counted with the
\* model that one pass would give it; except for the block whose marker was the
\* last line of a pass.
NothingPassedOver == {l \in Whole : ~AtCut(l)} \subseteq LinesOf(deltas)

\* No line is counted twice, no compaction of a Pi log, and no span within a pass.
NoLineTwice ==
    \A d, e \in deltas :
        d # e => /\ d.line # e.line
                 /\ (parserKind = "pi" \/ d.from = e.from) /\ parserLines[d.line].id # "none" => parserLines[d.line].id # parserLines[e.line].id
=============================================================================
