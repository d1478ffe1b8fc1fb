------------------------------ MODULE CliSources -----------------------------
(* The readers of the tools' token logs and databases, checked in one run:
   a behaviour belongs to one of them and leaves the variables of the
   others alone.  The properties are those of all readers together; the
   inductive invariant of each reader and its proof follow them, and at the
   end what these invariants give together. *)
EXTENDS Integers, Sequences, FiniteSets, Functions, TLC,
        JsonlContinuity, ClaudeDedup, CodexRollouts, OpenCodeSources, HermesSessions, GrokUsage,
        SequenceTheorems, FiniteSetTheorems, WellFoundedInduction, TLAPS

VARIABLES part

\* A child of a child: every thread is in the run of the root.
MCParent == [r |-> "r", p |-> "r", c |-> "p"]

NoJsonl ==
    /\ disk = 0 /\ cursors = 0 /\ known = 0 /\ counted = 0 /\ pc = 0 /\ full = 0
    /\ mem = 0 /\ todo = 0 /\ failed = 0 /\ delta = 0 /\ at = 0 /\ written = 0
    /\ changes = 0 /\ returned = 0 /\ passedOver = 0
NoClaude ==
    /\ claudeLog = 0 /\ claudeSaved = 0 /\ claudeRows = 0 /\ claudePhase = 0
    /\ claudeFull = 0 /\ claudeCur = 0 /\ seen = 0 /\ left = 0 /\ deltas = 0
    /\ claudeMishaps = 0 /\ forgotten = 0
NoCodex ==
    /\ rollout = 0 /\ cursor = 0 /\ scopes = 0 /\ tally = 0 /\ stage = 0 /\ whole = 0
    /\ work = 0 /\ scopeOf = 0 /\ keys = 0 /\ queue = 0 /\ gains = 0 /\ edges = 0
    /\ troubles = 0 /\ astray = 0 /\ lostKeys = 0
NoOpenCode ==
    /\ json = 0 /\ dirTime = 0 /\ db = 0 /\ dbIno = 0 /\ clock = 0 /\ openCodeDisk = 0
    /\ count = 0 /\ step = 0 /\ fresh = 0 /\ mine = 0 /\ unread = 0 /\ sum = 0
    /\ hitches = 0 /\ settled = 0 /\ overlapped = 0 /\ early = 0 /\ late = 0
    /\ unseen = 0
NoHermes ==
    /\ total = 0 /\ backup = 0 /\ ino = 0 /\ hermesSaved = 0 /\ hermesRows = 0
    /\ hermesPhase = 0 /\ hermesFull = 0 /\ hermesCur = 0 /\ hermesDelta = 0
    /\ hermesMishaps = 0 /\ spent = 0 /\ regained = 0 /\ thrown = 0
NoGrok ==
    /\ grokLog = 0 /\ timeline = 0 /\ signals = 0 /\ updates = 0 /\ offset = 0
    /\ grokRows = 0 /\ details = 0 /\ grokPc = 0 /\ snapshots = 0 /\ bound = 0
    /\ maps = 0 /\ forks = 0 /\ model = 0 /\ misled = 0

Init ==
    \/ /\ part = "jsonl" /\ JsonlInit
       /\ NoClaude /\ NoCodex /\ NoOpenCode /\ NoHermes /\ NoGrok
    \/ /\ part = "claude" /\ ClaudeInit
       /\ NoJsonl /\ NoCodex /\ NoOpenCode /\ NoHermes /\ NoGrok
    \/ /\ part = "codex" /\ CodexInit
       /\ NoJsonl /\ NoClaude /\ NoOpenCode /\ NoHermes /\ NoGrok
    \/ /\ part = "opencode" /\ OpenCodeInit
       /\ NoJsonl /\ NoClaude /\ NoCodex /\ NoHermes /\ NoGrok
    \/ /\ part = "hermes" /\ HermesInit
       /\ NoJsonl /\ NoClaude /\ NoCodex /\ NoOpenCode /\ NoGrok
    \/ /\ part = "grok" /\ GrokInit
       /\ NoJsonl /\ NoClaude /\ NoCodex /\ NoOpenCode /\ NoHermes

Next ==
    \/ /\ part = "jsonl" /\ JsonlNext
       /\ UNCHANGED <<part, claudeVars, codexVars, openCodeVars, hermesVars, grokVars>>
    \/ /\ part = "claude" /\ ClaudeNext
       /\ UNCHANGED <<part, jsonlVars, codexVars, openCodeVars, hermesVars, grokVars>>
    \/ /\ part = "codex" /\ CodexNext
       /\ UNCHANGED <<part, jsonlVars, claudeVars, openCodeVars, hermesVars, grokVars>>
    \/ /\ part = "opencode" /\ OpenCodeNext
       /\ UNCHANGED <<part, jsonlVars, claudeVars, codexVars, hermesVars, grokVars>>
    \/ /\ part = "hermes" /\ HermesNext
       /\ UNCHANGED <<part, jsonlVars, claudeVars, codexVars, openCodeVars, grokVars>>
    \/ /\ part = "grok" /\ GrokNext
       /\ UNCHANGED <<part, jsonlVars, claudeVars, codexVars, openCodeVars, hermesVars>>

allVars == <<part, jsonlVars, claudeVars, codexVars, openCodeVars, hermesVars, grokVars>>

Spec == Init /\ [][Next]_allVars

\* Logs and sessions, messages and models, are interchangeable.
Symmetry == Permutations(Log) \union Permutations(Model) \union Permutations(Msg)

\* However logs grow, tear, rotate, fork, are rewritten or read again, what
\* a tool spent is counted at most once: a line of a JSONL log, a Claude
\* message that several logs repeat, a Codex edge that a child inherits, an
\* OpenCode message found in both stores, a Hermes total.
CountedAtMostOnce ==
    /\ (part = "jsonl" => NeverCountedTwice)
    /\ (part = "claude" => CountedOnce)
    /\ (part = "codex" => EdgeOnce)
    /\ (part = "opencode" => NeverTwice)
    /\ (part = "hermes" => NeverMoreThanSpent)

\* And nothing that a reader has passed over, behind its offset, ring,
\* watermark or totals, is missing from what it counted.
NothingLost ==
    /\ (part = "jsonl" => NothingBehindCursor)
    /\ (part = "claude" => NoneSwallowed)
    /\ (part = "codex" => NoEdgeLost)
    /\ (part = "opencode" => NothingMissed)
    /\ (part = "hermes" => NothingBehindTotals)

\* Grok names the model of a turn in another file than its tokens: the
\* tokens are counted for the model that spent them, and the details that
\* follow describe the same turn.
CountedForItsModel ==
    /\ (part = "grok" => RowsNameTheirModel)
    /\ (part = "grok" => DetailsAreItsOwn)

-----------------------------------------------------------------------------
(* JSONL logs: anchors, offsets and what was read of them.                 *)

ByteOf == Event \X {1, 2}
OffsetLog == [there : BOOLEAN, ino : Nat, ver : Nat, bytes : Seq(ByteOf)]
OffsetCursor == [ino : Nat, ver : Nat, size : Nat, offset : Nat, anchors : SUBSET Event]
OffsetReading == [file : SUBSET File, step : {"none", "hash", "parse", "verify"}, start : Nat,
            action : {"none", "new", "append", "rebase"}, opts : OffsetCursor, snap : Nat, ver : Nat, ino : Nat,
            pre : Seq(ByteOf), bound : Nat, got : SUBSET Event]

JsonlTypeOK ==
    /\ disk \in [File -> OffsetLog] /\ written \in Nat
    /\ cursors \in [File -> OffsetCursor] /\ mem \in [File -> OffsetCursor] /\ known \subseteq File
    /\ counted \in [Event -> Nat] /\ delta \in [Event -> Nat]
    /\ pc \in {"idle", "scan"} /\ full \in BOOLEAN /\ todo \subseteq File /\ failed \subseteq File
    /\ at \in OffsetReading /\ returned \subseteq Event /\ passedOver \subseteq Event

\* Records follow one another, in the order of their events.
WellFormed(b) ==
    /\ b \in Seq(ByteOf)
    /\ \A j \in 1..Len(b) : /\ b[j][2] <= Length(b[j][1])
                            /\ b[j][2] = 2 => j > 1 /\ b[j - 1] = <<b[j][1], 1>>
    /\ \A i, j \in 1..Len(b) : i < j => b[i][1] < b[j][1] \/ (b[i][1] = b[j][1] /\ b[j][2] - b[i][2] = j - i)

\* The bytes that may yet come after the bytes of a log, w events being written.
Ahead(b, w) == {x \in ByteOf : x[1] > w \/ (b # <<>> /\ ~IsEnd(b[Len(b)]) /\ x = <<b[Len(b)][1], 2>>)}

BytesFit ==
    /\ \A f \in File : WellFormed(disk[f].bytes) /\ disk[f].ver > 0
    /\ \A f \in File : \A i \in 1..Len(disk[f].bytes) : disk[f].bytes[i][1] <= written
    /\ \A f, g \in File : \A i \in 1..Len(disk[f].bytes), j \in 1..Len(disk[g].bytes) :
          disk[f].bytes[i][1] = disk[g].bytes[j][1] => f = g

\* Events that are counted and were never gone, and those nothing is owed for.
Taken(n, back) == {e \in Event : n[e] > 0 /\ e \notin back}
Settled(n, over) == {e \in Event : n[e] > 0 \/ e \in over}
UpTo(e, anchors) == \E a \in anchors : e <= a

\* A cursor of a log: what is taken of it is behind its offset and its
\* anchors, and everything behind its anchors is settled.
OffsetFits(d, ahead, c, taken, owed) ==
    /\ 1 <= c.ver /\ c.ver <= d.ver
    /\ c.ver = d.ver /\ c.ino = d.ino => c.offset <= Len(d.bytes)
    /\ \A a \in c.anchors : \A x \in ahead : a < x[1]
    /\ \A j \in 1..Len(d.bytes) : IsEnd(d.bytes[j]) =>
          /\ d.bytes[j][1] \in taken => j <= c.offset /\ (c.anchors = {} \/ UpTo(d.bytes[j][1], c.anchors))
          /\ UpTo(d.bytes[j][1], c.anchors) => d.bytes[j][1] \in owed
          /\ c.ver = d.ver /\ c.ino = d.ino /\ j <= c.offset => d.bytes[j][1] \in owed

\* Nothing is taken of a log without a cursor, unless it is gone.
UnreadFits(d, taken) == d.there => \A e \in Holds(d.bytes) : e \notin taken

OffsetsFitIn(logs, w, back, over, cs, n, paths) ==
    /\ \A f \in File : \A x \in Ahead(logs[f].bytes, w) : n[x[1]] = 0
    /\ \A e \in Event : n[e] > 1 => e \in back
    /\ \A f \in File :
          IF cs[f] = NoJsonlCursor THEN f \in paths \/ UnreadFits(logs[f], Taken(n, back))
          ELSE OffsetFits(logs[f], Ahead(logs[f].bytes, w), cs[f], Taken(n, back), Settled(n, over))
OffsetsFit(cs, n, paths) == OffsetsFitIn(disk, written, returned, passedOver, cs, n, paths)

CommittedFits ==
    \/ (\A f \in File : cursors[f] = NoJsonlCursor) /\ (\A e \in Event : counted[e] > 1 => e \in returned)
    \/ OffsetsFit(cursors, counted, known)

\* What the rows would be if the sync committed now.
JsonlRows == [e \in Event |-> delta[e] + (IF full THEN 0 ELSE counted[e])]
JsonlPaths == IF full THEN {} ELSE known
LogScanFits == IF pc = "scan" THEN OffsetsFit(mem, JsonlRows, JsonlPaths)
            ELSE mem = cursors /\ delta = NoCount /\ ~full /\ at = Nowhere

\* Nothing before what was hashed has been cut off since.
SameSlice(a, b) == a.start + 1 \in 1..Len(b) /\ b[a.start + 1] = a.pre[1]
SliceFits(a, b, ahead) ==
    /\ a.start <= a.snap
    /\ a.step \in {"parse", "verify"} /\ a.start < a.snap =>
          /\ a.pre[1] \notin ahead
          /\ \A j \in 1..Len(b) : b[j] = a.pre[1] => j <= a.start + 1
          /\ SameSlice(a, b) => a.snap <= Len(b)
    /\ a.step = "verify" =>
          /\ a.start = a.snap => a.got = {} /\ a.bound = a.start
          /\ a.start < a.snap /\ SameSlice(a, b) => /\ a.bound \in a.start..a.snap
                                               /\ a.got = Between(b, a.start, a.bound)

\* What is read is read with a cursor that fits.
ReadsIn(a, d, w, taken, owed) ==
    /\ a.step # "none" /\ 1 <= a.ver /\ a.ver <= d.ver
    /\ SliceFits(a, d.bytes, Ahead(d.bytes, w))
    /\ IF a.action = "new" THEN a.opts = NoJsonlCursor /\ a.start = 0 /\ UnreadFits(d, taken)
       ELSE OffsetFits(d, Ahead(d.bytes, w), a.opts, taken, owed)

ReadingFits ==
    at # Nowhere =>
        \E f \in File : at.file = {f} /\ ReadsIn(at, disk[f], written, Taken(JsonlRows, returned), Settled(JsonlRows, passedOver))

JsonlFits == JsonlTypeOK /\ BytesFit /\ CommittedFits /\ LogScanFits /\ ReadingFits

LEMMA Lengths == \A e \in Event : Length(e) \in {1, 2}
  BY JsonlAssumption DEF Length, Event

LEMMA Events == Event \subseteq Nat
  BY JsonlAssumption DEF Event

LEMMA BytesOfRecords ==
    ASSUME NEW b, WellFormed(b)
    PROVE  /\ Len(b) \in Nat
           /\ \A j \in 1..Len(b) : b[j] \in ByteOf /\ b[j][1] \in Event /\ b[j][1] \in Nat /\ b[j][2] \in {1, 2}
           /\ DOMAIN b = 1..Len(b)
  <1>1. b \in Seq(ByteOf)
    BY DEF WellFormed
  <1>2. Len(b) \in Nat /\ DOMAIN b = 1..Len(b) /\ \A j \in 1..Len(b) : b[j] \in ByteOf
    BY <1>1
  <1>3. \A x \in ByteOf : x[1] \in Event /\ x[2] \in {1, 2}
    BY DEF ByteOf
  <1> QED
    BY <1>2, <1>3, Events

LEMMA BytesOfRecord ==
    ASSUME NEW e \in Event
    PROVE  /\ Record(e) \in Seq(ByteOf) /\ Len(Record(e)) = Length(e)
           /\ \A i \in 1..Length(e) : Record(e)[i] = <<e, i>>
  <1>1. Length(e) \in {1, 2}
    BY Lengths
  <1>2. \A i \in 1..Length(e) : <<e, i>> \in ByteOf
    BY <1>1 DEF ByteOf
  <1> QED
    BY <1>1, <1>2 DEF Record

LEMMA EndsAreOrdered ==
    ASSUME NEW b, WellFormed(b), NEW i \in 1..Len(b), NEW j \in 1..Len(b), i < j, IsEnd(b[i])
    PROVE  b[i][1] < b[j][1]
  <1>1. b[i][2] = Length(b[i][1]) /\ b[j][2] <= Length(b[j][1])
    BY DEF IsEnd, WellFormed
  <1>2. b[i][1] < b[j][1] \/ (b[i][1] = b[j][1] /\ b[j][2] - b[i][2] = j - i)
    BY DEF WellFormed
  <1>3. b[i][2] \in {1, 2} /\ b[j][2] \in {1, 2} /\ Len(b) \in Nat
    BY BytesOfRecords
  <1>4. CASE b[i][1] = b[j][1] /\ b[j][2] - b[i][2] = j - i
    <2>1. b[j][2] <= b[i][2]
      BY <1>1, <1>4
    <2>2. b[j][2] - b[i][2] > 0
      BY <1>3, <1>4
    <2> QED
      BY <1>3, <2>1, <2>2
  <1> QED
    BY <1>2, <1>4

LEMMA BytesDiffer ==
    ASSUME NEW b, WellFormed(b), NEW i \in 1..Len(b), NEW j \in 1..Len(b), b[i] = b[j]
    PROVE  i = j
  <1>1. Len(b) \in Nat /\ b[i][1] \in Nat /\ b[i][2] \in {1, 2}
    BY BytesOfRecords
  <1>2. CASE i < j
    <2>1. b[i][1] < b[j][1] \/ (b[i][1] = b[j][1] /\ b[j][2] - b[i][2] = j - i)
      BY <1>2 DEF WellFormed
    <2> QED
      BY <1>1, <1>2, <2>1
  <1>3. CASE j < i
    <2>1. b[j][1] < b[i][1] \/ (b[j][1] = b[i][1] /\ b[i][2] - b[j][2] = i - j)
      BY <1>3 DEF WellFormed
    <2> QED
      BY <1>1, <1>3, <2>1
  <1> QED
    BY <1>1, <1>2, <1>3

LEMMA AheadIsAhead ==
    ASSUME NEW b, WellFormed(b), NEW w \in Nat, \A i \in 1..Len(b) : b[i][1] <= w,
           NEW x \in Ahead(b, w), NEW j \in 1..Len(b)
    PROVE  /\ x \in ByteOf /\ x[1] \in Nat /\ x # b[j]
           /\ IsEnd(b[j]) => b[j][1] < x[1]
  <1>1. x \in ByteOf /\ x[1] \in Nat
    BY Events DEF Ahead, ByteOf
  <1>2. Len(b) \in Nat /\ b[j][1] \in Nat /\ b[j][1] <= w /\ b[j][2] \in {1, 2}
    BY BytesOfRecords
  <1>3. CASE x[1] > w
    BY <1>1, <1>2, <1>3
  <1>4. CASE b # <<>> /\ ~IsEnd(b[Len(b)]) /\ x = <<b[Len(b)][1], 2>>
    <2>1. Len(b) \in 1..Len(b)
      BY <1>2
    <2>2. x[1] = b[Len(b)][1] /\ x[2] = 2
      BY <1>4
    <2>3. b[Len(b)] \in ByteOf /\ b[Len(b)][1] \in Event /\ b[Len(b)][2] \in {1, 2}
          /\ b[Len(b)][2] <= Length(b[Len(b)][1]) /\ Length(b[Len(b)][1]) \in {1, 2}
      BY <2>1, BytesOfRecords, Lengths DEF WellFormed
    <2>4. b[Len(b)][2] = 1
      BY <1>4, <2>3 DEF IsEnd
    <2>5. CASE j = Len(b)
      BY <1>1, <1>4, <2>2, <2>4, <2>5
    <2>6. CASE j < Len(b)
      <3>1. IsEnd(b[j]) => b[j][1] < x[1]
        BY <2>1, <2>2, <2>6, EndsAreOrdered
      <3>2. b[j][1] < b[Len(b)][1] \/ (b[j][1] = b[Len(b)][1] /\ b[Len(b)][2] - b[j][2] = Len(b) - j)
        BY <2>1, <2>6 DEF WellFormed
      <3>3. x # b[j]
        BY <1>2, <2>1, <2>2, <2>3, <2>4, <2>6, <3>2
      <3> QED
        BY <1>1, <3>1, <3>3
    <2> QED
      BY <1>2, <2>5, <2>6
  <1> QED
    BY <1>3, <1>4 DEF Ahead

LEMMA HeldRecords ==
    ASSUME NEW b, WellFormed(b), NEW e
    PROVE  e \in Holds(b) <=> \E j \in 1..Len(b) : IsEnd(b[j]) /\ b[j][1] = e
  BY BytesOfRecords DEF Holds

LEMMA PrefixRecords ==
    ASSUME NEW b, WellFormed(b), NEW mark \in 0..Len(b), NEW e
    PROVE  e \in Records(b, mark) <=> \E j \in 1..mark : IsEnd(b[j]) /\ b[j][1] = e
  <1> DEFINE p == SubSeq(b, 1, mark)
  <1>1. b \in Seq(ByteOf) /\ Len(b) \in Nat
    BY BytesOfRecords DEF WellFormed
  <1>2. p = [i \in 1..mark |-> b[i]]
    BY <1>1 
  <1>3. DOMAIN p = 1..mark /\ \A i \in 1..mark : p[i] = b[i]
    BY <1>2, Zenon
  <1> HIDE DEF p
  <1>4. Records(b, mark) = {p[i][1] : i \in {j \in DOMAIN p : IsEnd(p[j])}}
    BY DEF Records, Holds, p
  <1> QED
    BY <1>3, <1>4

LEMMA HasLatest ==
    ASSUME NEW S \in SUBSET Nat, S # {}, NEW n \in Nat, \A v \in S : v <= n
    PROVE  \E v \in S : \A w \in S : w <= v
  <1> DEFINE T == {n - v : v \in S}
  <1>1. T \subseteq Nat /\ T # {}
    <2>1. PICK v \in S : TRUE
      OBVIOUS
    <2>2. n - v \in T
      OBVIOUS
    <2>3. \A w \in S : w \in Nat /\ n - w \in Nat
      OBVIOUS
    <2> QED
      BY <2>2, <2>3
  <1>2. PICK x \in T : \A y \in T : ~(<<y, x>> \in OpToRel(<, Nat))
    BY <1>1, WFMin, NatLessThanWellFounded, Zenon
  <1>3. \A y \in T : ~(y < x)
    BY <1>1, <1>2 DEF OpToRel
  <1>4. PICK v \in S : x = n - v
    OBVIOUS
  <1>5. \A w \in S : w <= v
    <2> SUFFICES ASSUME NEW w \in S PROVE w <= v
      OBVIOUS
    <2>1. n - w \in T
      OBVIOUS
    <2>2. ~(n - w < n - v)
      BY <1>3, <1>4, <2>1
    <2> HIDE DEF T
    <2> QED
      BY <2>2
  <1> QED
    BY <1>5

\* The newest of some records reach as far as all of them.
LEMMA NewestReachesAll ==
    ASSUME NEW S \in SUBSET Event, NEW n \in Nat \ {0}, NEW e \in Event
    PROVE  /\ Newest(n, S) \subseteq S
           /\ UpTo(e, Newest(n, S)) <=> \E d \in S : e <= d
  <1>1. Newest(n, S) \subseteq S
    BY DEF Newest
  <1>2. ASSUME NEW d \in S, e <= d PROVE UpTo(e, Newest(n, S))
    <2>1. S \subseteq Nat /\ MaxEvents \in Nat /\ \A v \in S : v <= MaxEvents
      BY JsonlAssumption, Events DEF Event
    <2>2. PICK v \in S : \A w \in S : w <= v
      BY <2>1, HasLatest
    <2>3. {w \in S : w > v} = {}
      <3>1. \A w \in S : w \in Nat /\ v \in Nat /\ w <= v
        BY <2>1, <2>2
      <3>2. \A w \in S : ~(w > v)
        BY <3>1
      <3> QED
        BY <3>2, Zenon
    <2>4. Cardinality({w \in S : w > v}) < n
      BY <2>3, FS_EmptySet
    <2>5. v \in Newest(n, S) /\ e <= v
      BY <1>2, <2>1, <2>2, <2>4, Events DEF Newest
    <2> QED
      BY <2>5 DEF UpTo
  <1> QED
    BY <1>1, <1>2 DEF UpTo

\* The anchors of an offset tell the records before it from those behind it.
LEMMA AnchorsMark ==
    ASSUME NEW b, WellFormed(b), NEW mark \in 0..Len(b), NEW n \in Nat \ {0}
    PROVE  LET A == Newest(n, Records(b, mark)) IN
           /\ A \subseteq Event
           /\ \A a \in A : \E i \in 1..mark : IsEnd(b[i]) /\ b[i][1] = a
           /\ \A j \in 1..Len(b) : IsEnd(b[j]) => (UpTo(b[j][1], A) <=> j <= mark)
  <1> DEFINE S == Records(b, mark)
             A == Newest(n, S)
  <1>1. Len(b) \in Nat /\ 1..mark \subseteq 1..Len(b)
    BY BytesOfRecords
  <1>2. \A a \in S : \E i \in 1..mark : IsEnd(b[i]) /\ b[i][1] = a
    BY PrefixRecords
  <1>3. S \subseteq Event
    BY <1>1, <1>2, BytesOfRecords
  <1>4. \A i \in 1..mark : IsEnd(b[i]) => b[i][1] \in S
    BY PrefixRecords
  <1> HIDE DEF S
  <1>5. A \subseteq S
    BY <1>3 DEF Newest
  <1>6. ASSUME NEW j \in 1..Len(b), IsEnd(b[j]) PROVE UpTo(b[j][1], A) <=> j <= mark
    <2>1. b[j][1] \in Event /\ b[j][1] \in Nat
      BY BytesOfRecords
    <2>2. UpTo(b[j][1], A) <=> \E d \in S : b[j][1] <= d
      BY <1>3, <2>1, NewestReachesAll
    <2>3. ASSUME j <= mark PROVE \E d \in S : b[j][1] <= d
      <3>1. j \in 1..mark
        BY <1>1, <2>3
      <3> QED
        BY <1>4, <1>6, <2>1, <3>1
    <2>4. ASSUME NEW d \in S, b[j][1] <= d PROVE j <= mark
      <3>1. PICK i \in 1..mark : IsEnd(b[i]) /\ b[i][1] = d
        BY <1>2
      <3>2. i \in 1..Len(b) /\ b[i][1] \in Nat
        BY <1>1, BytesOfRecords
      <3>3. i < j => b[i][1] < b[j][1]
        BY <3>1, <3>2, EndsAreOrdered
      <3> QED
        BY <1>1, <2>1, <2>4, <3>1, <3>2, <3>3
    <2> QED
      BY <2>2, <2>3, <2>4
  <1> QED
    BY <1>2, <1>3, <1>5, <1>6 DEF S

\* Where a cursor's anchors match, they mark that offset.
LEMMA MatchMarks ==
    ASSUME NEW b, WellFormed(b), NEW mark, NEW A \in SUBSET Event, A # {}, MatchAt(b, mark, A)
    PROVE  /\ mark \in 1..Len(b) /\ IsEnd(b[mark])
           /\ \A j \in 1..Len(b) : IsEnd(b[j]) => (UpTo(b[j][1], A) <=> j <= mark)
  <1>1. mark \in 1..Len(b) /\ IsEnd(b[mark]) /\ Newest(Cardinality(A), Records(b, mark)) = A
    BY BytesOfRecords DEF MatchAt
  <1>2. MaxEvents \in Nat
    BY JsonlAssumption
  <1>3. IsFiniteSet(Event)
    BY <1>2, FS_Interval DEF Event
  <1>4. IsFiniteSet(A)
    BY <1>3, FS_Subset
  <1>5. Cardinality(A) \in Nat \ {0}
    BY <1>4, FS_CardinalityType, FS_EmptySet
  <1>6. mark \in 0..Len(b)
    BY <1>1, BytesOfRecords
  <1> QED
    BY <1>1, <1>5, <1>6, AnchorsMark

\* Reading goes on where the anchors are, or at the start of a log that
\* nothing was read of.
LEMMA ResolveMarks ==
    ASSUME NEW b, WellFormed(b), NEW c \in OffsetCursor, Resolve(b, c).action # "skip"
    PROVE  LET d == Resolve(b, c) IN
           /\ d.start \in 0..Len(b) /\ d.action \in {"append", "rebase"}
           /\ \/ c.anchors = {} /\ c.offset = 0 /\ d.start = 0
              \/ /\ c.anchors # {} /\ d.start \in 1..Len(b) /\ IsEnd(b[d.start])
                 /\ \A j \in 1..Len(b) : IsEnd(b[j]) => (UpTo(b[j][1], c.anchors) <=> j <= d.start)
  <1> DEFINE d == Resolve(b, c)
             found == {j \in DOMAIN b : MatchAt(b, j, c.anchors)}
             last == CHOOSE j \in found : \A i \in found : i <= j
  <1>1. Len(b) \in Nat /\ DOMAIN b = 1..Len(b) /\ c.anchors \in SUBSET Event
    BY BytesOfRecords DEF OffsetCursor
  <1>2. CASE c.anchors = {}
    <2>1. c.offset = 0 /\ d = Decision("append", 0)
      BY <1>2 DEF Resolve, Decision
    <2> QED
      BY <1>1, <1>2, <2>1 DEF Decision
  <1>3. ASSUME c.anchors # {}, NEW o, MatchAt(b, o, c.anchors), d.start = o, d.action \in {"append", "rebase"}
        PROVE  /\ d.start \in 0..Len(b) /\ d.action \in {"append", "rebase"}
               /\ d.start \in 1..Len(b) /\ IsEnd(b[d.start])
               /\ \A j \in 1..Len(b) : IsEnd(b[j]) => (UpTo(b[j][1], c.anchors) <=> j <= d.start)
    <2>1. /\ o \in 1..Len(b) /\ IsEnd(b[o])
          /\ \A j \in 1..Len(b) : IsEnd(b[j]) => (UpTo(b[j][1], c.anchors) <=> j <= o)
      BY <1>1, <1>3, MatchMarks
    <2> QED
      BY <1>1, <1>3, <2>1
  <1>4. CASE c.anchors # {} /\ MatchAt(b, c.offset, c.anchors)
    <2>1. d = Decision("append", c.offset)
      BY <1>4 DEF Resolve
    <2>2. d.start = c.offset /\ d.action = "append"
      BY <2>1 DEF Decision
    <2> QED
      BY <1>3, <1>4, <2>2
  <1>5. CASE c.anchors # {} /\ ~MatchAt(b, c.offset, c.anchors)
    <2>1. found # {} /\ d = Decision(IF last = c.offset THEN "append" ELSE "rebase", last)
      BY <1>5 DEF Resolve, Decision
    <2>2. found \subseteq 1..Len(b) /\ found \subseteq Nat
      BY <1>1
    <2>3. \E j \in found : \A i \in found : i <= j
      <3> HIDE DEF found
      <3>1. \A v \in found : v <= Len(b)
        BY <1>1, <2>2
      <3> QED
        BY <1>1, <2>1, <2>2, <3>1, HasLatest
    <2>4. last \in found
      <3> HIDE DEF found
      <3> QED
        BY <2>3
    <2>5. MatchAt(b, last, c.anchors)
      <3> HIDE DEF last
      <3> QED
        BY <2>4
    <2>6. d.start = last /\ d.action \in {"append", "rebase"}
      <3> HIDE DEF last
      <3> QED
        BY <2>1 DEF Decision
    <2> HIDE DEF last
    <2> QED
      BY <1>3, <1>5, <2>5, <2>6
  <1> QED
    BY <1>2, <1>4, <1>5

\* What a parse reads is whole records, from its start to its bound.
LEMMA BoundFits ==
    ASSUME NEW b, WellFormed(b), NEW start \in Nat, NEW end \in 0..Len(b)
    PROVE  /\ CompleteBound(b, start, end) \in Nat
           /\ Between(b, start, CompleteBound(b, start, end)) \subseteq Event
           /\ start <= end => CompleteBound(b, start, end) \in start..end
           /\ start >= end => CompleteBound(b, start, end) = start /\ Between(b, start, start) = {}
  <1> DEFINE ends == {j \in (start + 1)..end : IsEnd(b[j])}
             limit == CompleteBound(b, start, end)
  <1>1. Len(b) \in Nat /\ end \in Nat
    BY BytesOfRecords
  <1>2. ends = {} => limit = start
    BY DEF CompleteBound
  <1>3. ends # {} => limit \in ends
    <2> SUFFICES ASSUME ends # {} PROVE limit \in ends
      OBVIOUS
    <2>1. ends \subseteq Nat /\ \A j \in ends : j <= end
      BY <1>1
    <2>2. \E j \in ends : \A i \in ends : i <= j
      <3> HIDE DEF ends
      <3> QED
        BY <1>1, <2>1, HasLatest
    <2>3. limit = CHOOSE j \in ends : \A i \in ends : i <= j
      BY DEF CompleteBound
    <2> HIDE DEF ends, limit
    <2> QED
      BY <2>2, <2>3
  <1>4. limit = start \/ limit \in (start + 1)..end
    BY <1>2, <1>3
  <1>5. start >= end => limit = start /\ Between(b, start, start) = {}
    <2>1. (start + 1)..start = {}
      OBVIOUS
    <2>2. Between(b, start, start) = {}
      BY <2>1 DEF Between
    <2>3. start >= end => limit = start
      BY <1>1, <1>4
    <2> QED
      BY <2>2, <2>3
  <1>6. Between(b, start, limit) \subseteq Event
    <2>1. \A j \in (start + 1)..limit : j \in 1..Len(b)
      BY <1>1, <1>4
    <2>2. \A j \in (start + 1)..limit : b[j][1] \in Event
      BY <2>1, BytesOfRecords
    <2> HIDE DEF limit
    <2> QED
      BY <2>2 DEF Between
  <1>7. limit \in Nat
    BY <1>1, <1>4
  <1>8. start <= end => limit \in start..end
    BY <1>1, <1>4
  <1> QED
    BY <1>5, <1>6, <1>7, <1>8

\* From a start at a record's end, every record up to a bound is between them.
LEMMA WholeRecords ==
    ASSUME NEW b, WellFormed(b), NEW start \in Nat, NEW limit \in 0..Len(b), start <= limit,
           start = 0 \/ IsEnd(b[start]), NEW e
    PROVE  e \in Between(b, start, limit) <=> \E j \in (start + 1)..limit : IsEnd(b[j]) /\ b[j][1] = e
  <1>1. Len(b) \in Nat /\ limit \in Nat
    BY BytesOfRecords
  <1>2. ASSUME NEW j \in (start + 1)..limit, IsEnd(b[j]) PROVE j - Length(b[j][1]) >= start
    <2>1. j \in 1..Len(b) /\ j > start
      BY <1>1
    <2>2. b[j][2] = Length(b[j][1]) /\ b[j][2] \in {1, 2}
      BY <1>2, <2>1, BytesOfRecords DEF IsEnd
    <2>3. CASE b[j][2] = 1
      BY <1>1, <2>1, <2>2, <2>3
    <2>4. CASE b[j][2] = 2
      <3>1. j > 1 /\ b[j - 1] = <<b[j][1], 1>>
        BY <2>1, <2>4 DEF WellFormed
      <3>1a. b[j - 1][1] = b[j][1] /\ b[j - 1][2] = 1
        BY <3>1
      <3>2. ~IsEnd(b[j - 1])
        <4>1. Length(b[j - 1][1]) = 2
          BY <2>2, <2>4, <3>1a
        <4> QED
          BY <3>1a, <4>1 DEF IsEnd
      <3>3. j - 1 # start \/ start = 0
        BY <3>2
      <3> QED
        BY <1>1, <2>1, <2>2, <2>4, <3>1, <3>3
    <2> QED
      BY <2>2, <2>3, <2>4
  <1>3. Between(b, start, limit) = {b[i][1] : i \in {j \in (start + 1)..limit : IsEnd(b[j]) /\ j - Length(b[j][1]) >= start}}
    BY DEF Between
  <1> QED
    BY <1>2, <1>3

-----------------------------------------------------------------------------
(* Changes of a log.                                                       *)

\* A log changes by losing its first bytes, or by bytes that were ahead of it.
GrowsTo(b, nb, w, w2) ==
    /\ WellFormed(b) /\ WellFormed(nb) /\ w \in Nat /\ w2 \in Nat
    /\ \A i \in 1..Len(b) : b[i][1] <= w
    /\ \A x \in Ahead(nb, w2) : x \in Ahead(b, w)
    /\ \E cut \in Nat :
          /\ cut = 0 => Len(nb) >= Len(b)
          /\ \A j \in 1..Len(nb) : \/ j + cut \in 1..Len(b) /\ nb[j] = b[j + cut]
                                   \/ cut = 0 /\ j > Len(b) /\ nb[j] \in Ahead(b, w)

Newer(d, nd, w, w2, back2) ==
    /\ d \in OffsetLog /\ nd \in OffsetLog /\ GrowsTo(d.bytes, nd.bytes, w, w2)
    /\ nd.ver > d.ver \/ nd = d
    /\ nd.there => d.there \/ \A e \in Holds(nd.bytes) : e \in back2

LEMMA NoLogChange ==
    ASSUME NEW b, WellFormed(b), NEW w \in Nat, NEW w2 \in Nat, w <= w2, \A i \in 1..Len(b) : b[i][1] <= w
    PROVE  GrowsTo(b, b, w, w2)
  <1>1. \A x \in Ahead(b, w2) : x \in Ahead(b, w)
    <2> SUFFICES ASSUME NEW x \in Ahead(b, w2) PROVE x \in Ahead(b, w)
      OBVIOUS
    <2>1. x \in ByteOf /\ x[1] \in Nat
      BY Events DEF Ahead, ByteOf
    <2>2. x[1] > w2 => x[1] > w
      BY <2>1
    <2> QED
      BY <2>1, <2>2 DEF Ahead
  <1>2. Len(b) \in Nat
    BY BytesOfRecords
  <1>3. \A j \in 1..Len(b) : j + 0 = j
    BY <1>2
  <1>4. 0 \in Nat /\ Len(b) >= Len(b) /\ \A j \in 1..Len(b) : j + 0 \in 1..Len(b) /\ b[j] = b[j + 0]
    BY <1>2, <1>3
  <1> QED
    BY <1>1, <1>4 DEF GrowsTo

LEMMA OffsetKept ==
    ASSUME NEW d, NEW nd, NEW w, NEW w2, NEW back, NEW back2, back \subseteq back2, NEW over,
           Newer(d, nd, w, w2, back2), NEW n \in [Event -> Nat], \A x \in Ahead(d.bytes, w) : n[x[1]] = 0,
           NEW c \in OffsetCursor, OffsetFits(d, Ahead(d.bytes, w), c, Taken(n, back), Settled(n, over))
    PROVE  OffsetFits(nd, Ahead(nd.bytes, w2), c, Taken(n, back2), Settled(n, over))
  <1> DEFINE b == d.bytes
             nb == nd.bytes
  <1>1. /\ WellFormed(b) /\ WellFormed(nb)
        /\ \A x \in Ahead(nb, w2) : x \in Ahead(b, w)
        /\ d.ver \in Nat /\ nd.ver \in Nat /\ c.ver \in Nat /\ c.offset \in Nat
        /\ nd.ver > d.ver \/ nd = d
    BY DEF Newer, GrowsTo, OffsetLog, OffsetCursor
  <1>2. PICK cut \in Nat :
          \A j \in 1..Len(nb) : \/ j + cut \in 1..Len(b) /\ nb[j] = b[j + cut]
                                \/ cut = 0 /\ j > Len(b) /\ nb[j] \in Ahead(b, w)
    BY DEF Newer, GrowsTo
  <1>3. /\ 1 <= c.ver /\ c.ver <= d.ver
        /\ c.ver = d.ver /\ c.ino = d.ino => c.offset <= Len(b)
        /\ \A a \in c.anchors : \A x \in Ahead(b, w) : a < x[1]
    BY DEF OffsetFits
  <1>4. \A j \in 1..Len(b) : IsEnd(b[j]) =>
          /\ b[j][1] \in Taken(n, back) => j <= c.offset /\ (c.anchors = {} \/ UpTo(b[j][1], c.anchors))
          /\ UpTo(b[j][1], c.anchors) => b[j][1] \in Settled(n, over)
          /\ c.ver = d.ver /\ c.ino = d.ino /\ j <= c.offset => b[j][1] \in Settled(n, over)
    BY DEF OffsetFits
  <1>5. c.ver <= nd.ver
    BY <1>1, <1>3
  <1>6. c.ver = nd.ver => nd = d
    BY <1>1, <1>3
  <1>7. \A e : e \in Taken(n, back2) => e \in Taken(n, back)
    BY DEF Taken
  <1>8. ASSUME NEW j \in 1..Len(nb), IsEnd(nb[j])
        PROVE  /\ nb[j][1] \in Taken(n, back2) => j <= c.offset /\ (c.anchors = {} \/ UpTo(nb[j][1], c.anchors))
               /\ UpTo(nb[j][1], c.anchors) => nb[j][1] \in Settled(n, over)
    <2>1. j \in Nat /\ nb[j][1] \in Nat
      BY <1>1, BytesOfRecords
    <2>2. CASE j + cut \in 1..Len(b) /\ nb[j] = b[j + cut]
      <3>1. j + cut <= c.offset => j <= c.offset
        BY <1>1, <2>1
      <3> QED
        BY <1>4, <1>7, <1>8, <2>2, <3>1
    <2>3. CASE nb[j] \in Ahead(b, w)
      <3>1. n[nb[j][1]] = 0
        BY <2>3
      <3>2. nb[j][1] \notin Taken(n, back2)
        BY <3>1 DEF Taken
      <3>3. ~UpTo(nb[j][1], c.anchors)
        <4> SUFFICES ASSUME NEW a \in c.anchors, nb[j][1] <= a PROVE FALSE
          BY DEF UpTo
        <4>1. a < nb[j][1] /\ a \in Nat
          BY <1>3, <2>3, Events DEF OffsetCursor
        <4> QED
          BY <2>1, <4>1
      <3> QED
        BY <3>2, <3>3
    <2> QED
      BY <1>2, <2>2, <2>3
  <1>9. ASSUME NEW j \in 1..Len(nb), IsEnd(nb[j]), c.ver = nd.ver, c.ino = nd.ino, j <= c.offset
        PROVE  nb[j][1] \in Settled(n, over)
    BY <1>4, <1>6, <1>9
  <1>10. \A a \in c.anchors : \A x \in Ahead(nb, w2) : a < x[1]
    BY <1>1, <1>3
  <1>11. c.ver = nd.ver /\ c.ino = nd.ino => c.offset <= Len(nb)
    BY <1>3, <1>6
  <1> QED
    BY <1>3, <1>5, <1>8, <1>9, <1>10, <1>11 DEF OffsetFits

LEMMA UnreadKept ==
    ASSUME NEW d, NEW nd, NEW w, NEW w2, NEW back, NEW back2, back \subseteq back2,
           Newer(d, nd, w, w2, back2), NEW n \in [Event -> Nat], \A x \in Ahead(d.bytes, w) : n[x[1]] = 0,
           UnreadFits(d, Taken(n, back))
    PROVE  UnreadFits(nd, Taken(n, back2))
  <1> SUFFICES ASSUME nd.there, NEW e \in Holds(nd.bytes), e \in Taken(n, back2) PROVE FALSE
    BY DEF UnreadFits
  <1>1. WellFormed(d.bytes) /\ WellFormed(nd.bytes)
    BY DEF Newer, GrowsTo
  <1>2. e \in Taken(n, back) /\ n[e] > 0 /\ e \in Event
    BY DEF Taken
  <1>3. d.there
    BY DEF Newer, Taken
  <1>4. PICK j \in 1..Len(nd.bytes) : IsEnd(nd.bytes[j]) /\ nd.bytes[j][1] = e
    BY <1>1, HeldRecords
  <1>5. nd.bytes[j] \notin Ahead(d.bytes, w)
    BY <1>2, <1>4
  <1>6. \E i \in 1..Len(d.bytes) : nd.bytes[j] = d.bytes[i]
    BY <1>5 DEF Newer, GrowsTo
  <1>7. e \in Holds(d.bytes)
    BY <1>1, <1>4, <1>6, HeldRecords
  <1> QED
    BY <1>2, <1>3, <1>7 DEF UnreadFits

LEMMA SliceKept ==
    ASSUME NEW a \in OffsetReading, NEW d, NEW nd, NEW w, NEW w2, NEW back2, Newer(d, nd, w, w2, back2),
           SliceFits(a, d.bytes, Ahead(d.bytes, w))
    PROVE  SliceFits(a, nd.bytes, Ahead(nd.bytes, w2))
  <1> DEFINE b == d.bytes
             nb == nd.bytes
  <1>1. /\ WellFormed(b) /\ WellFormed(nb)
        /\ \A x \in Ahead(nb, w2) : x \in Ahead(b, w)
        /\ Len(b) \in Nat /\ Len(nb) \in Nat /\ a.start \in Nat /\ a.snap \in Nat
    BY BytesOfRecords DEF Newer, GrowsTo, OffsetReading
  <1>2. PICK cut \in Nat :
          /\ cut = 0 => Len(nb) >= Len(b)
          /\ \A j \in 1..Len(nb) : \/ j + cut \in 1..Len(b) /\ nb[j] = b[j + cut]
                                   \/ cut = 0 /\ j > Len(b) /\ nb[j] \in Ahead(b, w)
    BY DEF Newer, GrowsTo
  <1>3. ASSUME a.step \in {"parse", "verify"}, a.start < a.snap
        PROVE  /\ a.pre[1] \notin Ahead(nb, w2)
               /\ \A j \in 1..Len(nb) : nb[j] = a.pre[1] => j <= a.start + 1
               /\ SameSlice(a, nb) => cut = 0 /\ SameSlice(a, b) /\ a.snap <= Len(b) /\ a.snap <= Len(nb)
    <2>1. /\ a.pre[1] \notin Ahead(b, w)
          /\ \A j \in 1..Len(b) : b[j] = a.pre[1] => j <= a.start + 1
          /\ SameSlice(a, b) => a.snap <= Len(b)
      BY <1>3 DEF SliceFits
    <2>2. ASSUME NEW j \in 1..Len(nb), nb[j] = a.pre[1]
          PROVE  j + cut \in 1..Len(b) /\ b[j + cut] = a.pre[1] /\ j + cut <= a.start + 1
      BY <1>2, <2>1, <2>2
    <2>3. \A j \in 1..Len(nb) : nb[j] = a.pre[1] => j <= a.start + 1
      BY <1>1, <2>2
    <2>4. ASSUME SameSlice(a, nb) PROVE cut = 0 /\ SameSlice(a, b) /\ a.snap <= Len(b) /\ a.snap <= Len(nb)
      <3>1. a.start + 1 \in 1..Len(nb) /\ nb[a.start + 1] = a.pre[1]
        BY <2>4 DEF SameSlice
      <3>2. a.start + 1 + cut \in 1..Len(b) /\ b[a.start + 1 + cut] = a.pre[1] /\ a.start + 1 + cut <= a.start + 1
        BY <2>2, <3>1
      <3>3. cut = 0
        BY <1>1, <3>2
      <3>4. SameSlice(a, b)
        BY <1>1, <3>2, <3>3 DEF SameSlice
      <3> QED
        BY <1>1, <1>2, <2>1, <3>3, <3>4
    <2> QED
      BY <1>1, <2>1, <2>3, <2>4
  <1>4. ASSUME a.step = "verify", a.start < a.snap, SameSlice(a, nb)
        PROVE  a.bound \in a.start..a.snap /\ a.got = Between(nb, a.start, a.bound)
    <2>1. a.bound \in a.start..a.snap /\ a.got = Between(b, a.start, a.bound)
      BY <1>3, <1>4 DEF SliceFits
    <2>2. \A j \in (a.start + 1)..a.bound : j \in 1..Len(b) /\ j \in 1..Len(nb) /\ cut = 0
      BY <1>1, <1>3, <1>4, <2>1
    <2>3. \A j \in (a.start + 1)..a.bound : nb[j] = b[j]
      <3> SUFFICES ASSUME NEW j \in (a.start + 1)..a.bound PROVE nb[j] = b[j]
        OBVIOUS
      <3>1. j + cut = j
        BY <2>2
      <3> QED
        BY <1>1, <1>2, <2>2, <3>1
    <2>4. Between(nb, a.start, a.bound) = Between(b, a.start, a.bound)
      BY <2>3 DEF Between
    <2> QED
      BY <2>1, <2>4
  <1> QED
    BY <1>3, <1>4 DEF SliceFits

LEMMA SuffixGrows ==
    ASSUME NEW b, WellFormed(b), NEW w \in Nat, \A i \in 1..Len(b) : b[i][1] <= w,
           NEW n \in 1..Len(b), IsEnd(b[n])
    PROVE  LET nb == SubSeq(b, n + 1, Len(b)) IN
           GrowsTo(b, nb, w, w) /\ \A j \in 1..Len(nb) : \E i \in 1..Len(b) : nb[j] = b[i]
  <1> DEFINE nb == SubSeq(b, n + 1, Len(b))
  <1>1. b \in Seq(ByteOf) /\ Len(b) \in Nat /\ n \in Nat /\ n <= Len(b)
    BY BytesOfRecords DEF WellFormed
  <1>2. nb \in Seq(ByteOf) /\ Len(nb) = Len(b) - n
    BY <1>1
  <1>3. \A j \in 1..Len(nb) : j + n \in 1..Len(b) /\ nb[j] = b[j + n]
    <2> SUFFICES ASSUME NEW j \in 1..(Len(b) - n) PROVE j + n \in 1..Len(b) /\ nb[j] = b[j + n]
      BY <1>2
    <2>1. j + n \in 1..Len(b) /\ n + 1 + j - 1 = j + n
      BY <1>1
    <2>2. nb[j] = b[n + 1 + j - 1]
      BY <1>1
    <2> QED
      BY <2>1, <2>2
  <1> HIDE DEF nb
  <1>4. \A j \in 1..Len(nb) : /\ nb[j][2] <= Length(nb[j][1])
                              /\ nb[j][2] = 2 => j > 1 /\ nb[j - 1] = <<nb[j][1], 1>>
    <2> SUFFICES ASSUME NEW j \in 1..Len(nb)
                 PROVE  /\ nb[j][2] <= Length(nb[j][1])
                        /\ nb[j][2] = 2 => j > 1 /\ nb[j - 1] = <<nb[j][1], 1>>
      OBVIOUS
    <2>1. j + n \in 1..Len(b) /\ nb[j] = b[j + n] /\ j \in Nat
      BY <1>1, <1>2, <1>3
    <2>2. nb[j][2] <= Length(nb[j][1])
      BY <2>1 DEF WellFormed
    <2>3. ASSUME nb[j][2] = 2 PROVE j > 1 /\ nb[j - 1] = <<nb[j][1], 1>>
      <3>1. b[j + n - 1] = <<b[j + n][1], 1>>
        BY <2>1, <2>3 DEF WellFormed
      <3>2. CASE j = 1
        <4>1. b[n] = <<b[j + n][1], 1>>
          BY <1>1, <3>1, <3>2
        <4>2. b[n][1] = b[j + n][1] /\ b[n][2] = 1
          BY <4>1
        <4>3. Length(b[n][1]) = 1
          BY <4>2 DEF IsEnd
        <4>4. Length(b[j + n][1]) = 1
          BY <4>2, <4>3
        <4> QED
          BY <2>1, <2>2, <2>3, <4>4
      <3>3. CASE j > 1
        <4>1. j - 1 \in 1..Len(nb) /\ (j - 1) + n = j + n - 1
          BY <1>1, <1>2, <2>1, <3>3
        <4>2. nb[j - 1] = b[(j - 1) + n]
          BY <1>3, <4>1
        <4> QED
          BY <2>1, <3>1, <3>3, <4>1, <4>2
      <3> QED
        BY <2>1, <3>2, <3>3
    <2> QED
      BY <2>2, <2>3
  <1>5. \A i, j \in 1..Len(nb) :
           i < j => nb[i][1] < nb[j][1] \/ (nb[i][1] = nb[j][1] /\ nb[j][2] - nb[i][2] = j - i)
    <2> SUFFICES ASSUME NEW i \in 1..Len(nb), NEW j \in 1..Len(nb), i < j
                 PROVE  nb[i][1] < nb[j][1] \/ (nb[i][1] = nb[j][1] /\ nb[j][2] - nb[i][2] = j - i)
      OBVIOUS
    <2>1. /\ i + n \in 1..Len(b) /\ j + n \in 1..Len(b) /\ i + n < j + n /\ (j + n) - (i + n) = j - i
          /\ nb[i] = b[i + n] /\ nb[j] = b[j + n]
      BY <1>1, <1>2, <1>3
    <2> QED
      BY <2>1 DEF WellFormed
  <1>6. WellFormed(nb)
    BY <1>2, <1>4, <1>5 DEF WellFormed
  <1>7. \A x \in Ahead(nb, w) : x \in Ahead(b, w)
    <2>1. ASSUME nb # <<>> PROVE nb[Len(nb)] = b[Len(b)] /\ b # <<>>
      <3>1. Len(nb) # 0
        BY <1>2, <2>1
      <3>2. Len(nb) \in 1..Len(nb) /\ Len(nb) + n = Len(b)
        BY <1>1, <1>2, <3>1
      <3>3. b # <<>>
        BY <1>1
      <3> QED
        BY <1>3, <3>2, <3>3
    <2> QED
      BY <2>1 DEF Ahead
  <1>8. GrowsTo(b, nb, w, w)
    <2>1. n \in Nat /\ n # 0
      BY <1>1
    <2> QED
      BY <1>3, <1>6, <1>7, <2>1 DEF GrowsTo
  <1> QED
    BY <1>3, <1>8 DEF nb

LEMMA ByteAdded ==
    ASSUME NEW b, WellFormed(b), NEW x \in ByteOf, NEW nb \in Seq(ByteOf), Len(nb) = Len(b) + 1,
           \A i \in 1..Len(b) : nb[i] = b[i], nb[Len(b) + 1] = x, x[2] <= Length(x[1]),
           \/ x[2] = 1 /\ \A i \in 1..Len(b) : b[i][1] < x[1]
           \/ x[2] = 2 /\ Len(b) > 0 /\ b[Len(b)] = <<x[1], 1>>
    PROVE  WellFormed(nb)
  <1>1. Len(b) \in Nat
    BY BytesOfRecords
  <1>2. ASSUME NEW j \in 1..Len(nb)
        PROVE  /\ nb[j][2] <= Length(nb[j][1])
               /\ nb[j][2] = 2 => j > 1 /\ nb[j - 1] = <<nb[j][1], 1>>
    <2>1. CASE j \in 1..Len(b)
      <3>1. /\ b[j][2] <= Length(b[j][1])
            /\ b[j][2] = 2 => j > 1 /\ b[j - 1] = <<b[j][1], 1>>
        BY <2>1 DEF WellFormed
      <3>2. j > 1 => j - 1 \in 1..Len(b)
        BY <1>1, <2>1
      <3> QED
        BY <2>1, <3>1, <3>2
    <2>2. CASE j = Len(b) + 1
      <3>1. nb[j] = x
        BY <2>2
      <3>2. ASSUME x[2] = 2 PROVE j > 1 /\ nb[j - 1] = <<x[1], 1>>
        <4>1. Len(b) > 0 /\ b[Len(b)] = <<x[1], 1>>
          BY <3>2
        <4>2. Len(b) \in 1..Len(b) /\ j - 1 = Len(b) /\ j > 1
          BY <1>1, <2>2, <4>1
        <4> QED
          BY <4>1, <4>2
      <3> QED
        BY <3>1, <3>2
    <2> QED
      BY <1>1, <2>1, <2>2
  <1>3. ASSUME NEW i \in 1..Len(nb), NEW j \in 1..Len(nb), i < j
        PROVE  nb[i][1] < nb[j][1] \/ (nb[i][1] = nb[j][1] /\ nb[j][2] - nb[i][2] = j - i)
    <2>1. i \in 1..Len(b) /\ nb[i] = b[i]
      BY <1>1, <1>3
    <2>2. CASE j \in 1..Len(b)
      <3>1. nb[j] = b[j]
        BY <2>2
      <3> QED
        BY <1>3, <2>1, <2>2, <3>1 DEF WellFormed
    <2>3. CASE j = Len(b) + 1
      <3>1. nb[j] = x
        BY <2>3
      <3>2. CASE \A k \in 1..Len(b) : b[k][1] < x[1]
        BY <2>1, <3>1, <3>2
      <3>3. CASE x[2] = 2 /\ Len(b) > 0 /\ b[Len(b)] = <<x[1], 1>>
        <4>1. b[Len(b)][1] = x[1] /\ b[Len(b)][2] = 1 /\ Len(b) \in 1..Len(b)
          BY <1>1, <3>3
        <4>2. CASE i = Len(b)
          BY <1>1, <2>1, <2>3, <3>1, <3>3, <4>1, <4>2
        <4>3. CASE i < Len(b)
          <5>1. b[i][1] < b[Len(b)][1] \/ (b[i][1] = b[Len(b)][1] /\ b[Len(b)][2] - b[i][2] = Len(b) - i)
            BY <2>1, <4>1, <4>3 DEF WellFormed
          <5>2. b[i][2] \in {1, 2}
            BY <2>1, BytesOfRecords
          <5> QED
            BY <1>1, <2>1, <3>1, <4>1, <4>3, <5>1, <5>2
        <4> QED
          BY <1>1, <2>1, <4>2, <4>3
      <3> QED
        BY <3>2, <3>3
    <2> QED
      BY <1>1, <2>2, <2>3
  <1> QED
    BY <1>2, <1>3 DEF WellFormed

\* One or two bytes of the next record.
LEMMA RecordGrows ==
    ASSUME NEW b, WellFormed(b), NEW w \in Nat, w + 1 \in Event, \A i \in 1..Len(b) : b[i][1] <= w,
           b # <<>> => IsEnd(b[Len(b)]), NEW k \in 1..Length(w + 1)
    PROVE  LET nb == b \o SubSeq(Record(w + 1), 1, k) IN
           /\ GrowsTo(b, nb, w, w + 1)
           /\ \A j \in 1..Len(nb) : (\E i \in 1..Len(b) : nb[j] = b[i]) \/ nb[j][1] = w + 1
  <1> DEFINE s == SubSeq(Record(w + 1), 1, k)
             nb == b \o s
             first == <<w + 1, 1>>
             second == <<w + 1, 2>>
             short == Append(b, first)
  <1>1. b \in Seq(ByteOf) /\ Len(b) \in Nat
    BY BytesOfRecords DEF WellFormed
  <1>2. Length(w + 1) \in {1, 2} /\ k \in {1, 2} /\ k <= Length(w + 1)
    BY Lengths
  <1>3. first \in ByteOf /\ second \in ByteOf
    BY DEF ByteOf
  <1>4. Record(w + 1) \in Seq(ByteOf) /\ Len(Record(w + 1)) = Length(w + 1)
        /\ \A i \in 1..Length(w + 1) : Record(w + 1)[i] = <<w + 1, i>>
    BY BytesOfRecord
  <1>5. s \in Seq(ByteOf) /\ Len(s) = k /\ \A i \in 1..k : s[i] = <<w + 1, i>>
    <2>1. s \in Seq(ByteOf) /\ Len(s) = k
      BY <1>2, <1>4
    <2>2. \A i \in 1..k : s[i] = Record(w + 1)[i] /\ i \in 1..Length(w + 1)
      BY <1>2, <1>4
    <2> QED
      BY <1>4, <2>1, <2>2
  <1> HIDE DEF s
  <1>6. nb \in Seq(ByteOf) /\ Len(nb) = Len(b) + k
    BY <1>1, <1>2, <1>5
  <1>7. \A i \in 1..Len(b) : nb[i] = b[i]
    BY <1>1, <1>5
  <1>8. nb[Len(b) + 1] = first /\ (k = 2 => nb[Len(b) + 2] = second)
    BY <1>1, <1>2, <1>5
  <1>9. /\ short \in Seq(ByteOf) /\ Len(short) = Len(b) + 1
        /\ (\A i \in 1..Len(b) : short[i] = b[i]) /\ short[Len(b) + 1] = first
    BY <1>1, <1>3
  <1>10. first[1] = w + 1 /\ first[2] = 1 /\ second[1] = w + 1 /\ second[2] = 2
    OBVIOUS
  <1>11. \A i \in 1..Len(b) : b[i][1] < w + 1
    BY BytesOfRecords
  <1> HIDE DEF nb, short, first, second
  <1>12. WellFormed(short)
    BY <1>2, <1>3, <1>9, <1>10, <1>11, ByteAdded
  <1>13. WellFormed(nb)
    <2>1. CASE k = 1
      BY <1>2, <1>3, <1>6, <1>7, <1>8, <1>10, <1>11, <2>1, ByteAdded
    <2>2. CASE k = 2
      <3>1. second[2] <= Length(second[1]) /\ Len(nb) = Len(short) + 1
        BY <1>1, <1>2, <1>6, <1>9, <1>10, <2>2
      <3>2. \A i \in 1..Len(short) : nb[i] = short[i]
        BY <1>1, <1>7, <1>8, <1>9
      <3>3. nb[Len(short) + 1] = second
        BY <1>1, <1>8, <1>9, <2>2
      <3>4. short[Len(short)] = <<second[1], 1>> /\ Len(short) > 0
        BY <1>1, <1>9, <1>10 DEF first
      <3> QED
        BY <1>3, <1>6, <1>10, <1>12, <3>1, <3>2, <3>3, <3>4, ByteAdded
    <2> QED
      BY <1>2, <2>1, <2>2
  <1>14. ASSUME NEW j \in 1..Len(nb), j > Len(b) PROVE nb[j] \in Ahead(b, w) /\ nb[j][1] = w + 1
    <2>1. nb[j] = first \/ nb[j] = second
      BY <1>1, <1>2, <1>6, <1>8, <1>14
    <2>2. nb[j] \in ByteOf /\ nb[j][1] = w + 1
      BY <1>3, <1>10, <2>1
    <2> QED
      BY <2>2 DEF Ahead
  <1>15. nb # <<>> /\ nb[Len(nb)][1] = w + 1
    <2>1. Len(nb) \in 1..Len(nb) /\ Len(nb) > Len(b)
      BY <1>1, <1>2, <1>6
    <2>2. nb # <<>>
      BY <1>6, <2>1
    <2> QED
      BY <1>14, <2>1, <2>2
  <1>16. \A x \in Ahead(nb, w + 1) : x \in Ahead(b, w)
    <2> SUFFICES ASSUME NEW x \in Ahead(nb, w + 1) PROVE x \in Ahead(b, w)
      OBVIOUS
    <2>1. x \in ByteOf /\ x[1] \in Nat
      BY Events DEF Ahead, ByteOf
    <2>2. x[1] > w + 1 \/ x[1] = w + 1
      BY <1>15, <2>1 DEF Ahead
    <2>3. x[1] > w
      BY <2>1, <2>2
    <2> QED
      BY <2>1, <2>3 DEF Ahead
  <1>17. \A j \in 1..Len(nb) : \/ j + 0 \in 1..Len(b) /\ nb[j] = b[j + 0]
                               \/ j > Len(b) /\ nb[j] \in Ahead(b, w)
    <2> SUFFICES ASSUME NEW j \in 1..Len(nb) PROVE (j \in 1..Len(b) /\ nb[j] = b[j]) \/ (j > Len(b) /\ nb[j] \in Ahead(b, w))
      BY <1>1, <1>6
    <2> QED
      BY <1>1, <1>6, <1>7, <1>14
  <1>18. GrowsTo(b, nb, w, w + 1)
    <2>1. Len(nb) >= Len(b) /\ w + 1 \in Nat
      BY <1>1, <1>2, <1>6
    <2> QED
      BY <1>13, <1>16, <1>17, <2>1 DEF GrowsTo
  <1>19. \A j \in 1..Len(nb) : (\E i \in 1..Len(b) : nb[j] = b[i]) \/ nb[j][1] = w + 1
    BY <1>1, <1>6, <1>7, <1>14
  <1> QED
    BY <1>18, <1>19 DEF nb, s

\* The newline of a record that was written in part.
LEMMA FinishGrows ==
    ASSUME NEW b, WellFormed(b), b # <<>>, NEW w \in Nat, \A i \in 1..Len(b) : b[i][1] <= w,
           ~IsEnd(b[Len(b)])
    PROVE  LET nb == b \o <<<<b[Len(b)][1], b[Len(b)][2] + 1>>>> IN
           GrowsTo(b, nb, w, w) /\ \A j \in 1..Len(nb) : \E i \in 1..Len(b) : nb[j][1] = b[i][1]
  <1> DEFINE last == b[Len(b)]
             x == <<last[1], last[2] + 1>>
             nb == b \o <<x>>
  <1>1. b \in Seq(ByteOf) /\ Len(b) \in Nat /\ Len(b) # 0
    BY BytesOfRecords DEF WellFormed
  <1>2. Len(b) \in 1..Len(b)
    BY <1>1
  <1>3. last \in ByteOf /\ last[1] \in Event /\ last[2] \in {1, 2} /\ last[2] <= Length(last[1])
    BY <1>2, BytesOfRecords DEF WellFormed
  <1>4. Length(last[1]) \in {1, 2} /\ last[2] # Length(last[1])
    BY <1>3, Lengths DEF IsEnd
  <1>5. last[2] = 1 /\ Length(last[1]) = 2
    BY <1>3, <1>4
  <1>6. x \in ByteOf /\ x[1] = last[1] /\ x[2] = 2 /\ last = <<x[1], 1>> /\ x = <<last[1], 2>>
    BY <1>3, <1>5 DEF ByteOf
  <1>7. nb \in Seq(ByteOf) /\ Len(nb) = Len(b) + 1
    BY <1>1, <1>6
  <1>8. (\A i \in 1..Len(b) : nb[i] = b[i]) /\ nb[Len(b) + 1] = x
    BY <1>1
  <1> HIDE DEF nb, x
  <1>9. WellFormed(nb)
    <2>1. x[2] <= Length(x[1]) /\ Len(b) > 0
      BY <1>1, <1>5, <1>6
    <2> QED
      BY <1>6, <1>7, <1>8, <2>1, ByteAdded
  <1>10. IsEnd(x)
    BY <1>5, <1>6 DEF IsEnd
  <1>11. \A y \in Ahead(nb, w) : y \in Ahead(b, w)
    BY <1>7, <1>8, <1>10 DEF Ahead
  <1>12. x \in Ahead(b, w)
    BY <1>6 DEF Ahead
  <1>13. \A j \in 1..Len(nb) : \/ j + 0 \in 1..Len(b) /\ nb[j] = b[j + 0]
                               \/ j > Len(b) /\ nb[j] \in Ahead(b, w)
    <2> SUFFICES ASSUME NEW j \in 1..Len(nb) PROVE (j \in 1..Len(b) /\ nb[j] = b[j]) \/ (j > Len(b) /\ nb[j] \in Ahead(b, w))
      BY <1>1, <1>7
    <2> QED
      BY <1>1, <1>7, <1>8, <1>12
  <1>14. GrowsTo(b, nb, w, w)
    <2>1. Len(nb) >= Len(b)
      BY <1>1, <1>7
    <2> QED
      BY <1>9, <1>11, <1>13, <2>1 DEF GrowsTo
  <1>15. \A j \in 1..Len(nb) : \E i \in 1..Len(b) : nb[j][1] = b[i][1]
    <2> SUFFICES ASSUME NEW j \in 1..Len(nb) PROVE \E i \in 1..Len(b) : nb[j][1] = b[i][1]
      OBVIOUS
    <2>1. CASE j \in 1..Len(b)
      BY <1>8, <2>1
    <2>2. CASE j = Len(b) + 1
      BY <1>2, <1>6, <1>8, <2>2
    <2> QED
      BY <1>1, <1>7, <2>1, <2>2
  <1> QED
    BY <1>14, <1>15 DEF nb, x

LEMMA AllOffsetsKept ==
    ASSUME NEW logs, NEW nlogs, NEW w, NEW w2, NEW back, NEW back2, back \subseteq back2, NEW over,
           \A f \in File : Newer(logs[f], nlogs[f], w, w2, back2),
           NEW cs \in [File -> OffsetCursor], NEW n \in [Event -> Nat], NEW paths,
           OffsetsFitIn(logs, w, back, over, cs, n, paths)
    PROVE  OffsetsFitIn(nlogs, w2, back2, over, cs, n, paths)
  <1>1. ASSUME NEW f \in File PROVE \A x \in Ahead(nlogs[f].bytes, w2) : x \in Ahead(logs[f].bytes, w)
    BY DEF Newer, GrowsTo
  <1>2. \A f \in File : \A x \in Ahead(logs[f].bytes, w) : n[x[1]] = 0
    BY DEF OffsetsFitIn
  <1>3. \A e \in Event : n[e] > 1 => e \in back2
    BY DEF OffsetsFitIn
  <1>4. ASSUME NEW f \in File
        PROVE  IF cs[f] = NoJsonlCursor THEN f \in paths \/ UnreadFits(nlogs[f], Taken(n, back2))
               ELSE OffsetFits(nlogs[f], Ahead(nlogs[f].bytes, w2), cs[f], Taken(n, back2), Settled(n, over))
    <2>1. Newer(logs[f], nlogs[f], w, w2, back2) /\ cs[f] \in OffsetCursor
      OBVIOUS
    <2>2. CASE cs[f] = NoJsonlCursor
      <3>1. f \in paths \/ UnreadFits(logs[f], Taken(n, back))
        BY <2>2 DEF OffsetsFitIn
      <3>2. UnreadFits(logs[f], Taken(n, back)) => UnreadFits(nlogs[f], Taken(n, back2))
        BY <1>2, <2>1, UnreadKept
      <3> QED
        BY <2>2, <3>1, <3>2
    <2>3. CASE cs[f] # NoJsonlCursor
      <3>1. OffsetFits(logs[f], Ahead(logs[f].bytes, w), cs[f], Taken(n, back), Settled(n, over))
        BY <2>3 DEF OffsetsFitIn
      <3>2. \A x \in Ahead(logs[f].bytes, w) : n[x[1]] = 0
        BY <1>2
      <3>3. OffsetFits(nlogs[f], Ahead(nlogs[f].bytes, w2), cs[f], Taken(n, back2), Settled(n, over))
        BY <2>1, <3>1, <3>2, OffsetKept
      <3> QED
        BY <2>3, <3>3
    <2> QED
      BY <2>2, <2>3
  <1>5. \A f \in File : \A x \in Ahead(nlogs[f].bytes, w2) : n[x[1]] = 0
    BY <1>1, <1>2
  <1> QED
    BY <1>3, <1>4, <1>5 DEF OffsetsFitIn

LEMMA ReadsKept ==
    ASSUME NEW a \in OffsetReading, NEW d, NEW nd, NEW w, NEW w2, NEW back, NEW back2, back \subseteq back2, NEW over,
           Newer(d, nd, w, w2, back2), NEW n \in [Event -> Nat], \A x \in Ahead(d.bytes, w) : n[x[1]] = 0,
           ReadsIn(a, d, w, Taken(n, back), Settled(n, over))
    PROVE  ReadsIn(a, nd, w2, Taken(n, back2), Settled(n, over))
  <1>1. a.step # "none" /\ 1 <= a.ver /\ a.ver <= nd.ver
    BY DEF ReadsIn, Newer, OffsetLog, OffsetReading
  <1>2. SliceFits(a, nd.bytes, Ahead(nd.bytes, w2))
    BY SliceKept DEF ReadsIn
  <1>3. CASE a.action = "new"
    <2>1. UnreadFits(nd, Taken(n, back2))
      BY <1>3, UnreadKept DEF ReadsIn
    <2> QED
      BY <1>1, <1>2, <1>3, <2>1 DEF ReadsIn
  <1>4. CASE a.action # "new"
    <2>1. a.opts \in OffsetCursor /\ OffsetFits(d, Ahead(d.bytes, w), a.opts, Taken(n, back), Settled(n, over))
      BY <1>4 DEF ReadsIn, OffsetReading
    <2>2. OffsetFits(nd, Ahead(nd.bytes, w2), a.opts, Taken(n, back2), Settled(n, over))
      BY <2>1, OffsetKept
    <2> QED
      BY <1>1, <1>2, <1>4, <2>2 DEF ReadsIn
  <1> QED
    BY <1>3, <1>4

LEMMA JsonlParts ==
    ASSUME JsonlTypeOK
    PROVE  /\ disk \in [File -> OffsetLog] /\ written \in Nat /\ cursors \in [File -> OffsetCursor]
           /\ mem \in [File -> OffsetCursor] /\ counted \in [Event -> Nat] /\ JsonlRows \in [Event -> Nat]
           /\ at \in OffsetReading /\ at.opts \in OffsetCursor /\ at.start \in Nat /\ at.snap \in Nat
           /\ at.ver \in Nat /\ at.ino \in Nat /\ at.pre \in Seq(ByteOf) /\ at.got \subseteq Event
           /\ at.bound \in Nat
           /\ \A f \in File : disk[f].ver \in Nat /\ disk[f].ino \in Nat /\ disk[f].there \in BOOLEAN
                              /\ disk[f].bytes \in Seq(ByteOf)
  <1>1. JsonlRows \in [Event -> Nat]
    BY DEF JsonlRows, JsonlTypeOK
  <1>2. disk \in [File -> OffsetLog] /\ written \in Nat /\ cursors \in [File -> OffsetCursor]
        /\ mem \in [File -> OffsetCursor] /\ counted \in [Event -> Nat] /\ at \in OffsetReading
    BY DEF JsonlTypeOK
  <1>3. at.opts \in OffsetCursor /\ at.start \in Nat /\ at.snap \in Nat /\ at.ver \in Nat /\ at.ino \in Nat
        /\ at.pre \in Seq(ByteOf) /\ at.got \subseteq Event /\ at.bound \in Nat
    BY <1>2 DEF OffsetReading
  <1>4. \A f \in File : disk[f].ver \in Nat /\ disk[f].ino \in Nat /\ disk[f].there \in BOOLEAN
                        /\ disk[f].bytes \in Seq(ByteOf)
    BY <1>2 DEF OffsetLog
  <1> QED
    BY <1>1, <1>2, <1>3, <1>4

\* A log changes under whatever the sync is doing.
LEMMA LogChange ==
    ASSUME JsonlFits, NEW f \in File, NEW nb, NEW inode \in Nat, NEW there \in BOOLEAN,
           Change(f, there, inode, nb),
           GrowsTo(disk[f].bytes, nb, written, written'), written' \in Nat, written <= written',
           \A j \in 1..Len(nb) : (\E i \in 1..Len(disk[f].bytes) : nb[j][1] = disk[f].bytes[i][1])
                                 \/ (nb[j][1] = written' /\ written' > written),
           returned \subseteq returned', returned' \subseteq Event,
           there => disk[f].there \/ \A e \in Holds(nb) : e \in returned'
    PROVE  JsonlFits'
  <1> DEFINE nd == [there |-> there, ino |-> inode, ver |-> disk[f].ver + 1, bytes |-> nb]
  <1>1. /\ JsonlTypeOK /\ BytesFit
        /\ disk[f] \in OffsetLog /\ disk[f].ver \in Nat /\ disk[f].bytes \in Seq(ByteOf) /\ written \in Nat
    BY JsonlParts DEF JsonlFits
  <1>2. disk' = [disk EXCEPT ![f] = nd] /\ UNCHANGED <<stored, syncVars, passedOver>>
    BY DEF Change
  <1>3. nd \in OffsetLog /\ nd.bytes = nb /\ nd.ver = disk[f].ver + 1 /\ nd.there = there
    BY <1>1 DEF OffsetLog, GrowsTo, WellFormed
  <1> HIDE DEF nd
  <1>4. disk' \in [File -> OffsetLog] /\ disk'[f] = nd /\ \A g \in File \ {f} : disk'[g] = disk[g]
    BY <1>1, <1>2, <1>3 DEF JsonlTypeOK
  <1>5. /\ cursors' = cursors /\ known' = known /\ counted' = counted /\ pc' = pc /\ full' = full /\ mem' = mem
        /\ todo' = todo /\ failed' = failed /\ delta' = delta /\ at' = at /\ passedOver' = passedOver
    BY <1>2 DEF stored, syncVars
  <1>6. JsonlTypeOK'
    BY <1>1, <1>4, <1>5 DEF JsonlTypeOK
  <1>7. \A g \in File : WellFormed(disk[g].bytes) /\ disk[g].ver > 0 /\ \A i \in 1..Len(disk[g].bytes) : disk[g].bytes[i][1] <= written
    BY <1>1 DEF BytesFit
  <1>8. ASSUME NEW g \in File PROVE Newer(disk[g], disk'[g], written, written', returned')
    <2>1. CASE g = f
      <3>1. nd.ver > disk[f].ver
        BY <1>1, <1>3
      <3> QED
        BY <1>1, <1>3, <1>4, <2>1, <3>1 DEF Newer
    <2>2. CASE g # f
      <3>1. GrowsTo(disk[g].bytes, disk[g].bytes, written, written')
        BY <1>1, <1>7, NoLogChange
      <3>2. disk[g] \in OffsetLog /\ disk'[g] = disk[g]
        BY <1>1, <1>4, <2>2, JsonlParts
      <3> QED
        BY <3>1, <3>2 DEF Newer
    <2> QED
      BY <2>1, <2>2
  <1>9. BytesFit'
    <2>1. ASSUME NEW g \in File
          PROVE  /\ WellFormed(disk'[g].bytes) /\ disk'[g].ver > 0
                 /\ \A i \in 1..Len(disk'[g].bytes) : disk'[g].bytes[i][1] <= written'
      <3>1. CASE g = f
        <4>1. WellFormed(nb) /\ nd.ver > 0
          BY <1>1, <1>3 DEF GrowsTo
        <4>2. \A i \in 1..Len(nb) : nb[i][1] <= written'
          <5> SUFFICES ASSUME NEW j \in 1..Len(nb) PROVE nb[j][1] <= written'
            OBVIOUS
          <5>1. nb[j][1] \in Nat
            BY <4>1, BytesOfRecords
          <5>2. \A i \in 1..Len(disk[f].bytes) : disk[f].bytes[i][1] \in Nat /\ disk[f].bytes[i][1] <= written
            BY <1>7, BytesOfRecords
          <5>3. (\E i \in 1..Len(disk[f].bytes) : nb[j][1] = disk[f].bytes[i][1]) \/ nb[j][1] = written'
            OBVIOUS
          <5>4. ASSUME NEW i \in 1..Len(disk[f].bytes), nb[j][1] = disk[f].bytes[i][1] PROVE nb[j][1] <= written'
            <6>1. disk[f].bytes[i][1] \in Nat /\ disk[f].bytes[i][1] <= written /\ written \in Nat
              BY <1>1, <5>2
            <6>2. disk[f].bytes[i][1] <= written'
              BY <6>1
            <6> QED
              BY <5>4, <6>2
          <5> QED
            BY <5>1, <5>3, <5>4
        <4> QED
          BY <1>3, <1>4, <3>1, <4>1, <4>2
      <3>2. CASE g # f
        <4>1. disk'[g] = disk[g] /\ \A i \in 1..Len(disk[g].bytes) : disk[g].bytes[i][1] \in Nat
          BY <1>4, <1>7, <3>2, BytesOfRecords
        <4>2. \A i \in 1..Len(disk[g].bytes) : disk[g].bytes[i][1] <= written'
          BY <1>1, <1>7, <4>1
        <4> QED
          BY <1>7, <4>1, <4>2
      <3> QED
        BY <3>1, <3>2
    <2>2. \A g, h \in File : \A i \in 1..Len(disk[g].bytes), j \in 1..Len(disk[h].bytes) :
              disk[g].bytes[i][1] = disk[h].bytes[j][1] => g = h
      BY <1>1 DEF BytesFit
    <2>3. ASSUME NEW g \in File \ {f}, NEW i \in 1..Len(disk[g].bytes), NEW j \in 1..Len(nb), disk[g].bytes[i][1] = nb[j][1]
          PROVE  FALSE
      <3>1. disk[g].bytes[i][1] \in Nat /\ disk[g].bytes[i][1] <= written
        BY <1>7, BytesOfRecords
      <3>2. nb[j][1] # written' \/ ~(written' > written)
        BY <1>1, <2>3, <3>1
      <3>2a. \E k \in 1..Len(disk[f].bytes) : nb[j][1] = disk[f].bytes[k][1]
        BY <3>2
      <3> QED
        BY <2>2, <2>3, <3>2a
    <2>4. ASSUME NEW g \in File, NEW h \in File, NEW i \in 1..Len(disk'[g].bytes), NEW j \in 1..Len(disk'[h].bytes),
                 disk'[g].bytes[i][1] = disk'[h].bytes[j][1]
          PROVE  g = h
      <3>1. CASE g # f /\ h # f
        BY <1>4, <2>2, <2>4, <3>1
      <3>2. CASE g = f /\ h # f
        BY <1>3, <1>4, <2>3, <2>4, <3>2
      <3>3. CASE g # f /\ h = f
        BY <1>3, <1>4, <2>3, <2>4, <3>3
      <3> QED
        BY <3>1, <3>2, <3>3
    <2> QED
      BY <2>1, <2>4 DEF BytesFit
  <1>10. ASSUME NEW cs \in [File -> OffsetCursor], NEW n \in [Event -> Nat], NEW paths,
                OffsetsFitIn(disk, written, returned, passedOver, cs, n, paths)
         PROVE  OffsetsFitIn(disk', written', returned', passedOver, cs, n, paths)
    BY <1>8, <1>10, AllOffsetsKept
  <1>11. CommittedFits'
    <2>1. CASE (\A g \in File : cursors[g] = NoJsonlCursor) /\ (\A e \in Event : counted[e] > 1 => e \in returned)
      BY <1>5, <2>1 DEF CommittedFits
    <2>2. CASE OffsetsFit(cursors, counted, known)
      <3>1. OffsetsFitIn(disk', written', returned', passedOver, cursors, counted, known)
        BY <1>1, <1>10, <2>2, JsonlParts DEF OffsetsFit
      <3> QED
        BY <1>5, <3>1 DEF CommittedFits, OffsetsFit
    <2> QED
      BY <2>1, <2>2 DEF JsonlFits, CommittedFits
  <1>12. JsonlRows' = JsonlRows /\ JsonlPaths' = JsonlPaths
    BY <1>5 DEF JsonlRows, JsonlPaths
  <1>13. LogScanFits'
    <2>1. CASE pc = "scan"
      <3>1. OffsetsFitIn(disk, written, returned, passedOver, mem, JsonlRows, JsonlPaths)
        BY <2>1 DEF JsonlFits, LogScanFits, OffsetsFit
      <3>2. OffsetsFitIn(disk', written', returned', passedOver, mem, JsonlRows, JsonlPaths)
        BY <1>1, <1>10, <3>1, JsonlParts
      <3> QED
        BY <1>5, <1>12, <2>1, <3>2 DEF LogScanFits, OffsetsFit
    <2>2. CASE pc # "scan"
      BY <1>5, <2>2 DEF JsonlFits, LogScanFits
    <2> QED
      BY <2>1, <2>2
  <1>14. ReadingFits'
    <2> SUFFICES ASSUME at # Nowhere PROVE ReadingFits'
      BY <1>5 DEF ReadingFits, Nowhere, NoJsonlCursor
    <2>1. OffsetsFitIn(disk, written, returned, passedOver, mem, JsonlRows, JsonlPaths)
      BY DEF JsonlFits, LogScanFits, OffsetsFit
    <2>2. PICK g \in File :
            at.file = {g} /\ ReadsIn(at, disk[g], written, Taken(JsonlRows, returned), Settled(JsonlRows, passedOver))
      BY DEF JsonlFits, ReadingFits
    <2>3. \A x \in Ahead(disk[g].bytes, written) : JsonlRows[x[1]] = 0
      BY <2>1 DEF OffsetsFitIn
    <2>4. Newer(disk[g], disk'[g], written, written', returned')
      BY <1>8
    <2>5. ReadsIn(at, disk'[g], written', Taken(JsonlRows, returned'), Settled(JsonlRows, passedOver))
      BY <1>1, <2>2, <2>3, <2>4, JsonlParts, ReadsKept
    <2> QED
      BY <1>5, <1>12, <2>2, <2>5 DEF ReadingFits
  <1> QED
    BY <1>6, <1>9, <1>11, <1>13, <1>14 DEF JsonlFits

LEMMA LogsChangeFits ==
    ASSUME JsonlFits, NEW f \in File, WriteRecord(f) \/ Finish(f) \/ Trim(f) \/ Replace(f) \/ Vanish(f) \/ Return(f)
    PROVE  JsonlFits'
  <1> DEFINE b == disk[f].bytes
  <1>1. /\ written \in Nat /\ disk[f].ino \in Nat /\ disk[f].there \in BOOLEAN /\ returned \subseteq Event
        /\ WellFormed(b) /\ (\A i \in 1..Len(b) : b[i][1] <= written) /\ Len(b) \in Nat /\ DOMAIN b = 1..Len(b)
    BY JsonlParts, BytesOfRecords DEF JsonlFits, BytesFit, JsonlTypeOK
  <1>2. GrowsTo(b, b, written, written)
    <2>1. written <= written
      BY <1>1
    <2> QED
      BY <1>1, <2>1, NoLogChange
  <1>3. \A nb \in Suffixes(b) :
           GrowsTo(b, nb, written, written) /\ \A j \in 1..Len(nb) : \E i \in 1..Len(b) : nb[j] = b[i]
    <2> SUFFICES ASSUME NEW nb \in Suffixes(b)
                 PROVE  GrowsTo(b, nb, written, written) /\ \A j \in 1..Len(nb) : \E i \in 1..Len(b) : nb[j] = b[i]
      OBVIOUS
    <2>1. PICK n \in 1..Len(b) : IsEnd(b[n]) /\ nb = SubSeq(b, n + 1, Len(b))
      BY <1>1 DEF Suffixes
    <2> QED
      BY <1>1, <2>1, SuffixGrows
  <1>4. ASSUME WriteRecord(f) PROVE JsonlFits'
    <2>1. /\ written' = written + 1 /\ returned' = returned /\ disk[f].there
          /\ b # <<>> => IsEnd(b[Len(b)])
      BY <1>4 DEF WriteRecord
    <2>2. written + 1 \in Event
      BY <1>1, <1>4, JsonlAssumption DEF WriteRecord, Event
    <2>3. PICK k \in 1..Length(written + 1) : Rewrite(f, b \o SubSeq(Record(written + 1), 1, k))
      BY <1>4, <2>1 DEF WriteRecord
    <2> DEFINE nb == b \o SubSeq(Record(written + 1), 1, k)
    <2>4. /\ GrowsTo(b, nb, written, written')
          /\ \A j \in 1..Len(nb) : (\E i \in 1..Len(b) : nb[j] = b[i]) \/ nb[j][1] = written'
      <3>1. /\ GrowsTo(b, nb, written, written + 1)
            /\ \A j \in 1..Len(nb) : (\E i \in 1..Len(b) : nb[j] = b[i]) \/ nb[j][1] = written + 1
        <4>1. /\ WellFormed(b) /\ written \in Nat /\ (\A i \in 1..Len(b) : b[i][1] <= written)
              /\ b # <<>> => IsEnd(b[Len(b)])
          BY <1>1, <2>1
        <4> HIDE DEF b
        <4> QED
          BY <2>2, <4>1, RecordGrows
      <3> HIDE DEF nb
      <3> QED
        BY <2>1, <3>1
    <2>5. written' \in Nat /\ written <= written' /\ written' > written
      BY <1>1, <2>1
    <2>6. \A j \in 1..Len(nb) : (\E i \in 1..Len(b) : nb[j][1] = b[i][1]) \/ (nb[j][1] = written' /\ written' > written)
      BY <2>4, <2>5
    <2>7. Change(f, disk[f].there, disk[f].ino, nb)
      BY <2>3 DEF Rewrite
    <2> HIDE DEF nb
    <2> QED
      BY <1>1, <2>1, <2>4, <2>5, <2>6, <2>7, LogChange
  <1>5. ASSUME Finish(f) PROVE JsonlFits'
    <2> DEFINE nb == b \o <<<<b[Len(b)][1], b[Len(b)][2] + 1>>>>
    <2>1. b # <<>> /\ ~IsEnd(b[Len(b)]) /\ written' = written /\ returned' = returned
          /\ Change(f, disk[f].there, disk[f].ino, nb)
      BY <1>5 DEF Finish, Rewrite
    <2>2. GrowsTo(b, nb, written, written') /\ \A j \in 1..Len(nb) : \E i \in 1..Len(b) : nb[j][1] = b[i][1]
      BY <1>1, <2>1, FinishGrows
    <2>3. written <= written'
      BY <1>1, <2>1
    <2> HIDE DEF nb
    <2> QED
      BY <1>1, <2>1, <2>2, <2>3, LogChange
  <1>6. ASSUME NEW nb, GrowsTo(b, nb, written, written), \A j \in 1..Len(nb) : \E i \in 1..Len(b) : nb[j] = b[i],
               NEW inode \in Nat, NEW there \in BOOLEAN, there => disk[f].there \/ \A e \in Holds(nb) : e \in returned',
               Change(f, there, inode, nb), written' = written, returned \subseteq returned', returned' \subseteq Event
        PROVE  JsonlFits'
    <2>1. written <= written' /\ written' \in Nat /\ GrowsTo(b, nb, written, written')
      BY <1>1, <1>6
    <2>2. \A j \in 1..Len(nb) : (\E i \in 1..Len(b) : nb[j][1] = b[i][1])
                                 \/ (nb[j][1] = written' /\ written' > written)
      BY <1>6
    <2> QED
      BY <1>6, <2>1, <2>2, LogChange
  <1>7. ASSUME Trim(f) PROVE JsonlFits'
    <2>1. PICK nb \in Suffixes(b) : Change(f, disk[f].there, disk[f].ino, nb)
      BY <1>7 DEF Trim, Rewrite
    <2>2. written' = written /\ returned' = returned
      BY <1>7 DEF Trim
    <2> QED
      BY <1>1, <1>3, <1>6, <2>1, <2>2
  <1>8. ASSUME Replace(f) PROVE JsonlFits'
    <2>1. PICK nb \in Suffixes(b) \cup {b} : Change(f, TRUE, disk[f].ino + 1, nb)
      BY <1>8 DEF Replace
    <2>2. written' = written /\ returned' = returned /\ disk[f].there /\ disk[f].ino + 1 \in Nat
      BY <1>1, <1>8 DEF Replace
    <2>3. GrowsTo(b, nb, written, written) /\ \A j \in 1..Len(nb) : \E i \in 1..Len(b) : nb[j] = b[i]
      BY <1>2, <1>3, <2>1
    <2> QED
      BY <1>1, <1>6, <2>1, <2>2, <2>3
  <1>9. ASSUME Vanish(f) PROVE JsonlFits'
    <2>1. Change(f, FALSE, disk[f].ino, b) /\ written' = written /\ returned' = returned
      BY <1>9 DEF Vanish
    <2> QED
      BY <1>1, <1>2, <1>6, <2>1
  <1>10. ASSUME Return(f) PROVE JsonlFits'
    <2>1. Change(f, TRUE, disk[f].ino, b) /\ written' = written /\ returned' = returned \cup Holds(b)
      BY <1>10 DEF Return
    <2>2. Holds(b) \subseteq Event
      <3> SUFFICES ASSUME NEW e \in Holds(b) PROVE e \in Event
        OBVIOUS
      <3>1. \E j \in 1..Len(b) : IsEnd(b[j]) /\ b[j][1] = e
        BY <1>1, HeldRecords
      <3> QED
        BY <1>1, <3>1, BytesOfRecords
    <2> QED
      BY <1>1, <1>2, <1>6, <2>1, <2>2
  <1> QED
    BY <1>4, <1>5, <1>7, <1>8, <1>9, <1>10

-----------------------------------------------------------------------------
(* Steps of the sync.                                                      *)

LEMMA SettledGrows ==
    ASSUME NEW d, NEW ahead, NEW c, NEW taken, NEW owed, NEW settled2, owed \subseteq settled2,
           OffsetFits(d, ahead, c, taken, owed)
    PROVE  OffsetFits(d, ahead, c, taken, settled2)
  BY DEF OffsetFits

\* Nothing is owed by a queue without rows.
LEMMA NothingTaken ==
    ASSUME NEW logs, NEW w, NEW back, NEW over, NEW cs, NEW n \in [Event -> Nat], NEW paths,
           \A e \in Event : n[e] = 0, \A f \in File : cs[f] = NoJsonlCursor, \A f \in File : WellFormed(logs[f].bytes)
    PROVE  OffsetsFitIn(logs, w, back, over, cs, n, paths)
  <1>1. \A x : x \in ByteOf => x[1] \in Event
    BY DEF ByteOf
  <1>2. \A f \in File : \A x \in Ahead(logs[f].bytes, w) : n[x[1]] = 0
    BY <1>1 DEF Ahead
  <1>3. \A f \in File : UnreadFits(logs[f], Taken(n, back))
    <2>1. \A e : e \notin Taken(n, back)
      BY DEF Taken
    <2> QED
      BY <2>1 DEF UnreadFits
  <1> QED
    BY <1>2, <1>3 DEF OffsetsFitIn

\* A file gets another cursor.
LEMMA OffsetPut ==
    ASSUME NEW logs, NEW w, NEW back, NEW over, NEW over2, over \subseteq over2, NEW cs \in [File -> OffsetCursor],
           NEW n, NEW paths, NEW f \in File, NEW c \in OffsetCursor,
           OffsetsFitIn(logs, w, back, over, cs, n, paths),
           OffsetFits(logs[f], Ahead(logs[f].bytes, w), c, Taken(n, back), Settled(n, over2))
    PROVE  OffsetsFitIn(logs, w, back, over2, [cs EXCEPT ![f] = c], n, paths)
  <1> DEFINE cs2 == [cs EXCEPT ![f] = c]
  <1>1. Settled(n, over) \subseteq Settled(n, over2)
    BY DEF Settled
  <1>2. c # NoJsonlCursor
    BY DEF OffsetFits, NoJsonlCursor
  <1>3. cs2[f] = c /\ \A g \in File \ {f} : cs2[g] = cs[g]
    OBVIOUS
  <1> HIDE DEF cs2
  <1>4. ASSUME NEW g \in File
        PROVE  IF cs2[g] = NoJsonlCursor THEN g \in paths \/ UnreadFits(logs[g], Taken(n, back))
               ELSE OffsetFits(logs[g], Ahead(logs[g].bytes, w), cs2[g], Taken(n, back), Settled(n, over2))
    <2>1. CASE g = f
      BY <1>2, <1>3, <2>1
    <2>2. CASE g # f
      <3>1. cs2[g] = cs[g]
        BY <1>3, <2>2
      <3>2. IF cs[g] = NoJsonlCursor THEN g \in paths \/ UnreadFits(logs[g], Taken(n, back))
            ELSE OffsetFits(logs[g], Ahead(logs[g].bytes, w), cs[g], Taken(n, back), Settled(n, over))
        BY DEF OffsetsFitIn
      <3> QED
        BY <1>1, <3>1, <3>2, SettledGrows
    <2> QED
      BY <2>1, <2>2
  <1>5. /\ \A g \in File : \A x \in Ahead(logs[g].bytes, w) : n[x[1]] = 0
        /\ \A e \in Event : n[e] > 1 => e \in back
    BY DEF OffsetsFitIn
  <1>6. OffsetsFitIn(logs, w, back, over2, cs2, n, paths)
    BY <1>4, <1>5 DEF OffsetsFitIn
  <1> QED
    BY <1>6 DEF cs2

LEMMA OverGrows ==
    ASSUME NEW logs, NEW w, NEW back, NEW over, NEW over2, over \subseteq over2, NEW cs, NEW n, NEW paths,
           OffsetsFitIn(logs, w, back, over, cs, n, paths)
    PROVE  OffsetsFitIn(logs, w, back, over2, cs, n, paths)
  <1>1. Settled(n, over) \subseteq Settled(n, over2)
    BY DEF Settled
  <1>2. ASSUME NEW g \in File
        PROVE  IF cs[g] = NoJsonlCursor THEN g \in paths \/ UnreadFits(logs[g], Taken(n, back))
               ELSE OffsetFits(logs[g], Ahead(logs[g].bytes, w), cs[g], Taken(n, back), Settled(n, over2))
    <2>1. IF cs[g] = NoJsonlCursor THEN g \in paths \/ UnreadFits(logs[g], Taken(n, back))
          ELSE OffsetFits(logs[g], Ahead(logs[g].bytes, w), cs[g], Taken(n, back), Settled(n, over))
      BY DEF OffsetsFitIn
    <2> QED
      BY <1>1, <2>1, SettledGrows
  <1> QED
    BY <1>2 DEF OffsetsFitIn

\* The anchors of an offset are behind what is ahead of the log.
LEMMA StampFits ==
    ASSUME NEW d \in OffsetLog, WellFormed(d.bytes), NEW w \in Nat, \A i \in 1..Len(d.bytes) : d.bytes[i][1] <= w,
           NEW mark \in 0..Len(d.bytes), NEW c \in OffsetCursor, c.offset = mark,
           c.anchors = Anchors(d.bytes, mark), 1 <= c.ver, c.ver <= d.ver, NEW taken, NEW owed,
           \A j \in 1..Len(d.bytes) : IsEnd(d.bytes[j]) /\ d.bytes[j][1] \in taken => j <= mark,
           \A j \in 1..Len(d.bytes) : IsEnd(d.bytes[j]) /\ j <= mark => d.bytes[j][1] \in owed
    PROVE  OffsetFits(d, Ahead(d.bytes, w), c, taken, owed)
  <1> DEFINE b == d.bytes
  <1>1. AnchorCount \in Nat \ {0} /\ Len(b) \in Nat
    BY JsonlAssumption, BytesOfRecords
  <1>2. /\ c.anchors \subseteq Event
        /\ \A a \in c.anchors : \E i \in 1..mark : IsEnd(b[i]) /\ b[i][1] = a
        /\ \A j \in 1..Len(b) : IsEnd(b[j]) => (UpTo(b[j][1], c.anchors) <=> j <= mark)
    BY <1>1, AnchorsMark DEF Anchors
  <1>3. ASSUME NEW a \in c.anchors, NEW x \in Ahead(b, w) PROVE a < x[1]
    <2>1. PICK i \in 1..mark : IsEnd(b[i]) /\ b[i][1] = a
      BY <1>2
    <2>2. i \in 1..Len(b)
      BY <1>1
    <2> QED
      BY <2>1, <2>2, AheadIsAhead
  <1>4. c.ver = d.ver /\ c.ino = d.ino => c.offset <= Len(b)
    BY <1>1
  <1>5. \A j \in 1..Len(b) : IsEnd(b[j]) =>
          /\ b[j][1] \in taken => j <= c.offset /\ (c.anchors = {} \/ UpTo(b[j][1], c.anchors))
          /\ UpTo(b[j][1], c.anchors) => b[j][1] \in owed
          /\ c.ver = d.ver /\ c.ino = d.ino /\ j <= c.offset => b[j][1] \in owed
    BY <1>2
  <1> QED
    BY <1>3, <1>4, <1>5 DEF OffsetFits

LEMMA JsonlZeros ==
    /\ NoJsonlCursor \in OffsetCursor /\ Nowhere \in OffsetReading /\ Nowhere.step = "none"
    /\ [f \in File |-> NoJsonlCursor] \in [File -> OffsetCursor]
    /\ NoCount \in [Event -> Nat] /\ \A e \in Event : NoCount[e] = 0
  <1>1. NoJsonlCursor \in OffsetCursor
    BY DEF NoJsonlCursor, OffsetCursor
  <1>2. Nowhere \in OffsetReading /\ Nowhere.step = "none"
    <2>1. <<>> \in Seq(ByteOf)
      OBVIOUS
    <2>2. 0 \in Nat /\ {} \in SUBSET Event /\ {} \in SUBSET File
      OBVIOUS
    <2> QED
      BY <1>1, <2>1, <2>2 DEF Nowhere, OffsetReading
  <1>3. NoCount \in [Event -> Nat] /\ \A e \in Event : NoCount[e] = 0
    BY DEF NoCount
  <1> QED
    BY <1>1, <1>2, <1>3

LEMMA ScanKept ==
    ASSUME JsonlFits, UNCHANGED <<disk, stored, pc, full, delta, written, returned>>, pc = "scan",
           passedOver \subseteq passedOver', passedOver' \subseteq Event, mem' \in [File -> OffsetCursor],
           todo' \subseteq File, failed' \subseteq File, at' \in OffsetReading,
           OffsetsFitIn(disk, written, returned, passedOver', mem', JsonlRows, JsonlPaths),
           at' # Nowhere => \E f \in File :
               /\ at'.file = {f}
               /\ ReadsIn(at', disk[f], written, Taken(JsonlRows, returned), Settled(JsonlRows, passedOver'))
    PROVE  JsonlFits'
  <1>1. /\ disk' = disk /\ cursors' = cursors /\ known' = known /\ counted' = counted /\ pc' = pc /\ full' = full
        /\ delta' = delta /\ written' = written /\ returned' = returned
    BY DEF stored
  <1>2. JsonlTypeOK /\ BytesFit /\ CommittedFits
    BY DEF JsonlFits
  <1>3. JsonlTypeOK'
    BY <1>1, <1>2 DEF JsonlTypeOK
  <1>4. BytesFit'
    BY <1>1, <1>2 DEF BytesFit
  <1>5. CommittedFits'
    <2>1. CASE (\A f \in File : cursors[f] = NoJsonlCursor) /\ (\A e \in Event : counted[e] > 1 => e \in returned)
      BY <1>1, <2>1 DEF CommittedFits
    <2>2. CASE OffsetsFit(cursors, counted, known)
      <3>1. OffsetsFitIn(disk, written, returned, passedOver', cursors, counted, known)
        BY <2>2, OverGrows DEF OffsetsFit
      <3> QED
        BY <1>1, <3>1 DEF CommittedFits, OffsetsFit
    <2> QED
      BY <1>2, <2>1, <2>2 DEF CommittedFits
  <1>6. JsonlRows' = JsonlRows /\ JsonlPaths' = JsonlPaths
    BY <1>1 DEF JsonlRows, JsonlPaths
  <1>7. LogScanFits'
    BY <1>1, <1>6 DEF LogScanFits, OffsetsFit
  <1>8. ReadingFits'
    BY <1>1, <1>6 DEF ReadingFits, Nowhere, NoJsonlCursor
  <1> QED
    BY <1>3, <1>4, <1>5, <1>7, <1>8 DEF JsonlFits

LEMMA StartJsonlFits ==
    ASSUME JsonlFits, StartJsonl
    PROVE  JsonlFits'
  <1>1. /\ disk' = disk /\ cursors' = cursors /\ known' = known /\ counted' = counted /\ pc' = "scan"
        /\ full' = (\A f \in File : cursors[f] = NoJsonlCursor) /\ mem' = cursors /\ delta' = NoCount
        /\ todo' = PresentFiles /\ failed' = {} /\ at' = Nowhere
        /\ written' = written /\ returned' = returned /\ passedOver' = passedOver
    BY DEF StartJsonl, stored
  <1>2. JsonlTypeOK /\ BytesFit /\ CommittedFits
    BY DEF JsonlFits
  <1>3. JsonlTypeOK'
    <2>1. PresentFiles \subseteq File
      BY DEF PresentFiles
    <2> QED
      BY <1>1, <1>2, <2>1, JsonlZeros DEF JsonlTypeOK
  <1>4. BytesFit' /\ CommittedFits'
    BY <1>1, <1>2 DEF BytesFit, CommittedFits, OffsetsFit
  <1>5. JsonlRows' \in [Event -> Nat] /\ \A e \in Event : JsonlRows'[e] = IF full' THEN 0 ELSE counted[e]
    <2>1. JsonlRows' = [e \in Event |-> delta'[e] + (IF full' THEN 0 ELSE counted'[e])]
      BY DEF JsonlRows
    <2>2. \A e \in Event : delta'[e] = 0 /\ counted'[e] \in Nat
      BY <1>1, <1>2, JsonlZeros DEF JsonlTypeOK
    <2> QED
      BY <1>1, <2>1, <2>2
  <1>6. OffsetsFitIn(disk, written, returned, passedOver, cursors, JsonlRows', JsonlPaths')
    <2>1. CASE \A f \in File : cursors[f] = NoJsonlCursor
      <3>1. \A e \in Event : JsonlRows'[e] = 0
        BY <1>1, <1>5, <2>1
      <3>2. \A f \in File : WellFormed(disk[f].bytes)
        BY <1>2 DEF BytesFit
      <3> QED
        BY <1>5, <2>1, <3>1, <3>2, NothingTaken
    <2>2. CASE ~ \A f \in File : cursors[f] = NoJsonlCursor
      <3>1. OffsetsFitIn(disk, written, returned, passedOver, cursors, counted, known)
        BY <1>2, <2>2 DEF CommittedFits, OffsetsFit
      <3>2. JsonlRows' = counted
        BY <1>1, <1>2, <1>5, <2>2 DEF JsonlTypeOK
      <3>3. JsonlPaths' = known
        BY <1>1, <2>2 DEF JsonlPaths
      <3> QED
        BY <3>1, <3>2, <3>3
    <2> QED
      BY <2>1, <2>2
  <1>7. LogScanFits'
    BY <1>1, <1>6 DEF LogScanFits, OffsetsFit
  <1>8. ReadingFits'
    BY <1>1 DEF ReadingFits, Nowhere, NoJsonlCursor
  <1> QED
    BY <1>3, <1>4, <1>7, <1>8 DEF JsonlFits

\* A wipe starts again without rows and without cursors.
LEMMA WipeFits ==
    ASSUME JsonlFits, pc = "scan", Wipe, UNCHANGED <<disk, written, returned>>
    PROVE  JsonlFits'
  <1>1. /\ disk' = disk /\ cursors' = [f \in File |-> NoJsonlCursor] /\ known' = {} /\ counted' = counted /\ pc' = "scan"
        /\ full' = TRUE /\ mem' = [f \in File |-> NoJsonlCursor] /\ delta' = NoCount
        /\ todo' = PresentFiles /\ failed' = {} /\ at' = Nowhere
        /\ written' = written /\ returned' = returned /\ passedOver' = passedOver
    BY DEF Wipe
  <1>2. JsonlTypeOK /\ BytesFit /\ CommittedFits
    BY DEF JsonlFits
  <1>3. JsonlTypeOK'
    <2>1. PresentFiles \subseteq File
      BY DEF PresentFiles
    <2> QED
      BY <1>1, <1>2, <2>1, JsonlZeros DEF JsonlTypeOK
  <1>4. BytesFit'
    BY <1>1, <1>2 DEF BytesFit
  <1>5. CommittedFits'
    <2>1. \A e \in Event : counted[e] > 1 => e \in returned
      BY <1>2 DEF CommittedFits, OffsetsFit, OffsetsFitIn
    <2>2. \A f \in File : cursors'[f] = NoJsonlCursor
      BY <1>1
    <2> QED
      BY <1>1, <2>1, <2>2 DEF CommittedFits
  <1>6. LogScanFits'
    <2>1. JsonlRows' \in [Event -> Nat] /\ \A e \in Event : JsonlRows'[e] = 0
      <3>1. JsonlRows' = [e \in Event |-> delta'[e] + (IF full' THEN 0 ELSE counted'[e])]
        BY DEF JsonlRows
      <3>2. \A e \in Event : delta'[e] = 0
        BY <1>1, JsonlZeros
      <3> QED
        BY <1>1, <3>1, <3>2
    <2>2. (\A f \in File : mem'[f] = NoJsonlCursor) /\ \A f \in File : WellFormed(disk[f].bytes)
      BY <1>1, <1>2 DEF BytesFit
    <2>3. OffsetsFitIn(disk, written, returned, passedOver, mem', JsonlRows', JsonlPaths')
      BY <2>1, <2>2, NothingTaken
    <2> QED
      BY <1>1, <2>3 DEF LogScanFits, OffsetsFit
  <1>7. ReadingFits'
    BY <1>1 DEF ReadingFits, Nowhere, NoJsonlCursor
  <1> QED
    BY <1>3, <1>4, <1>5, <1>6, <1>7 DEF JsonlFits

\* A file is skipped with another cursor, or opened with a cursor that fits.
LEMMA LookFits ==
    ASSUME JsonlFits, NEW f \in File, Look(f)
    PROVE  JsonlFits'
  <1> DEFINE d == disk[f]
             b == d.bytes
             size == Len(b)
             c == mem[f]
             r == Resolve(b, c)
             parked == IF c.offset < size THEN c.offset ELSE size
             stamped == Anchors(b, parked)
             ahead == Ahead(b, written)
             taken == Taken(JsonlRows, returned)
             owed == Settled(JsonlRows, passedOver)
  <1>1. /\ pc = "scan" /\ at = Nowhere /\ disk' = disk /\ written' = written /\ returned' = returned
        /\ UNCHANGED <<changes>>
    BY DEF Look
  <1>2. JsonlTypeOK /\ BytesFit /\ OffsetsFitIn(disk, written, returned, passedOver, mem, JsonlRows, JsonlPaths)
    BY <1>1 DEF JsonlFits, LogScanFits, OffsetsFit
  <1>3. /\ d \in OffsetLog /\ d.ver \in Nat /\ d.ino \in Nat /\ b \in Seq(ByteOf) /\ written \in Nat
        /\ mem \in [File -> OffsetCursor] /\ JsonlRows \in [Event -> Nat] /\ at \in OffsetReading
        /\ todo \subseteq File /\ failed \subseteq File /\ passedOver \subseteq Event
    BY <1>2, JsonlParts DEF JsonlTypeOK
  <1>4. WellFormed(b) /\ d.ver > 0 /\ \A i \in 1..size : b[i][1] <= written
    BY <1>2 DEF BytesFit
  <1>5. size \in Nat /\ c \in OffsetCursor /\ c.ver \in Nat /\ c.offset \in Nat /\ c.size \in Nat /\ c.ino \in Nat
        /\ c.anchors \subseteq Event
    <2>1. c \in OffsetCursor
      BY <1>3
    <2> QED
      BY <1>4, <2>1, BytesOfRecords DEF OffsetCursor
  <1>6. parked \in 0..size /\ parked <= c.offset
    BY <1>5
  <1>7. IF c = NoJsonlCursor THEN f \in JsonlPaths \/ UnreadFits(d, taken) ELSE OffsetFits(d, ahead, c, taken, owed)
    BY <1>2 DEF OffsetsFitIn
  <1>8. \A o \in 0..size : Anchors(b, o) \subseteq Event
    <2> SUFFICES ASSUME NEW o \in 0..size PROVE Anchors(b, o) \subseteq Event
      OBVIOUS
    <2>1. AnchorCount \in Nat \ {0}
      BY JsonlAssumption
    <2> QED
      BY <1>4, <2>1, AnchorsMark DEF Anchors
  <1>9. \A o \in 0..size : \A e \in Records(b, o) : e \in Event
    <2> SUFFICES ASSUME NEW o \in 0..size, NEW e \in Records(b, o) PROVE e \in Event
      OBVIOUS
    <2>1. PICK j \in 1..o : IsEnd(b[j]) /\ b[j][1] = e
      BY <1>4, PrefixRecords
    <2>2. j \in 1..size
      BY <1>5
    <2> QED
      BY <1>4, <2>1, <2>2, BytesOfRecords
  <1> HIDE DEF d, b, size, r, parked, stamped, ahead, taken, owed
  <1>10. \A o \in 0..size : Fresh(f, o, Anchors(b, o)) \in OffsetCursor
    BY <1>3, <1>5, <1>8 DEF Fresh, OffsetCursor, d, b, size
  <1>11. ASSUME UNCHANGED <<stored, pc, full, mem, delta, at, passedOver>>, todo' = todo \ {f}, failed' = failed \cup {f}
         PROVE  JsonlFits'
    <2>1. UNCHANGED <<disk, stored, pc, full, delta, written, returned>>
      BY <1>1, <1>11
    <2>2. /\ passedOver \subseteq passedOver' /\ passedOver' \subseteq Event /\ mem' \in [File -> OffsetCursor]
          /\ todo' \subseteq File /\ failed' \subseteq File /\ at' = Nowhere /\ at' \in OffsetReading
      BY <1>1, <1>3, <1>11
    <2>3. OffsetsFitIn(disk, written, returned, passedOver', mem', JsonlRows, JsonlPaths)
      BY <1>2, <1>11
    <2> QED
      BY <1>1, <2>1, <2>2, <2>3, ScanKept
  <1>12. ASSUME NEW c2 \in OffsetCursor, SkipFile(f, c2), todo' = todo \ {f}, passedOver \subseteq passedOver',
                passedOver' \subseteq Event, OffsetFits(d, ahead, c2, taken, Settled(JsonlRows, passedOver'))
         PROVE  JsonlFits'
    <2>1. /\ UNCHANGED <<disk, stored, pc, full, delta, written, returned>>
          /\ mem' = [mem EXCEPT ![f] = c2] /\ failed' = failed /\ at' = Nowhere
      BY <1>1, <1>12 DEF SkipFile
    <2>2. mem' \in [File -> OffsetCursor] /\ todo' \subseteq File /\ failed' \subseteq File /\ at' \in OffsetReading
      BY <1>1, <1>3, <1>12, <2>1
    <2>3. OffsetsFitIn(disk, written, returned, passedOver', mem', JsonlRows, JsonlPaths)
      BY <1>2, <1>3, <1>12, <2>1, OffsetPut DEF d, b, ahead, taken
    <2> QED
      BY <1>1, <1>12, <2>1, <2>2, <2>3, ScanKept
  <1>13. ASSUME NEW action \in {"new", "append", "rebase"}, NEW start \in 0..size, NEW c2 \in OffsetCursor,
                OpenAt(f, action, start, c2), todo' = todo \ {f}, passedOver \subseteq passedOver', passedOver' \subseteq Event,
                IF action = "new" THEN c2 = NoJsonlCursor /\ start = 0 /\ UnreadFits(d, taken)
                ELSE OffsetFits(d, ahead, c2, taken, Settled(JsonlRows, passedOver'))
         PROVE  JsonlFits'
    <2>1. /\ UNCHANGED <<disk, stored, pc, full, delta, written, returned>> /\ mem' = mem /\ failed' = failed
          /\ at' = [file |-> {f}, step |-> "hash", start |-> start, action |-> action, opts |-> c2,
                    snap |-> size, ver |-> d.ver, ino |-> d.ino, pre |-> <<>>, bound |-> 0, got |-> {}]
      BY <1>1, <1>13 DEF OpenAt, d, b, size
    <2>2. at' \in OffsetReading
      <3>1. <<>> \in Seq(ByteOf) /\ {f} \in SUBSET File /\ {} \in SUBSET Event
        OBVIOUS
      <3>2. start \in Nat /\ size \in Nat /\ 0 \in Nat
        BY <1>5
      <3> QED
        BY <1>3, <2>1, <3>1, <3>2 DEF OffsetReading
    <2>3. ReadsIn(at', d, written, taken, Settled(JsonlRows, passedOver'))
      <3>1. /\ at'.step = "hash" /\ at'.ver = d.ver /\ at'.start = start /\ at'.snap = size
            /\ at'.action = action /\ at'.opts = c2
        BY <2>1
      <3>2. 1 <= d.ver /\ d.ver <= d.ver /\ start <= size
        BY <1>3, <1>4, <1>5
      <3>3. SliceFits(at', b, ahead)
        BY <3>1, <3>2 DEF SliceFits
      <3> QED
        BY <1>13, <3>1, <3>2, <3>3 DEF ReadsIn, b, ahead
    <2>4. at'.file = {f}
      BY <2>1
    <2>5. OffsetsFitIn(disk, written, returned, passedOver', mem', JsonlRows, JsonlPaths)
      BY <1>2, <1>13, <2>1, OverGrows
    <2>6. \E g \in File : /\ at'.file = {g}
                          /\ ReadsIn(at', disk[g], written, Taken(JsonlRows, returned), Settled(JsonlRows, passedOver'))
      BY <2>3, <2>4 DEF d, taken
    <2>7. mem' \in [File -> OffsetCursor] /\ todo' \subseteq File /\ failed' \subseteq File
      BY <1>3, <1>13, <2>1
    <2> QED
      BY <1>1, <1>13, <2>1, <2>2, <2>5, <2>6, <2>7, ScanKept
  <1>14. ASSUME NEW o \in 0..size, NEW c2 \in OffsetCursor, c2.offset = o, c2.anchors = Anchors(b, o), 1 <= c2.ver, c2.ver <= d.ver,
                \A j \in 1..size : IsEnd(b[j]) /\ b[j][1] \in taken => j <= o, NEW settled2,
                \A j \in 1..size : IsEnd(b[j]) /\ j <= o => b[j][1] \in settled2
         PROVE  OffsetFits(d, ahead, c2, taken, settled2)
    BY <1>3, <1>4, <1>14, StampFits DEF b, size, ahead
  <1>15. ASSUME c # NoJsonlCursor
         PROVE  /\ 1 <= c.ver /\ c.ver <= d.ver
                /\ \A j \in 1..size : IsEnd(b[j]) /\ b[j][1] \in taken => j <= c.offset
                /\ c.ver = d.ver /\ c.ino = d.ino => \A j \in 1..size : IsEnd(b[j]) /\ j <= c.offset => b[j][1] \in owed
                /\ OffsetFits(d, ahead, c, taken, owed)
    <2>1. OffsetFits(d, ahead, c, taken, owed)
      BY <1>7, <1>15
    <2> QED
      BY <2>1 DEF OffsetFits, b, size
  \* A log without bytes.
  <1>16. ASSUME size = 0, SkipFile(f, Fresh(f, 0, {})), todo' = todo \ {f}, UNCHANGED passedOver
         PROVE  JsonlFits'
    <2> DEFINE c2 == Fresh(f, 0, {})
    <2>1. c2 \in OffsetCursor /\ c2.ver = d.ver /\ c2.anchors = {} /\ c2.offset = 0
      BY <1>3, <1>5 DEF Fresh, OffsetCursor, d, b, size
    <2> HIDE DEF c2
    <2>2. 1 <= c2.ver /\ c2.ver <= d.ver /\ 1..size = {} /\ c2.offset <= size
      BY <1>3, <1>4, <1>16, <2>1
    <2>3. OffsetFits(d, ahead, c2, taken, owed)
      BY <2>1, <2>2 DEF OffsetFits, b, size
    <2> QED
      BY <1>3, <1>12, <1>16, <2>1, <2>3 DEF c2, owed
  \* The fast skip.
  <1>17. ASSUME Unchanged(f, c), todo' = todo \ {f}, UNCHANGED passedOver, size # 0,
                SkipFile(f, IF c.anchors = {} THEN [c EXCEPT !.anchors = Anchors(b, c.offset)] ELSE c)
         PROVE  JsonlFits'
    <2>1. c # NoJsonlCursor /\ c.ino = d.ino /\ c.ver = d.ver /\ c.offset \in 0..size
      BY <1>5, <1>17 DEF Unchanged, d, b, size
    <2>2. CASE c.anchors # {}
      BY <1>3, <1>5, <1>12, <1>15, <1>17, <2>1, <2>2 DEF owed
    <2>3. CASE c.anchors = {}
      <3> DEFINE c2 == [c EXCEPT !.anchors = Anchors(b, c.offset)]
      <3>1. c2 \in OffsetCursor /\ c2.offset = c.offset /\ c2.ver = c.ver /\ c2.anchors = Anchors(b, c.offset)
        BY <1>5, <1>8, <2>1 DEF OffsetCursor
      <3> HIDE DEF c2
      <3>2. OffsetFits(d, ahead, c2, taken, owed)
        BY <1>14, <1>15, <2>1, <3>1
      <3> QED
        BY <1>3, <1>12, <1>17, <2>3, <3>1, <3>2 DEF c2, owed
    <2> QED
      BY <2>2, <2>3
  \* A log that is read for the first time.
  <1>18. ASSUME ~ReplayIsDue(f, c), c = NoJsonlCursor, OpenAt(f, "new", 0, NoJsonlCursor), todo' = todo \ {f}, UNCHANGED passedOver
         PROVE  JsonlFits'
    <2>1. f \notin JsonlPaths
      BY <1>18 DEF ReplayIsDue, JsonlPaths
    <2>2. UnreadFits(d, taken) /\ 0 \in 0..size
      BY <1>5, <1>7, <1>18, <2>1
    <2> QED
      BY <1>3, <1>13, <1>18, <2>2, JsonlZeros
  \* Reading goes on.
  <1>19. ASSUME c # NoJsonlCursor, r.action # "skip", OpenAt(f, r.action, r.start, c), todo' = todo \ {f}, UNCHANGED passedOver
         PROVE  JsonlFits'
    <2>1. r.start \in 0..size /\ r.action \in {"append", "rebase"}
      BY <1>4, <1>5, <1>19, ResolveMarks DEF r, size
    <2>2. OffsetFits(d, ahead, c, taken, owed)
      BY <1>15, <1>19
    <2> QED
      BY <1>3, <1>5, <1>13, <1>19, <2>1, <2>2 DEF owed
  \* Continuity was lost: reading goes on at the offset.
  <1>20. ASSUME c # NoJsonlCursor, size # 0, stamped # {}, parked < size, todo' = todo \ {f},
                OpenAt(f, "append", parked, [c EXCEPT !.offset = parked, !.size = parked, !.anchors = stamped]),
                passedOver' = passedOver \cup Records(b, parked) \cup {b[parked + 1][1]}
         PROVE  JsonlFits'
    <2> DEFINE c2 == [c EXCEPT !.offset = parked, !.size = parked, !.anchors = stamped]
    <2>1. stamped \subseteq Event /\ parked \in Nat
      BY <1>5, <1>6, <1>8 DEF stamped
    <2>2. c2 \in OffsetCursor /\ c2.offset = parked /\ c2.ver = c.ver /\ c2.anchors = stamped
      BY <1>5, <2>1 DEF OffsetCursor
    <2> HIDE DEF c2
    <2>3. passedOver \subseteq passedOver' /\ passedOver' \subseteq Event
      <3>1. parked + 1 \in 1..size
        BY <1>5, <1>6, <1>20
      <3>2. b[parked + 1][1] \in Event
        BY <1>4, <3>1, BytesOfRecords DEF size
      <3> QED
        BY <1>3, <1>6, <1>9, <1>20, <3>2
    <2>4. \A j \in 1..size : IsEnd(b[j]) /\ b[j][1] \in taken => j <= parked
      <3> SUFFICES ASSUME NEW j \in 1..size, IsEnd(b[j]), b[j][1] \in taken PROVE j <= parked
        OBVIOUS
      <3>1. j <= c.offset
        BY <1>15, <1>20
      <3> QED
        BY <1>5, <3>1 DEF parked
    <2>5. \A j \in 1..size : IsEnd(b[j]) /\ j <= parked => b[j][1] \in Settled(JsonlRows, passedOver')
      <3> SUFFICES ASSUME NEW j \in 1..size, IsEnd(b[j]), j <= parked PROVE b[j][1] \in Settled(JsonlRows, passedOver')
        OBVIOUS
      <3>1. j \in 1..parked /\ b[j][1] \in Event
        BY <1>4, <2>1, BytesOfRecords DEF size
      <3>2. b[j][1] \in Records(b, parked)
        BY <1>4, <1>6, <3>1, PrefixRecords DEF size
      <3> QED
        BY <1>20, <3>1, <3>2 DEF Settled
    <2>6. OffsetFits(d, ahead, c2, taken, Settled(JsonlRows, passedOver'))
      BY <1>6, <1>14, <1>15, <1>20, <2>2, <2>4, <2>5 DEF stamped
    <2> QED
      BY <1>6, <1>13, <1>20, <2>2, <2>3, <2>6 DEF c2
  \* It was lost and nothing marks the offset: the log is skipped to its end.
  <1>21. ASSUME size # 0, todo' = todo \ {f}, SkipFile(f, Fresh(f, size, Anchors(b, size))),
                passedOver' = passedOver \cup Holds(b) \cup {b[size][1]}
         PROVE  JsonlFits'
    <2> DEFINE c2 == Fresh(f, size, Anchors(b, size))
    <2>1. size \in 0..size /\ size \in 1..size
      BY <1>5, <1>21
    <2>2. c2 \in OffsetCursor /\ c2.offset = size /\ c2.ver = d.ver /\ c2.anchors = Anchors(b, size)
      BY <1>10, <2>1 DEF Fresh, d
    <2> HIDE DEF c2
    <2>3. passedOver \subseteq passedOver' /\ passedOver' \subseteq Event
      <3>1. b[size][1] \in Event
        BY <1>4, <2>1, BytesOfRecords DEF size
      <3>2. \A e \in Holds(b) : e \in Event
        BY <1>4, HeldRecords, BytesOfRecords
      <3> QED
        BY <1>3, <1>21, <3>1, <3>2
    <2>4. \A j \in 1..size : IsEnd(b[j]) /\ j <= size => b[j][1] \in Settled(JsonlRows, passedOver')
      <3> SUFFICES ASSUME NEW j \in 1..size, IsEnd(b[j]) PROVE b[j][1] \in Settled(JsonlRows, passedOver')
        OBVIOUS
      <3>1. b[j][1] \in Holds(b) /\ b[j][1] \in Event
        BY <1>4, HeldRecords, BytesOfRecords DEF size
      <3> QED
        BY <1>21, <3>1 DEF Settled
    <2>5. 1 <= c2.ver /\ c2.ver <= d.ver /\ \A j \in 1..size : j <= size
      BY <1>3, <1>4, <1>5, <2>2
    <2>6. OffsetFits(d, ahead, c2, taken, Settled(JsonlRows, passedOver'))
      BY <1>14, <2>1, <2>2, <2>4, <2>5
    <2> QED
      BY <1>12, <1>21, <2>2, <2>3, <2>6 DEF c2
  <1>22. ASSUME ~Unchanged(f, c), ReplayIsDue(f, c), Wipe PROVE JsonlFits'
    BY <1>1, <1>22, WipeFits
  <1>23. \/ failed' = failed \cup {f} /\ todo' = todo \ {f} /\ UNCHANGED <<stored, pc, full, mem, delta, at, passedOver>>
         \/ /\ Unchanged(f, c) /\ todo' = todo \ {f} /\ UNCHANGED passedOver
            /\ SkipFile(f, IF size = 0 THEN Fresh(f, 0, {})
                           ELSE IF c.anchors = {} THEN [c EXCEPT !.anchors = Anchors(b, c.offset)] ELSE c)
         \/ ~Unchanged(f, c) /\ ReplayIsDue(f, c) /\ Wipe
         \/ /\ ~ReplayIsDue(f, c) /\ todo' = todo \ {f}
            /\ IF c = NoJsonlCursor
               THEN OpenAt(f, "new", 0, NoJsonlCursor) /\ UNCHANGED passedOver
               ELSE IF size = 0
               THEN SkipFile(f, Fresh(f, 0, {})) /\ UNCHANGED passedOver
               ELSE IF r.action # "skip"
               THEN OpenAt(f, r.action, r.start, c) /\ UNCHANGED passedOver
               ELSE IF stamped # {} /\ parked < size
               THEN /\ OpenAt(f, "append", parked, [c EXCEPT !.offset = parked, !.size = parked, !.anchors = stamped])
                    /\ passedOver' = passedOver \cup Records(b, parked) \cup {b[parked + 1][1]}
               ELSE /\ SkipFile(f, Fresh(f, size, Anchors(b, size)))
                    /\ passedOver' = passedOver \cup Holds(b) \cup {b[size][1]}
    BY Zenon DEF Look, Records, d, b, size, c, r, parked, stamped
  <1>24. CASE /\ Unchanged(f, c) /\ todo' = todo \ {f} /\ UNCHANGED passedOver
              /\ SkipFile(f, IF size = 0 THEN Fresh(f, 0, {})
                             ELSE IF c.anchors = {} THEN [c EXCEPT !.anchors = Anchors(b, c.offset)] ELSE c)
    BY <1>16, <1>17, <1>24
  <1>25. CASE /\ ~ReplayIsDue(f, c) /\ todo' = todo \ {f}
              /\ IF c = NoJsonlCursor
                 THEN OpenAt(f, "new", 0, NoJsonlCursor) /\ UNCHANGED passedOver
                 ELSE IF size = 0
                 THEN SkipFile(f, Fresh(f, 0, {})) /\ UNCHANGED passedOver
                 ELSE IF r.action # "skip"
                 THEN OpenAt(f, r.action, r.start, c) /\ UNCHANGED passedOver
                 ELSE IF stamped # {} /\ parked < size
                 THEN /\ OpenAt(f, "append", parked, [c EXCEPT !.offset = parked, !.size = parked, !.anchors = stamped])
                      /\ passedOver' = passedOver \cup Records(b, parked) \cup {b[parked + 1][1]}
                 ELSE /\ SkipFile(f, Fresh(f, size, Anchors(b, size)))
                      /\ passedOver' = passedOver \cup Holds(b) \cup {b[size][1]}
    <2>1. CASE c = NoJsonlCursor
      BY <1>18, <1>25, <2>1
    <2>2. CASE c # NoJsonlCursor /\ size = 0
      BY <1>16, <1>25, <2>2
    <2>3. CASE c # NoJsonlCursor /\ size # 0 /\ r.action # "skip"
      BY <1>19, <1>25, <2>3
    <2>4. CASE c # NoJsonlCursor /\ size # 0 /\ r.action = "skip" /\ stamped # {} /\ parked < size
      BY <1>20, <1>25, <2>4
    <2>5. CASE c # NoJsonlCursor /\ size # 0 /\ r.action = "skip" /\ ~(stamped # {} /\ parked < size)
      BY <1>21, <1>25, <2>5
    <2> QED
      BY <2>1, <2>2, <2>3, <2>4, <2>5
  <1> QED
    BY <1>11, <1>22, <1>23, <1>24, <1>25

LEMMA HashParseFits ==
    ASSUME JsonlFits, Hash \/ Parse
    PROVE  JsonlFits'
  <1>1. at.step \in {"hash", "parse"}
    BY DEF Hash, Parse
  <1>2. at # Nowhere
    BY <1>1, JsonlZeros
  <1>3. pc = "scan"
    BY <1>2 DEF JsonlFits, LogScanFits
  <1>4. /\ JsonlTypeOK /\ BytesFit
        /\ OffsetsFitIn(disk, written, returned, passedOver, mem, JsonlRows, JsonlPaths)
    BY <1>3 DEF JsonlFits, LogScanFits, OffsetsFit
  <1>5. PICK f \in File : /\ at.file = {f}
                          /\ ReadsIn(at, disk[f], written, Taken(JsonlRows, returned), Settled(JsonlRows, passedOver))
    BY <1>2 DEF JsonlFits, ReadingFits
  <1> DEFINE d == disk[f]
             b == d.bytes
             ahead == Ahead(b, written)
             taken == Taken(JsonlRows, returned)
             owed == Settled(JsonlRows, passedOver)
  <1>6. /\ at \in OffsetReading /\ at.start \in Nat /\ at.snap \in Nat /\ at.pre \in Seq(ByteOf) /\ b \in Seq(ByteOf)
        /\ written \in Nat /\ mem \in [File -> OffsetCursor] /\ todo \subseteq File /\ failed \subseteq File
        /\ passedOver \subseteq Event
    BY <1>4, JsonlParts DEF JsonlTypeOK
  <1>7. WellFormed(b) /\ Len(b) \in Nat /\ \A i \in 1..Len(b) : b[i][1] <= written
    BY <1>4, BytesOfRecords DEF BytesFit
  <1>8. /\ UNCHANGED <<disk, stored, pc, full, delta, written, returned>> /\ passedOver' = passedOver /\ todo' = todo
        /\ mem' = mem
    BY DEF Hash, Parse, GiveUp
  <1>9. ASSUME GiveUp PROVE JsonlFits'
    <2>1. at' = Nowhere /\ at' \in OffsetReading /\ failed' \subseteq File
      BY <1>5, <1>6, <1>9, JsonlZeros DEF GiveUp
    <2>2. OffsetsFitIn(disk, written, returned, passedOver', mem', JsonlRows, JsonlPaths)
      BY <1>4, <1>8
    <2> QED
      BY <1>3, <1>6, <1>8, <2>1, <2>2, ScanKept
  <1>10. ASSUME at' \in OffsetReading, at'.file = at.file, failed' = failed, ReadsIn(at', d, written, taken, owed)
         PROVE  JsonlFits'
    <2>1. OffsetsFitIn(disk, written, returned, passedOver', mem', JsonlRows, JsonlPaths)
      BY <1>4, <1>8
    <2>2. \E g \in File : /\ at'.file = {g}
                          /\ ReadsIn(at', disk[g], written, Taken(JsonlRows, returned), Settled(JsonlRows, passedOver'))
      BY <1>5, <1>8, <1>10
    <2> QED
      BY <1>3, <1>6, <1>8, <1>10, <2>1, <2>2, ScanKept
  <1>11. /\ at.step # "none" /\ 1 <= at.ver /\ at.ver <= d.ver /\ SliceFits(at, b, ahead)
         /\ IF at.action = "new" THEN at.opts = NoJsonlCursor /\ at.start = 0 /\ UnreadFits(d, taken)
            ELSE OffsetFits(d, ahead, at.opts, taken, owed)
    BY <1>5 DEF ReadsIn
  <1>12. at.start <= at.snap
    BY <1>11 DEF SliceFits
  <1> HIDE DEF d, b, ahead, taken, owed
  <1>13. CASE Hash
    <2> DEFINE pre == SubSeq(b, at.start + 1, at.snap)
    <2>1. CASE GiveUp
      BY <1>9, <2>1
    <2>2. CASE /\ Len(b) >= at.snap
               /\ at' = [at EXCEPT !.step = "parse", !.pre = pre] /\ failed' = failed
      <3>1. pre \in Seq(ByteOf)
        BY <1>6, <1>7, <1>12, <2>2 DEF WellFormed
      <3>2. at.start < at.snap => pre[1] = b[at.start + 1] /\ at.start + 1 \in 1..Len(b)
        BY <1>6, <1>7, <2>2 DEF WellFormed
      <3> HIDE DEF pre
      <3>3. /\ at' \in OffsetReading /\ at'.file = at.file /\ at'.step = "parse" /\ at'.pre = pre /\ at'.start = at.start
            /\ at'.snap = at.snap /\ at'.ver = at.ver /\ at'.action = at.action /\ at'.opts = at.opts
        BY <1>6, <2>2, <3>1 DEF OffsetReading
      <3>4. SliceFits(at', b, ahead)
        <4>1. ASSUME at.start < at.snap
              PROVE  /\ pre[1] \notin ahead
                     /\ \A j \in 1..Len(b) : b[j] = pre[1] => j <= at.start + 1
                     /\ at.snap <= Len(b)
          <5>1. pre[1] \notin ahead
            BY <1>6, <1>7, <3>2, <4>1, AheadIsAhead DEF ahead
          <5>2. \A j \in 1..Len(b) : b[j] = pre[1] => j = at.start + 1
            BY <1>7, <3>2, <4>1, BytesDiffer
          <5>3. at.snap <= Len(b)
            BY <1>6, <1>7, <2>2
          <5> QED
            BY <1>6, <5>1, <5>2, <5>3
        <4> QED
          BY <1>12, <3>3, <4>1 DEF SliceFits
      <3>5. ReadsIn(at', d, written, taken, owed)
        BY <1>11, <3>3, <3>4 DEF ReadsIn, b, ahead
      <3> QED
        BY <1>10, <2>2, <3>3, <3>5
    <2>3. \/ GiveUp
          \/ Len(b) >= at.snap /\ at' = [at EXCEPT !.step = "parse", !.pre = pre] /\ failed' = failed
      BY <1>5, <1>13 DEF Hash, b, d
    <2> QED
      BY <2>1, <2>2, <2>3
  <1>14. CASE Parse
    <2> DEFINE end == IF Len(b) < at.snap THEN Len(b) ELSE at.snap
               limit == CompleteBound(b, at.start, end)
               got == Between(b, at.start, limit)
    <2>1. CASE GiveUp
      BY <1>9, <2>1
    <2>2. CASE at' = [at EXCEPT !.step = "verify", !.got = got, !.bound = limit] /\ failed' = failed
      <3>1. end \in 0..Len(b) /\ end <= at.snap /\ (at.snap <= Len(b) => end = at.snap)
        BY <1>6, <1>7
      <3>2. /\ limit \in Nat /\ got \subseteq Event
            /\ at.start <= end => limit \in at.start..end
            /\ at.start >= end => limit = at.start /\ Between(b, at.start, at.start) = {}
        <4> HIDE DEF end
        <4> QED
          BY <1>6, <1>7, <3>1, BoundFits
      <3>3. at.start = at.snap => limit = at.start /\ got = {}
        BY <1>6, <3>1, <3>2
      <3>4. at.start < at.snap /\ at.snap <= Len(b) => limit \in at.start..at.snap
        BY <1>6, <3>1, <3>2
      <3>5. got = Between(b, at.start, limit)
        OBVIOUS
      <3> HIDE DEF got, limit, end
      <3>6. /\ at' \in OffsetReading /\ at'.file = at.file /\ at'.step = "verify" /\ at'.pre = at.pre /\ at'.start = at.start
            /\ at'.snap = at.snap /\ at'.ver = at.ver /\ at'.action = at.action /\ at'.opts = at.opts
            /\ at'.got = got /\ at'.bound = limit
        BY <1>6, <2>2, <3>2 DEF OffsetReading
      <3>7. SliceFits(at', b, ahead)
        <4>1. at.step = "parse"
          BY <1>14 DEF Parse
        <4>2. ASSUME at.start < at.snap
              PROVE  /\ at.pre[1] \notin ahead
                     /\ \A j \in 1..Len(b) : b[j] = at.pre[1] => j <= at.start + 1
                     /\ SameSlice(at, b) => at.snap <= Len(b)
          BY <1>11, <4>1, <4>2 DEF SliceFits
        <4>3. SameSlice(at', b) <=> SameSlice(at, b)
          BY <3>6 DEF SameSlice
        <4> QED
          BY <1>12, <3>3, <3>4, <3>5, <3>6, <4>2, <4>3 DEF SliceFits
      <3>8. ReadsIn(at', d, written, taken, owed)
        BY <1>11, <3>6, <3>7 DEF ReadsIn, b, ahead
      <3> QED
        BY <1>10, <2>2, <3>6, <3>8
    <2>3. \/ GiveUp
          \/ at' = [at EXCEPT !.step = "verify", !.got = got, !.bound = limit] /\ failed' = failed
      BY <1>5, <1>14 DEF Parse, b, d
    <2> QED
      BY <2>1, <2>2, <2>3
  <1> QED
    BY <1>13, <1>14

\* What is read belongs to the log it is read from, after what was taken of it.
LEMMA VerifyFits ==
    ASSUME JsonlFits, Verify
    PROVE  JsonlFits'
  <1>1. at.step = "verify" /\ at # Nowhere
    BY JsonlZeros DEF Verify
  <1>2. pc = "scan"
    BY <1>1 DEF JsonlFits, LogScanFits
  <1>3. /\ JsonlTypeOK /\ BytesFit /\ CommittedFits
        /\ OffsetsFitIn(disk, written, returned, passedOver, mem, JsonlRows, JsonlPaths)
    BY <1>2 DEF JsonlFits, LogScanFits, OffsetsFit
  <1>4. PICK f \in File : /\ at.file = {f}
                          /\ ReadsIn(at, disk[f], written, Taken(JsonlRows, returned), Settled(JsonlRows, passedOver))
    BY <1>1 DEF JsonlFits, ReadingFits
  <1> DEFINE d == disk[f]
             b == d.bytes
             ahead == Ahead(b, written)
             taken == Taken(JsonlRows, returned)
             owed == Settled(JsonlRows, passedOver)
  <1>5. /\ at \in OffsetReading /\ at.start \in Nat /\ at.snap \in Nat /\ at.pre \in Seq(ByteOf) /\ b \in Seq(ByteOf)
        /\ at.ver \in Nat /\ at.ino \in Nat /\ at.bound \in Nat /\ at.got \subseteq Event /\ at.opts \in OffsetCursor
        /\ written \in Nat /\ mem \in [File -> OffsetCursor] /\ todo \subseteq File /\ failed \subseteq File
        /\ passedOver \subseteq Event /\ JsonlRows \in [Event -> Nat] /\ d \in OffsetLog /\ d.ver \in Nat
        /\ delta \in [Event -> Nat] /\ counted \in [Event -> Nat]
    BY <1>3, JsonlParts DEF JsonlTypeOK
  <1>6. WellFormed(b) /\ Len(b) \in Nat /\ \A i \in 1..Len(b) : b[i][1] <= written
    BY <1>3, BytesOfRecords DEF BytesFit
  <1>7. UNCHANGED <<disk, stored, pc, full, todo, written, returned, passedOver>>
    BY DEF Verify
  <1>8. /\ at.step # "none" /\ 1 <= at.ver /\ at.ver <= d.ver /\ SliceFits(at, b, ahead)
        /\ IF at.action = "new" THEN at.opts = NoJsonlCursor /\ at.start = 0 /\ UnreadFits(d, taken)
           ELSE OffsetFits(d, ahead, at.opts, taken, owed)
    BY <1>4 DEF ReadsIn
  <1> DEFINE c == [ino |-> at.ino, ver |-> at.ver, size |-> at.snap, offset |-> at.bound, anchors |-> Anchors(b, at.bound)]
  <1> HIDE DEF d, b, ahead, taken, owed
  <1>9. CASE GiveUp
    <2>1. at' = Nowhere /\ at' \in OffsetReading /\ failed' \subseteq File /\ mem' = mem /\ delta' = delta
      BY <1>4, <1>5, <1>9, JsonlZeros DEF GiveUp
    <2>2. OffsetsFitIn(disk, written, returned, passedOver', mem', JsonlRows, JsonlPaths)
      BY <1>3, <1>7, <2>1
    <2> QED
      BY <1>2, <1>5, <1>7, <2>1, <2>2, ScanKept
  <1>10. CASE /\ d.there /\ Confirmed(b) /\ Stable(b) /\ mem' = [mem EXCEPT ![f] = c]
              /\ delta' = [e \in Event |-> delta[e] + (IF e \in at.got THEN 1 ELSE 0)]
              /\ at' = Nowhere /\ failed' = failed
    \* What was hashed is still there, at its place.
    <2>1. at.start <= at.snap /\ at.snap <= Len(b)
      BY <1>6, <1>8, <1>10 DEF SliceFits, Stable
    <2>2. at.start < at.snap => SameSlice(at, b)
      <3> SUFFICES ASSUME at.start < at.snap PROVE SameSlice(at, b)
        OBVIOUS
      <3>1. SubSeq(b, at.start + 1, at.snap) = at.pre
        BY <1>10 DEF Stable
      <3>2. SubSeq(b, at.start + 1, at.snap)[1] = b[at.start + 1] /\ at.start + 1 \in 1..Len(b)
        BY <1>5, <1>6, <2>1 DEF WellFormed
      <3> QED
        BY <3>1, <3>2 DEF SameSlice
    <2>3. /\ at.bound \in at.start..at.snap /\ at.got = Between(b, at.start, at.bound)
      <3>1. CASE at.start = at.snap
        <4>1. at.got = {} /\ at.bound = at.start
          BY <1>1, <1>8, <3>1 DEF SliceFits
        <4>2. Between(b, at.start, at.start) = {}
          <5>1. at.start \in 0..Len(b) /\ at.start >= at.start
            BY <1>5, <1>6, <2>1
          <5> QED
            BY <1>5, <1>6, <5>1, BoundFits
        <4> QED
          BY <1>5, <3>1, <4>1, <4>2
      <3>2. CASE at.start < at.snap
        BY <1>1, <1>8, <2>2, <3>2 DEF SliceFits
      <3> QED
        BY <1>5, <2>1, <3>1, <3>2
    <2>4. at.bound \in 0..Len(b) /\ at.start <= at.bound
      BY <1>5, <1>6, <2>1, <2>3
    \* What was taken of the log is before the start, and that is settled.
    <2>5. /\ at.start = 0 \/ IsEnd(b[at.start])
          /\ \A j \in 1..Len(b) : IsEnd(b[j]) /\ b[j][1] \in taken => j <= at.start
          /\ \A j \in 1..Len(b) : IsEnd(b[j]) /\ j <= at.start => b[j][1] \in owed
      <3>1. CASE at.action = "new"
        <4>1. at.start = 0 /\ UnreadFits(d, taken)
          BY <1>8, <3>1
        <4>2. d.there
          BY <1>10
        <4>3. \A j \in 1..Len(b) : IsEnd(b[j]) => b[j][1] \notin taken
          BY <1>6, <4>1, <4>2, HeldRecords DEF UnreadFits, b
        <4>4. \A j \in 1..Len(b) : ~(j <= 0)
          BY <1>6
        <4> QED
          BY <4>1, <4>3, <4>4
      <3>2. CASE at.action # "new"
        <4> DEFINE o == at.opts
                   r == Resolve(b, o)
        <4>1. r = Decision(at.action, at.start)
          BY <1>10, <3>2 DEF Confirmed
        <4>2. r.action = at.action /\ r.start = at.start
          BY <4>1 DEF Decision
        <4>3. OffsetFits(d, ahead, o, taken, owed)
          BY <1>8, <3>2
        <4>4. /\ 1 <= o.ver
              /\ \A j \in 1..Len(b) : IsEnd(b[j]) =>
                    /\ b[j][1] \in taken => j <= o.offset /\ (o.anchors = {} \/ UpTo(b[j][1], o.anchors))
                    /\ UpTo(b[j][1], o.anchors) => b[j][1] \in owed
          BY <4>3 DEF OffsetFits, b
        <4>5. CASE r.action # "skip"
          <5>1. \/ o.anchors = {} /\ o.offset = 0 /\ r.start = 0
                \/ /\ o.anchors # {} /\ r.start \in 1..Len(b) /\ IsEnd(b[r.start])
                   /\ \A j \in 1..Len(b) : IsEnd(b[j]) => (UpTo(b[j][1], o.anchors) <=> j <= r.start)
            BY <1>5, <1>6, <4>5, ResolveMarks
          <5>2. CASE o.anchors = {} /\ o.offset = 0 /\ r.start = 0
            <6>1. \A j \in 1..Len(b) : ~(j <= 0)
              BY <1>6
            <6> QED
              BY <4>2, <4>4, <5>2, <6>1
          <5>3. CASE /\ o.anchors # {} /\ r.start \in 1..Len(b) /\ IsEnd(b[r.start])
                     /\ \A j \in 1..Len(b) : IsEnd(b[j]) => (UpTo(b[j][1], o.anchors) <=> j <= r.start)
            BY <4>2, <4>4, <5>3
          <5> QED
            BY <5>1, <5>2, <5>3
        <4>6. r.action # "skip"
          BY <1>5, <3>2, <4>2 DEF OffsetReading
        <4> QED
          BY <4>5, <4>6
      <3> QED
        BY <3>1, <3>2
    \* What was read comes after the start, and belongs to no other log.
    <2>6. \A e : e \in at.got <=> \E j \in (at.start + 1)..at.bound : IsEnd(b[j]) /\ b[j][1] = e
      <3> SUFFICES ASSUME NEW e PROVE e \in at.got <=> \E j \in (at.start + 1)..at.bound : IsEnd(b[j]) /\ b[j][1] = e
        OBVIOUS
      <3>1. e \in Between(b, at.start, at.bound)
              <=> \E j \in (at.start + 1)..at.bound : IsEnd(b[j]) /\ b[j][1] = e
        <4>1. /\ WellFormed(b) /\ at.start \in Nat /\ at.bound \in 0..Len(b) /\ at.start <= at.bound
              /\ at.start = 0 \/ IsEnd(b[at.start])
          BY <1>5, <1>6, <2>4, <2>5
        <4> QED
          BY <4>1, WholeRecords
      <3> QED
        BY <2>3, <3>1
    <2>7. \A j \in (at.start + 1)..at.bound : j \in 1..Len(b) /\ ~(j <= at.start) /\ j <= at.bound
      BY <1>5, <1>6, <2>4
    <2>8. \A e \in at.got : e \notin taken
      BY <2>5, <2>6, <2>7
    <2>9. /\ cursors' = cursors /\ known' = known /\ counted' = counted /\ pc' = pc /\ full' = full /\ disk' = disk
          /\ todo' = todo /\ written' = written /\ returned' = returned /\ passedOver' = passedOver
      BY <1>7 DEF stored
    <2> DEFINE rows == JsonlRows'
    <2>10. rows \in [Event -> Nat] /\ \A e \in Event : rows[e] = JsonlRows[e] + (IF e \in at.got THEN 1 ELSE 0)
      <3>1. JsonlRows' = [e \in Event |-> delta'[e] + (IF full THEN 0 ELSE counted[e])]
        BY <2>9 DEF JsonlRows
      <3>2. JsonlRows = [e \in Event |-> delta[e] + (IF full THEN 0 ELSE counted[e])]
        BY DEF JsonlRows
      <3>3. \A e \in Event : delta'[e] = delta[e] + (IF e \in at.got THEN 1 ELSE 0) /\ delta[e] \in Nat /\ counted[e] \in Nat
        BY <1>5, <1>10
      <3> QED
        BY <3>1, <3>2, <3>3
    <2>11. JsonlTypeOK'
      <3>1. AnchorCount \in Nat \ {0}
        BY JsonlAssumption
      <3>2. Anchors(b, at.bound) \subseteq Event
        BY <1>6, <2>4, <3>1, AnchorsMark DEF Anchors
      <3>3. c \in OffsetCursor
        BY <1>5, <3>2 DEF OffsetCursor
      <3>4. mem' \in [File -> OffsetCursor] /\ delta' \in [Event -> Nat] /\ at' \in OffsetReading
        BY <1>5, <1>10, <3>3, JsonlZeros
      <3> QED
        BY <1>3, <1>10, <2>9, <3>4 DEF JsonlTypeOK
    <2>12. c \in OffsetCursor /\ c.ver = at.ver /\ c.offset = at.bound /\ c.anchors = Anchors(b, at.bound)
      <3>1. mem'[f] = c /\ mem' \in [File -> OffsetCursor]
        BY <1>5, <1>10, <2>11 DEF JsonlTypeOK
      <3> QED
        BY <3>1
    <2> HIDE DEF c, rows
    \* The records of other logs are not in what was read.
    <2>13. \A g \in File \ {f} : \A j \in 1..Len(disk[g].bytes) : disk[g].bytes[j][1] \notin at.got
      <3> SUFFICES ASSUME NEW g \in File \ {f}, NEW j \in 1..Len(disk[g].bytes), disk[g].bytes[j][1] \in at.got PROVE FALSE
        OBVIOUS
      <3>1. PICK i \in 1..Len(b) : b[i][1] = disk[g].bytes[j][1]
        BY <2>6, <2>7
      <3> QED
        BY <1>3, <3>1 DEF BytesFit, b, d
    <2>14. \A g \in File : \A x \in Ahead(disk[g].bytes, written) : x[1] \in Event /\ x[1] \notin at.got
      <3> SUFFICES ASSUME NEW g \in File, NEW x \in Ahead(disk[g].bytes, written), x[1] \in at.got PROVE FALSE
        BY DEF Ahead, ByteOf
      <3>1. PICK i \in (at.start + 1)..at.bound : IsEnd(b[i]) /\ b[i][1] = x[1]
        BY <2>6
      <3>2. i \in 1..Len(b) /\ b[i][1] \in Nat /\ b[i][1] <= written
        BY <1>6, <2>7, BytesOfRecords
      <3>3. ~(x[1] > written)
        BY <1>5, <3>1, <3>2
      <3>4. /\ disk[g].bytes # <<>> /\ ~IsEnd(disk[g].bytes[Len(disk[g].bytes)])
            /\ x[1] = disk[g].bytes[Len(disk[g].bytes)][1]
        BY <3>3 DEF Ahead
      <3>5. Len(disk[g].bytes) \in 1..Len(disk[g].bytes)
        <4>1. disk[g].bytes \in Seq(ByteOf)
          BY <1>3, JsonlParts
        <4> QED
          BY <3>4, <4>1
      <3>6. g = f
        BY <2>13, <3>4, <3>5
      <3>7. x \in Ahead(b, written)
        BY <3>6 DEF b, d
      <3>8. b[i][1] < x[1]
        BY <1>5, <1>6, <3>1, <3>2, <3>7, AheadIsAhead
      <3> QED
        BY <3>1, <3>2, <3>8
    <2>15. \A e : e \in Taken(rows, returned) => e \in Taken(JsonlRows, returned) \/ e \in at.got
      BY <1>5, <2>10 DEF Taken
    <2>16. \A e : e \in owed \/ e \in at.got => e \in Settled(rows, passedOver)
      <3>1. \A e \in Event : JsonlRows[e] \in Nat
        BY <1>5
      <3>2. \A e \in Event : e \in owed => e \in Settled(rows, passedOver)
        BY <2>10, <3>1 DEF Settled, owed
      <3>3. \A e \in Event : e \in at.got => e \in Settled(rows, passedOver)
        BY <2>10, <3>1 DEF Settled
      <3>4. \A e : e \in owed \/ e \in at.got => e \in Event
        BY <1>5 DEF Settled, owed
      <3> QED
        BY <3>2, <3>3, <3>4
    <2>17. OffsetFits(d, ahead, c, Taken(rows, returned), Settled(rows, passedOver))
      <3>1. \A j \in 1..Len(b) : IsEnd(b[j]) /\ b[j][1] \in Taken(rows, returned) => j <= at.bound
        <4> SUFFICES ASSUME NEW j \in 1..Len(b), IsEnd(b[j]), b[j][1] \in Taken(rows, returned) PROVE j <= at.bound
          OBVIOUS
        <4>1. CASE b[j][1] \in taken
          <5>1. j <= at.start
            BY <2>5, <4>1
          <5> QED
            BY <1>5, <1>6, <2>4, <5>1
        <4>2. CASE b[j][1] \in at.got
          <5>1. PICK i \in (at.start + 1)..at.bound : IsEnd(b[i]) /\ b[i][1] = b[j][1]
            BY <2>6, <4>2
          <5>2. i \in 1..Len(b) /\ i <= at.bound /\ b[i][1] \in Nat
            BY <1>6, <2>7, BytesOfRecords
          <5>3. i = j
            <6>1. i < j => b[i][1] < b[j][1]
              BY <1>6, <5>1, <5>2, EndsAreOrdered
            <6>2. j < i => b[j][1] < b[i][1]
              BY <1>6, <5>1, <5>2, EndsAreOrdered
            <6> QED
              BY <1>6, <5>1, <5>2, <6>1, <6>2
          <5> QED
            BY <5>2, <5>3
        <4> QED
          BY <2>15, <4>1, <4>2 DEF taken
      <3>2. \A j \in 1..Len(b) : IsEnd(b[j]) /\ j <= at.bound => b[j][1] \in Settled(rows, passedOver)
        <4> SUFFICES ASSUME NEW j \in 1..Len(b), IsEnd(b[j]), j <= at.bound PROVE b[j][1] \in Settled(rows, passedOver)
          OBVIOUS
        <4>1. CASE j <= at.start
          BY <2>5, <2>16, <4>1
        <4>2. CASE j > at.start
          <5>1. j \in (at.start + 1)..at.bound
            BY <1>5, <1>6, <4>2
          <5>2. b[j][1] \in at.got
            BY <2>6, <5>1
          <5> QED
            BY <2>16, <5>2
        <4> QED
          BY <1>5, <1>6, <4>1, <4>2
      <3>3. 1 <= c.ver /\ c.ver <= d.ver
        BY <1>8, <2>12
      <3> QED
        BY <1>5, <1>6, <2>4, <2>12, <3>1, <3>2, <3>3, StampFits DEF b, ahead
    <2>18. OffsetsFitIn(disk, written, returned, passedOver, mem', rows, JsonlPaths)
      <3>1. \A g \in File : \A x \in Ahead(disk[g].bytes, written) : rows[x[1]] = 0
        <4> SUFFICES ASSUME NEW g \in File, NEW x \in Ahead(disk[g].bytes, written) PROVE rows[x[1]] = 0
          OBVIOUS
        <4>1. JsonlRows[x[1]] = 0
          BY <1>3 DEF OffsetsFitIn
        <4>2. x[1] \in Event /\ x[1] \notin at.got
          BY <2>14
        <4> QED
          BY <2>10, <4>1, <4>2
      <3>2. \A e \in Event : rows[e] > 1 => e \in returned
        <4> SUFFICES ASSUME NEW e \in Event, rows[e] > 1, e \notin returned PROVE FALSE
          OBVIOUS
        <4>1. JsonlRows[e] \in Nat /\ (JsonlRows[e] > 1 => e \in returned)
          BY <1>3, <1>5 DEF OffsetsFitIn
        <4>2. e \in at.got /\ JsonlRows[e] > 0
          BY <2>10, <4>1
        <4>3. e \in taken
          BY <4>2 DEF taken, Taken
        <4> QED
          BY <2>8, <4>2, <4>3
      <3>3. ASSUME NEW g \in File
            PROVE  IF mem'[g] = NoJsonlCursor THEN g \in JsonlPaths \/ UnreadFits(disk[g], Taken(rows, returned))
                   ELSE OffsetFits(disk[g], Ahead(disk[g].bytes, written), mem'[g], Taken(rows, returned), Settled(rows, passedOver))
        <4>1. CASE g = f
          <5>1. mem'[g] = c
            BY <1>5, <1>10, <4>1
          <5>2. c # NoJsonlCursor
            BY <1>8, <2>12 DEF NoJsonlCursor
          <5> QED
            BY <2>17, <4>1, <5>1, <5>2 DEF d, b, ahead
        <4>2. CASE g # f
          <5>1. mem'[g] = mem[g]
            BY <1>5, <1>10, <4>2
          <5>2. IF mem[g] = NoJsonlCursor THEN g \in JsonlPaths \/ UnreadFits(disk[g], taken)
                ELSE OffsetFits(disk[g], Ahead(disk[g].bytes, written), mem[g], taken, owed)
            BY <1>3 DEF OffsetsFitIn, taken, owed
          <5>3. \A j \in 1..Len(disk[g].bytes) :
                   disk[g].bytes[j][1] \in Taken(rows, returned) => disk[g].bytes[j][1] \in taken
            BY <2>13, <2>15, <4>2 DEF taken
          <5>4. UnreadFits(disk[g], taken) => UnreadFits(disk[g], Taken(rows, returned))
            <6>1. WellFormed(disk[g].bytes)
              BY <1>3 DEF BytesFit
            <6>2. \A e \in Holds(disk[g].bytes) : \E j \in 1..Len(disk[g].bytes) : disk[g].bytes[j][1] = e
              BY <6>1, HeldRecords
            <6> QED
              BY <5>3, <6>2 DEF UnreadFits
          <5>5. OffsetFits(disk[g], Ahead(disk[g].bytes, written), mem[g], taken, owed)
                => OffsetFits(disk[g], Ahead(disk[g].bytes, written), mem[g], Taken(rows, returned), Settled(rows, passedOver))
            BY <2>16, <5>3 DEF OffsetFits
          <5> QED
            BY <5>1, <5>2, <5>4, <5>5
        <4> QED
          BY <4>1, <4>2
      <3> QED
        BY <3>1, <3>2, <3>3 DEF OffsetsFitIn
    <2>19. JsonlPaths' = JsonlPaths
      BY <2>9 DEF JsonlPaths
    <2>20. LogScanFits'
      BY <1>2, <2>9, <2>18, <2>19 DEF LogScanFits, OffsetsFit, rows
    <2>21. BytesFit' /\ CommittedFits'
      BY <1>3, <2>9 DEF BytesFit, CommittedFits, OffsetsFit
    <2>22. ReadingFits'
      BY <1>10 DEF ReadingFits, Nowhere, NoJsonlCursor
    <2> QED
      BY <2>11, <2>20, <2>21, <2>22 DEF JsonlFits
  <1>11. \/ GiveUp
         \/ /\ d.there /\ Confirmed(b) /\ Stable(b) /\ mem' = [mem EXCEPT ![f] = c]
            /\ delta' = [e \in Event |-> delta[e] + (IF e \in at.got THEN 1 ELSE 0)]
            /\ at' = Nowhere /\ failed' = failed
    BY <1>4 DEF Verify, b, d
  <1> QED
    BY <1>9, <1>10, <1>11

LEMMA CommitJsonlFits ==
    ASSUME JsonlFits, CommitJsonl
    PROVE  JsonlFits'
  <1>1. /\ pc = "scan" /\ todo' = todo /\ at = Nowhere /\ at' = at /\ pc' = "idle" /\ delta' = NoCount /\ failed' = {}
        /\ full' = FALSE
        /\ cursors' = [f \in File |-> IF f \in Gone THEN NoJsonlCursor ELSE mem[f]] /\ mem' = cursors'
        /\ known' = (known \cup Valid({f \in File : mem[f] # NoJsonlCursor \/ f \in failed})) \ Gone
        /\ counted' = JsonlRows
        /\ disk' = disk /\ written' = written /\ returned' = returned /\ passedOver' = passedOver
    BY DEF CommitJsonl, JsonlRows
  <1>2. JsonlTypeOK /\ BytesFit
        /\ OffsetsFitIn(disk, written, returned, passedOver, mem, JsonlRows, JsonlPaths)
    BY <1>1 DEF JsonlFits, LogScanFits, OffsetsFit
  <1>3. JsonlRows \in [Event -> Nat] /\ mem \in [File -> OffsetCursor]
    BY <1>2, JsonlParts
  <1>4. cursors' \in [File -> OffsetCursor]
    BY <1>1, <1>3, JsonlZeros
  <1>5. JsonlTypeOK'
    <2>1. known' \subseteq File
      BY <1>1, <1>2 DEF JsonlTypeOK, Valid
    <2> QED
      BY <1>1, <1>2, <1>3, <1>4, <2>1, JsonlZeros DEF JsonlTypeOK
  <1>6. BytesFit'
    BY <1>1, <1>2 DEF BytesFit
  <1>7. OffsetsFitIn(disk, written, returned, passedOver, cursors', JsonlRows, known')
    <2>1. ASSUME NEW f \in File
          PROVE  IF cursors'[f] = NoJsonlCursor THEN f \in known' \/ UnreadFits(disk[f], Taken(JsonlRows, returned))
                 ELSE OffsetFits(disk[f], Ahead(disk[f].bytes, written), cursors'[f], Taken(JsonlRows, returned),
                                 Settled(JsonlRows, passedOver))
      <3>1. cursors'[f] = IF f \in Gone THEN NoJsonlCursor ELSE mem[f]
        BY <1>1
      <3>2. IF mem[f] = NoJsonlCursor THEN f \in JsonlPaths \/ UnreadFits(disk[f], Taken(JsonlRows, returned))
            ELSE OffsetFits(disk[f], Ahead(disk[f].bytes, written), mem[f], Taken(JsonlRows, returned),
                            Settled(JsonlRows, passedOver))
        BY <1>2 DEF OffsetsFitIn
      <3>3. CASE f \in Gone
        <4>1. UnreadFits(disk[f], Taken(JsonlRows, returned))
          BY <3>3 DEF Gone, UnreadFits
        <4> QED
          BY <3>1, <3>3, <4>1
      <3>4. CASE f \notin Gone
        <4>1. f \in JsonlPaths => f \in known'
          BY <1>1, <3>4 DEF JsonlPaths
        <4> QED
          BY <3>1, <3>2, <3>4, <4>1
      <3> QED
        BY <3>3, <3>4
    <2> QED
      BY <1>2, <2>1 DEF OffsetsFitIn
  <1>8. CommittedFits'
    BY <1>1, <1>7 DEF CommittedFits, OffsetsFit
  <1>9. LogScanFits'
    BY <1>1 DEF LogScanFits
  <1>10. ReadingFits'
    BY <1>1 DEF ReadingFits, Nowhere, NoJsonlCursor
  <1> QED
    BY <1>5, <1>6, <1>8, <1>9, <1>10 DEF JsonlFits

LEMMA CrashResetJsonlFits ==
    ASSUME JsonlFits, CrashJsonl \/ ResetJsonl
    PROVE  JsonlFits'
  <1>1. JsonlTypeOK /\ BytesFit /\ CommittedFits
    BY DEF JsonlFits
  <1>2. CASE CrashJsonl
    <2>1. /\ pc' = "idle" /\ mem' = cursors /\ todo' = {} /\ failed' = {} /\ delta' = NoCount /\ at' = Nowhere /\ full' = FALSE
          /\ cursors' = cursors /\ known' = known /\ counted' = counted
          /\ disk' = disk /\ written' = written /\ returned' = returned /\ passedOver' = passedOver
      BY <1>2 DEF CrashJsonl, stored
    <2>2. JsonlTypeOK'
      BY <1>1, <2>1, JsonlZeros DEF JsonlTypeOK
    <2>3. BytesFit' /\ CommittedFits'
      BY <1>1, <2>1 DEF BytesFit, CommittedFits, OffsetsFit
    <2>4. LogScanFits' /\ ReadingFits'
      BY <2>1 DEF LogScanFits, ReadingFits, Nowhere, NoJsonlCursor
    <2> QED
      BY <2>2, <2>3, <2>4 DEF JsonlFits
  <1>3. CASE ResetJsonl
    <2>1. /\ pc = "idle" /\ pc' = pc /\ cursors' = [f \in File |-> NoJsonlCursor] /\ known' = {} /\ counted' = NoCount
          /\ mem' = cursors' /\ returned' = {} /\ full' = full /\ todo' = todo /\ failed' = failed /\ delta' = delta
          /\ at' = at /\ disk' = disk /\ written' = written /\ passedOver' = passedOver
      BY <1>3 DEF ResetJsonl
    <2>2. JsonlTypeOK'
      BY <1>1, <2>1, JsonlZeros DEF JsonlTypeOK
    <2>3. BytesFit'
      BY <1>1, <2>1 DEF BytesFit
    <2>4. CommittedFits'
      <3>1. \A e \in Event : ~(counted'[e] > 1)
        BY <2>1, JsonlZeros
      <3>2. \A f \in File : cursors'[f] = NoJsonlCursor
        BY <2>1
      <3> QED
        BY <3>1, <3>2 DEF CommittedFits
    <2>5. delta = NoCount /\ ~full /\ at = Nowhere
      BY <2>1 DEF JsonlFits, LogScanFits
    <2>6. LogScanFits' /\ ReadingFits'
      BY <2>1, <2>5 DEF LogScanFits, ReadingFits, Nowhere, NoJsonlCursor
    <2> QED
      BY <2>2, <2>3, <2>4, <2>6 DEF JsonlFits
  <1> QED
    BY <1>2, <1>3

LEMMA JsonlStarts ==
    ASSUME JsonlInit
    PROVE  JsonlFits
  <1>1. PICK first \in File, read \in BOOLEAN :
         /\ disk = [f \in File |-> [there |-> TRUE, ino |-> 1, ver |-> 1, bytes |-> IF f = first THEN Record(1) ELSE <<>>]]
         /\ cursors = [f \in File |-> IF f = first /\ read THEN [ino |-> 1, ver |-> 1, size |-> 2, offset |-> 2, anchors |-> {}]
                                      ELSE NoJsonlCursor]
         /\ known = IF read THEN {first} ELSE {}
         /\ counted = [NoCount EXCEPT ![1] = IF read THEN 1 ELSE 0]
    BY Zenon DEF JsonlInit
  <1>2. /\ pc = "idle" /\ full = FALSE /\ mem = cursors /\ todo = {} /\ failed = {} /\ delta = NoCount /\ at = Nowhere
        /\ written = 1 /\ returned = {} /\ passedOver = {}
    BY DEF JsonlInit
  <1> DEFINE b == Record(1)
             c == [ino |-> 1, ver |-> 1, size |-> 2, offset |-> 2, anchors |-> {}]
  <1>3. 1 \in Event /\ Length(1) = 2
    BY JsonlAssumption DEF Event, Length
  <1>4. /\ b \in Seq(ByteOf) /\ Len(b) = 2 /\ b[1] = <<1, 1>> /\ b[2] = <<1, 2>>
    <2>1. b \in Seq(ByteOf) /\ Len(b) = Length(1) /\ \A i \in 1..Length(1) : b[i] = <<1, i>>
      BY <1>3, BytesOfRecord
    <2> HIDE DEF b
    <2>2. \A i \in 1..2 : b[i] = <<1, i>>
      BY <1>3, <2>1
    <2> QED
      BY <1>3, <2>1, <2>2
  <1>5. b[1][1] = 1 /\ b[1][2] = 1 /\ b[2][1] = 1 /\ b[2][2] = 2 /\ IsEnd(b[2]) /\ 1..2 = {1, 2}
    BY <1>3, <1>4 DEF IsEnd
  <1> HIDE DEF b
  <1>6. WellFormed(b)
    <2>1. ASSUME NEW j \in 1..2
          PROVE  /\ b[j][2] <= Length(b[j][1])
                 /\ b[j][2] = 2 => j > 1 /\ b[j - 1] = <<b[j][1], 1>>
      BY <1>3, <1>4, <1>5
    <2>2. ASSUME NEW i \in 1..2, NEW j \in 1..2, i < j
          PROVE  b[i][1] < b[j][1] \/ (b[i][1] = b[j][1] /\ b[j][2] - b[i][2] = j - i)
      <3>1. i = 1 /\ j = 2
        BY <2>2
      <3> QED
        BY <1>5, <3>1
    <2> QED
      BY <1>4, <2>1, <2>2 DEF WellFormed
  <1>7. WellFormed(<<>>)
    BY DEF WellFormed
  <1>8. c \in OffsetCursor /\ c.ver = 1 /\ c.ino = 1 /\ c.offset = 2 /\ c.anchors = {}
    BY DEF OffsetCursor
  <1>9. \A f \in File : /\ disk[f].there = TRUE /\ disk[f].ino = 1 /\ disk[f].ver = 1
                        /\ disk[f].bytes = IF f = first THEN b ELSE <<>>
    BY <1>1 DEF b
  <1> HIDE DEF c
  <1>10. \A f \in File : cursors[f] = IF f = first /\ read THEN c ELSE NoJsonlCursor
    BY <1>1 DEF c
  <1>11. counted \in [Event -> Nat] /\ \A e \in Event : counted[e] = IF e = 1 /\ read THEN 1 ELSE 0
    BY <1>1, <1>3, JsonlZeros
  <1>12. JsonlTypeOK
    <2>1. disk \in [File -> OffsetLog]
      <3>1. \A f \in File : [there |-> TRUE, ino |-> 1, ver |-> 1, bytes |-> IF f = first THEN Record(1) ELSE <<>>] \in OffsetLog
        <4>1. <<>> \in Seq(ByteOf) /\ Record(1) \in Seq(ByteOf)
          BY <1>4 DEF b
        <4> QED
          BY <4>1 DEF OffsetLog
      <3> QED
        BY <1>1, <3>1
    <2>2. cursors \in [File -> OffsetCursor]
      BY <1>1, <1>8, JsonlZeros DEF c
    <2>3. known \subseteq File
      BY <1>1
    <2> QED
      BY <1>2, <1>11, <2>1, <2>2, <2>3, JsonlZeros DEF JsonlTypeOK
  <1>13. BytesFit
    <2>1. \A f \in File : WellFormed(disk[f].bytes) /\ disk[f].ver > 0
      BY <1>6, <1>7, <1>9
    <2>2. \A f \in File : \A i \in 1..Len(disk[f].bytes) : f = first /\ disk[f].bytes[i][1] = 1
      <3> SUFFICES ASSUME NEW f \in File, NEW i \in 1..Len(disk[f].bytes) PROVE f = first /\ disk[f].bytes[i][1] = 1
        OBVIOUS
      <3>1. f = first
        BY <1>9
      <3>2. i \in {1, 2} /\ disk[f].bytes = b
        BY <1>4, <1>5, <1>9, <3>1
      <3> QED
        BY <1>5, <3>1, <3>2
    <2> QED
      BY <1>2, <2>1, <2>2 DEF BytesFit
  <1>14. CommittedFits
    <2>1. \A e \in Event : ~(counted[e] > 1)
      BY <1>11
    <2>2. CASE ~read
      BY <1>10, <2>1, <2>2 DEF CommittedFits
    <2>3. CASE read
      <3>1. \A f \in File : \A x \in Ahead(disk[f].bytes, written) : counted[x[1]] = 0
        <4> SUFFICES ASSUME NEW f \in File, NEW x \in Ahead(disk[f].bytes, written) PROVE counted[x[1]] = 0
          OBVIOUS
        <4>1. x[1] \in Event /\ x[1] \in Nat
          BY Events DEF Ahead, ByteOf
        <4>2. x[1] > 1
          BY <1>2, <1>4, <1>5, <1>9 DEF Ahead
        <4> QED
          BY <1>11, <4>1, <4>2
      <3>2. ASSUME NEW f \in File
            PROVE  IF cursors[f] = NoJsonlCursor THEN f \in known \/ UnreadFits(disk[f], Taken(counted, returned))
                   ELSE OffsetFits(disk[f], Ahead(disk[f].bytes, written), cursors[f], Taken(counted, returned),
                                   Settled(counted, passedOver))
        <4>1. CASE f = first
          <5>1. cursors[f] = c /\ disk[f].bytes = b /\ disk[f].ver = 1
            BY <1>9, <1>10, <2>3, <4>1
          <5>2. 1 \in Settled(counted, passedOver)
            BY <1>3, <1>11, <2>3 DEF Settled
          <5>3. \A j \in 1..Len(b) : j <= c.offset /\ b[j][1] = 1
            BY <1>4, <1>5, <1>8
          <5>4. c # NoJsonlCursor
            BY <1>8 DEF NoJsonlCursor
          <5>5. c.offset <= Len(b) /\ 1 <= c.ver /\ c.ver <= 1
            BY <1>4, <1>8
          <5>6. OffsetFits(disk[f], Ahead(disk[f].bytes, written), c, Taken(counted, returned), Settled(counted, passedOver))
            BY <1>8, <5>1, <5>2, <5>3, <5>5 DEF OffsetFits
          <5> QED
            BY <5>1, <5>4, <5>6
        <4>2. CASE f # first
          <5>1. cursors[f] = NoJsonlCursor /\ disk[f].bytes = <<>>
            BY <1>9, <1>10, <4>2
          <5>2. \A e : e \notin Holds(<<>>)
            BY DEF Holds
          <5> QED
            BY <5>1, <5>2 DEF UnreadFits
        <4> QED
          BY <4>1, <4>2
      <3> QED
        BY <2>1, <3>1, <3>2 DEF CommittedFits, OffsetsFit, OffsetsFitIn
    <2> QED
      BY <2>2, <2>3
  <1>15. LogScanFits /\ ReadingFits
    BY <1>2 DEF LogScanFits, ReadingFits
  <1> QED
    BY <1>12, <1>13, <1>14, <1>15 DEF JsonlFits

LEMMA JsonlStep ==
    ASSUME JsonlFits, [JsonlNext]_jsonlVars
    PROVE  JsonlFits'
  <1>1. CASE UNCHANGED jsonlVars
    BY <1>1 DEF jsonlVars, stored, syncVars, JsonlFits, JsonlTypeOK, BytesFit, CommittedFits, LogScanFits, ReadingFits,
                OffsetsFit, JsonlRows, JsonlPaths, Nowhere, NoJsonlCursor
  <1>2. CASE \E f \in File : WriteRecord(f) \/ Finish(f) \/ Trim(f) \/ Replace(f) \/ Vanish(f) \/ Return(f)
    BY <1>2, LogsChangeFits
  <1>3. CASE \E f \in File : Look(f)
    BY <1>3, LookFits
  <1>4. CASE StartJsonl
    BY <1>4, StartJsonlFits
  <1>5. CASE Hash \/ Parse
    BY <1>5, HashParseFits
  <1>6. CASE Verify
    BY <1>6, VerifyFits
  <1>7. CASE CommitJsonl
    BY <1>7, CommitJsonlFits
  <1>8. CASE CrashJsonl \/ ResetJsonl
    BY <1>8, CrashResetJsonlFits
  <1> QED
    BY <1>1, <1>2, <1>3, <1>4, <1>5, <1>6, <1>7, <1>8 DEF JsonlNext

LEMMA JsonlImplies ==
    ASSUME JsonlFits
    PROVE  NeverCountedTwice /\ NothingBehindCursor
  <1>1. JsonlTypeOK /\ BytesFit /\ CommittedFits
    BY DEF JsonlFits
  <1>2. NeverCountedTwice
    BY <1>1 DEF CommittedFits, OffsetsFit, OffsetsFitIn, NeverCountedTwice
  <1>3. NothingBehindCursor
    <2> SUFFICES ASSUME pc = "idle", NEW f \in File, disk[f].there, cursors[f].ino = disk[f].ino, cursors[f].ver = disk[f].ver,
                        NEW e \in Between(disk[f].bytes, 0, cursors[f].offset)
                 PROVE  counted[e] > 0 \/ e \in passedOver
      BY DEF NothingBehindCursor
    <2>1. WellFormed(disk[f].bytes) /\ disk[f].ver > 0 /\ cursors[f] \in OffsetCursor /\ Len(disk[f].bytes) \in Nat
      BY <1>1, JsonlParts, BytesOfRecords DEF BytesFit
    <2>2. cursors[f] # NoJsonlCursor
      <3>1. cursors[f].ver # 0
        BY <2>1
      <3> QED
        BY <3>1 DEF NoJsonlCursor
    <2>3. OffsetFits(disk[f], Ahead(disk[f].bytes, written), cursors[f], Taken(counted, returned), Settled(counted, passedOver))
      BY <1>1, <2>2 DEF CommittedFits, OffsetsFit, OffsetsFitIn
    <2>4. cursors[f].offset <= Len(disk[f].bytes) /\ cursors[f].offset \in Nat
      BY <2>1, <2>3 DEF OffsetFits, OffsetCursor
    <2>5. PICK j \in 1..cursors[f].offset : IsEnd(disk[f].bytes[j]) /\ disk[f].bytes[j][1] = e
      BY DEF Between
    <2>6. j \in 1..Len(disk[f].bytes) /\ j <= cursors[f].offset
      BY <2>1, <2>4
    <2>7. e \in Settled(counted, passedOver)
      BY <2>3, <2>5, <2>6 DEF OffsetFits
    <2> QED
      BY <2>7 DEF Settled
  <1> QED
    BY <1>2, <1>3

-----------------------------------------------------------------------------
(* Claude: messages counted once over all logs.                            *)

\* How many members of a set come before a number.
Rank(S, i) == Cardinality({j \in S : j < i})

\* A set of numbers that has a member has a lowest one.
LEMMA HasLowest ==
    ASSUME NEW S \in SUBSET Nat, S # {}
    PROVE  \E i \in S : \A j \in S : i <= j
  <1>1. PICK i \in S : \A j \in S : ~(<<j, i>> \in OpToRel(<, Nat))
    BY WFMin, NatLessThanWellFounded, Zenon
  <1>2. \A j \in S : ~(j < i)
    BY <1>1 DEF OpToRel
  <1> QED
    BY <1>2

\* The ranks of a finite set are the numbers below its size, each once.
LEMMA RanksDiffer ==
    ASSUME NEW S \in SUBSET Nat, IsFiniteSet(S), NEW i \in S
    PROVE  /\ Rank(S, i) \in 0..(Cardinality(S) - 1)
           /\ \A j \in S : Rank(S, j) = Rank(S, i) => j = i
  <1> DEFINE Before(n) == {j \in S : j < n}
  <1>1. \A n \in S : IsFiniteSet(Before(n)) /\ Cardinality(Before(n)) \in Nat
    BY FS_Subset, FS_CardinalityType
  <1>2. Cardinality(S) \in Nat
    BY FS_CardinalityType
  <1>3. ASSUME NEW n \in S PROVE Cardinality(Before(n)) < Cardinality(S)
    <2>1. Before(n) \subseteq S /\ Before(n) # S
      OBVIOUS
    <2>2. Cardinality(Before(n)) <= Cardinality(S) /\ (Cardinality(Before(n)) = Cardinality(S) => Before(n) = S)
      BY <2>1, FS_Subset
    <2> QED
      BY <1>1, <1>2, <2>1, <2>2
  <1>4. ASSUME NEW m \in S, NEW n \in S, m < n PROVE Cardinality(Before(m)) < Cardinality(Before(n))
    <2>0. m \in Nat /\ n \in Nat /\ \A j \in S : j \in Nat
      OBVIOUS
    <2>3. \A j \in S : j < m => j < n
      BY <1>4, <2>0
    <2>4. ~(m < m)
      BY <2>0
    <2>1. Before(m) \subseteq Before(n) /\ m \in Before(n) /\ m \notin Before(m)
      BY <1>4, <2>3, <2>4, Zenon
    <2>2. /\ Cardinality(Before(m)) <= Cardinality(Before(n))
          /\ Cardinality(Before(m)) = Cardinality(Before(n)) => Before(m) = Before(n)
      BY <1>1, <2>1, FS_Subset
    <2> QED
      BY <1>1, <2>1, <2>2
  <1>5. \A n \in S : Rank(S, n) = Cardinality(Before(n))
    BY DEF Rank
  <1> HIDE DEF Before
  <1>6. Rank(S, i) \in 0..(Cardinality(S) - 1)
    BY <1>1, <1>2, <1>3, <1>5
  <1>7. ASSUME NEW j \in S, Rank(S, j) = Rank(S, i) PROVE j = i
    BY <1>1, <1>4, <1>5, <1>7
  <1> QED
    BY <1>6, <1>7

LEMMA RanksReached ==
    ASSUME NEW S \in SUBSET Nat, IsFiniteSet(S), NEW n \in 1..Cardinality(S)
    PROVE  \E i \in S : Rank(S, i) = n - 1
  <1> DEFINE Missed == {m \in 1..Cardinality(S) : ~\E i \in S : Rank(S, i) = m - 1}
  <1>1. Cardinality(S) \in Nat
    BY FS_CardinalityType
  <1>2. SUFFICES ASSUME Missed # {} PROVE FALSE
    OBVIOUS
  <1>3. PICK m \in Missed : \A k \in Missed : m <= k
    <2>1. Missed \in SUBSET Nat
      BY <1>1
    <2> HIDE DEF Missed
    <2> QED
      BY <1>2, <2>1, HasLowest
  <1>4. m \in 1..Cardinality(S) /\ ~\E i \in S : Rank(S, i) = m - 1
    OBVIOUS
  <1>5. CASE m = 1
    <2>1. S # {}
      BY <1>1, <1>4, FS_EmptySet
    <2>2. PICK i \in S : \A j \in S : i <= j
      BY <2>1, HasLowest
    <2>3. {j \in S : j < i} = {}
      <3>1. \A j \in S : j \in Nat /\ i <= j /\ i \in Nat
        BY <2>2
      <3>2. \A j \in S : ~(j < i)
        BY <3>1
      <3> QED
        BY <3>2, Zenon
    <2>4. Rank(S, i) = 0
      BY <2>3, FS_EmptySet DEF Rank
    <2> QED
      BY <1>4, <1>5, <2>4
  <1>6. CASE m > 1
    <2>1. m - 1 \in 1..Cardinality(S) /\ ~(m <= m - 1)
      BY <1>1, <1>4, <1>6
    <2>2. m - 1 \notin Missed
      <3> HIDE DEF Missed
      <3> QED
        BY <1>3, <2>1
    <2>3. PICK i \in S : Rank(S, i) = (m - 1) - 1
      BY <2>1, <2>2
    <2> DEFINE Upto == {j \in S : j <= i}
               After == {j \in S : i < j}
               Below == {j \in S : j < i}
    <2>0. \A j \in S : j \in Nat
      OBVIOUS
    <2>4. Upto = Below \cup {i} /\ i \notin Below /\ IsFiniteSet(Below)
      <3>1. IsFiniteSet(Below)
        BY FS_Subset
      <3>2. i \in Nat /\ i \in S
        BY <2>0, <2>3
      <3>3. \A j \in S : j <= i <=> j < i \/ j = i
        BY <2>0, <3>2
      <3>4. ~(i < i)
        BY <3>2
      <3> QED
        BY <3>1, <3>2, <3>3, <3>4, Zenon
    <2>5. Cardinality(Upto) = m - 1
      <3>1. Cardinality(Below) = m - 2
        BY <1>4, <2>3 DEF Rank
      <3> HIDE DEF Below, Upto
      <3>2. Cardinality(Below \cup {i}) = Cardinality(Below) + 1
        BY <2>4, FS_AddElement
      <3> QED
        BY <1>4, <2>4, <3>1, <3>2
    <2>6. After # {}
      <3> SUFFICES ASSUME After = {} PROVE FALSE
        OBVIOUS
      <3>1. Upto = S
        <4>1. \A j \in S : ~(i < j)
          OBVIOUS
        <4>2. \A j \in S : j <= i
          BY <2>0, <2>3, <4>1
        <4> QED
          BY <4>2
      <3> HIDE DEF Upto
      <3> QED
        BY <1>1, <1>4, <2>5, <3>1
    <2>7. PICK k \in After : \A j \in After : k <= j
      <3>1. After \in SUBSET Nat
        OBVIOUS
      <3> HIDE DEF After
      <3> QED
        BY <2>6, <3>1, HasLowest
    <2>8. k \in S /\ {j \in S : j < k} = Upto
      <3>1. k \in S /\ i < k /\ \A j \in S : i < j => k <= j
        BY <2>7
      <3>2. \A j \in S : j < k <=> j <= i
        BY <2>0, <2>3, <3>1
      <3> QED
        BY <3>1, <3>2
    <2>9. Rank(S, k) = m - 1
      BY <2>5, <2>8 DEF Rank
    <2> QED
      BY <1>4, <2>8, <2>9
  <1> QED
    BY <1>4, <1>5, <1>6

\* Who is chosen by rank is a member, and every member is chosen for one.
LEMMA ByRank ==
    ASSUME NEW S \in SUBSET Nat, IsFiniteSet(S)
    PROVE  /\ \A n \in 1..Cardinality(S) :
                 (CHOOSE i \in S : Cardinality({j \in S : j < i}) = n - 1) \in S
           /\ \A i \in S : \E n \in 1..Cardinality(S) :
                 i = CHOOSE k \in S : Cardinality({j \in S : j < k}) = n - 1
  <1>1. ASSUME NEW n \in 1..Cardinality(S)
        PROVE  (CHOOSE i \in S : Cardinality({j \in S : j < i}) = n - 1) \in S
    <2>1. \E i \in S : Cardinality({j \in S : j < i}) = n - 1
      BY RanksReached DEF Rank
    <2> QED
      BY <2>1
  <1>2. ASSUME NEW i \in S
        PROVE  \E n \in 1..Cardinality(S) : i = CHOOSE k \in S : Cardinality({j \in S : j < k}) = n - 1
    <2> DEFINE n == Rank(S, i) + 1
    <2>1. n \in 1..Cardinality(S) /\ n - 1 = Rank(S, i)
      BY RanksDiffer, FS_CardinalityType
    <2>2. \A k \in S : Cardinality({j \in S : j < k}) = n - 1 <=> k = i
      BY <2>1, RanksDiffer DEF Rank
    <2> HIDE DEF n
    <2>3. i = CHOOSE k \in S : Cardinality({j \in S : j < k}) = n - 1
      BY <2>2
    <2> QED
      BY <2>1, <2>3
  <1> QED
    BY <1>1, <1>2

ClaudeLine == [id : MessageId, zero : BOOLEAN]
LogFile == [ino : Nat, lines : Seq(ClaudeLine)]
ClaudeCursor == [ino : Nat, offset : Nat, ring : Seq(MessageId), legacy : BOOLEAN]

ClaudeTypeOK ==
    /\ claudeLog \in [Log -> LogFile]
    /\ claudeSaved \in [Log -> ClaudeCursor] /\ claudeCur \in [Log -> ClaudeCursor]
    /\ claudeRows \in [MessageId -> Nat] /\ deltas \in [MessageId -> Nat]
    /\ claudePhase \in {"idle", "scan"} /\ claudeFull \in BOOLEAN
    /\ seen \subseteq MessageId /\ left \subseteq Log /\ forgotten \subseteq MessageId

\* What the rows would be if the sync committed now.
ClaudeCounts(m) == deltas[m] + (IF claudeFull THEN 0 ELSE claudeRows[m])

\* A cursor is behind lines of the log it was made for, or of a log that is gone.
BehindIn(c, file, tallied) ==
    /\ c.ino = 0 => c.offset = 0
    /\ file.ino = 0 \/ c.ino <= file.ino
    /\ file.ino = c.ino => /\ c.offset <= Len(file.lines)
                           /\ \A i \in 1..c.offset : file.lines[i].zero \/ file.lines[i].id \in tallied
    /\ Ids(c.ring) \subseteq tallied

Had == {m \in MessageId : claudeRows[m] > 0}
Has == {m \in MessageId : ClaudeCounts(m) > 0}

CursorsAreBehind ==
    \A f \in Log : BehindIn(claudeSaved[f], claudeLog[f], Had) /\ BehindIn(claudeCur[f], claudeLog[f], Has)

\* What is counted is in a ring, unless no ring says what is.
ClaudeRingsFit ==
    \A m \in MessageId \ forgotten : claudeRows[m] > 0 =>
        \/ m \in Remembered(claudeSaved)
        \/ \A f \in Log : claudeSaved[f] = NoClaudeCursor
        \/ \E f \in PresentLogs : claudeSaved[f].legacy

ClaudeScanFits ==
    /\ claudePhase = "idle" => deltas = NoMessages /\ ~claudeFull
    /\ claudePhase = "scan" =>
          /\ \A m \in MessageId : deltas[m] <= 1 /\ (deltas[m] > 0 => m \in seen)
          /\ seen \subseteq Has
          /\ claudeFull => /\ \A f \in Log : claudeSaved[f] = NoClaudeCursor
                           /\ \A f \in left : claudeCur[f] = NoClaudeCursor
          /\ ~claudeFull => /\ \E f \in Log : claudeSaved[f] # NoClaudeCursor
                            /\ \A f \in PresentLogs : ~claudeSaved[f].legacy
                            /\ Remembered(claudeSaved) \subseteq seen
                            /\ \A m \in MessageId : deltas[m] > 0 /\ claudeRows[m] > 0 => m \in forgotten

ClaudeFits == ClaudeTypeOK /\ CountedOnce /\ CursorsAreBehind /\ ClaudeRingsFit /\ ClaudeScanFits

\* The ids a parse emits are new, and of each line with usage the id is
\* emitted or known.
LEMMA EmittedIds ==
    ASSUME NEW lines \in Seq(ClaudeLine), NEW mark \in Nat, NEW before \in SUBSET MessageId
    PROVE  /\ Emitted(lines, mark, before) \in Seq(MessageId)
           /\ Ids(Emitted(lines, mark, before)) \cap before = {}
           /\ \A i \in (mark + 1)..Len(lines) :
                 \/ lines[i].zero \/ lines[i].id \in before
                 \/ lines[i].id \in Ids(Emitted(lines, mark, before))
  <1> DEFINE S == {i \in (mark + 1)..Len(lines) : Emits(lines, mark + 1, i, before)}
             spot(n) == CHOOSE i \in S : Cardinality({j \in S : j < i}) = n - 1
             emitted == [n \in 1..Cardinality(S) |-> lines[spot(n)].id]
  <1>1. Emitted(lines, mark, before) = emitted
    BY DEF Emitted
  <1>2. S \in SUBSET Nat /\ S \subseteq 1..Len(lines)
    BY LenProperties
  <1>3. IsFiniteSet(S) /\ Cardinality(S) \in Nat
    <2> HIDE DEF S
    <2>1. IsFiniteSet(1..Len(lines))
      BY FS_Interval, LenProperties
    <2> QED
      BY <1>2, <2>1, FS_Subset, FS_CardinalityType
  <1>4. \A i \in 1..Len(lines) : lines[i] \in ClaudeLine
    BY ElementOfSeq
  <1>5. \A i \in S : lines[i].id \in MessageId \ before
    BY <1>2, <1>4 DEF Emits, ClaudeLine
  <1>6. /\ \A n \in 1..Cardinality(S) : spot(n) \in S
        /\ \A i \in S : \E n \in 1..Cardinality(S) : i = spot(n)
    <2> HIDE DEF S
    <2> QED
      BY <1>2, <1>3, ByRank
  <1>7. ASSUME NEW i \in (mark + 1)..Len(lines), ~lines[i].zero, lines[i].id \notin before
        PROVE  \E k \in S : lines[k].id = lines[i].id
    <2> DEFINE Same == {k \in (mark + 1)..Len(lines) : ~lines[k].zero /\ lines[k].id = lines[i].id}
    <2>1. i \in Same /\ Same \in SUBSET Nat
      BY <1>7, LenProperties
    <2>2. PICK k \in Same : \A j \in Same : k <= j
      <3> HIDE DEF Same
      <3> QED
        BY <2>1, HasLowest
    <2>3. k \in (mark + 1)..Len(lines) /\ ~lines[k].zero /\ lines[k].id = lines[i].id
      OBVIOUS
    <2>4. \A j \in (mark + 1)..(k - 1) : j \notin Same
      <3> HIDE DEF Same
      <3> QED
        BY <2>2, <2>3, LenProperties
    <2>5. \A j \in (mark + 1)..(k - 1) : j \in (mark + 1)..Len(lines)
      BY <2>3, LenProperties
    <2>6. Emits(lines, mark + 1, k, before)
      BY <1>7, <2>3, <2>4, <2>5 DEF Emits
    <2> QED
      BY <2>3, <2>6
  <1> HIDE DEF S, spot
  <1>8. emitted \in Seq(MessageId) /\ DOMAIN emitted = 1..Cardinality(S)
    BY <1>3, <1>5, <1>6
  <1>9. \A n \in 1..Cardinality(S) : emitted[n] = lines[spot(n)].id
    OBVIOUS
  <1> HIDE DEF emitted
  <1>10. Ids(emitted) \cap before = {}
    BY <1>5, <1>6, <1>8, <1>9 DEF Ids
  <1>11. \A k \in S : lines[k].id \in Ids(emitted)
    BY <1>6, <1>8, <1>9 DEF Ids
  <1> QED
    BY <1>1, <1>7, <1>8, <1>10, <1>11

\* A ring keeps some of what was in it and of what is new.
LEMMA MergedIds ==
    ASSUME NEW prior \in Seq(MessageId), NEW next \in Seq(MessageId)
    PROVE  /\ MergeBounded(prior, next) \in Seq(MessageId)
           /\ Ids(MergeBounded(prior, next)) \subseteq Ids(prior) \cup Ids(next)
  <1> DEFINE all == prior \o next
             last == {i \in DOMAIN all : \A j \in (i + 1)..Len(all) : all[j] # all[i]}
             S == {i \in last : Cardinality({j \in last : j > i}) < Cap}
             spot(n) == CHOOSE i \in S : Cardinality({j \in S : j < i}) = n - 1
             ring == [n \in 1..Cardinality(S) |-> all[spot(n)]]
  <1>1. MergeBounded(prior, next) = ring
    BY DEF MergeBounded
  <1>2. all \in Seq(MessageId) /\ Len(all) \in Nat /\ DOMAIN all = 1..Len(all)
    OBVIOUS
  <1>3. S \in SUBSET Nat /\ S \subseteq 1..Len(all)
    <2> HIDE DEF all
    <2> QED
      BY <1>2
  <1>4. \A i \in DOMAIN all : all[i] \in Ids(prior) \cup Ids(next)
    BY ConcatProperties, LenProperties DEF Ids
  <1>5. Ids(prior) \cup Ids(next) \subseteq MessageId
    BY ElementOfSeq DEF Ids
  <1> HIDE DEF all, S
  <1>6. IsFiniteSet(S) /\ Cardinality(S) \in Nat
    <2>1. IsFiniteSet(1..Len(all))
      BY <1>2, FS_Interval
    <2> QED
      BY <1>3, <2>1, FS_Subset, FS_CardinalityType
  <1>7. \A n \in 1..Cardinality(S) : spot(n) \in S
    BY <1>3, <1>6, ByRank
  <1> HIDE DEF spot
  <1>8. /\ DOMAIN ring = 1..Cardinality(S)
        /\ \A n \in 1..Cardinality(S) : ring[n] = all[spot(n)] /\ all[spot(n)] \in Ids(prior) \cup Ids(next)
    BY <1>2, <1>3, <1>4, <1>7
  <1>9. ring \in Seq(MessageId)
    BY <1>5, <1>6, <1>8
  <1> HIDE DEF ring
  <1>10. Ids(ring) \subseteq Ids(prior) \cup Ids(next)
    BY <1>8 DEF Ids
  <1> QED
    BY <1>1, <1>9, <1>10

\* A log that grows, goes or becomes another leaves its cursor behind.
LEMMA BehindStays ==
    ASSUME NEW c \in ClaudeCursor, NEW file \in LogFile, NEW new \in LogFile, NEW A, NEW B, A \subseteq B,
           BehindIn(c, file, A),
           \/ new.ino = 0
           \/ file.ino > 0 /\ new.ino > file.ino
           \/ /\ new.ino = file.ino /\ Len(file.lines) <= Len(new.lines)
              /\ \A i \in 1..Len(file.lines) : new.lines[i] = file.lines[i]
    PROVE  BehindIn(c, new, B)
  <1>1. c.ino \in Nat /\ c.offset \in Nat /\ file.ino \in Nat /\ new.ino \in Nat
    BY DEF ClaudeCursor, LogFile
  <1>2. Len(file.lines) \in Nat /\ Len(new.lines) \in Nat
    BY LenProperties DEF LogFile
  <1>3. new.ino = 0 \/ c.ino <= new.ino
    BY <1>1 DEF BehindIn
  <1>4. ASSUME new.ino = c.ino
        PROVE  /\ c.offset <= Len(new.lines)
               /\ \A i \in 1..c.offset : new.lines[i].zero \/ new.lines[i].id \in B
    <2>1. CASE c.ino = 0 \/ new.ino # file.ino
      <3>1. c.offset = 0
        BY <1>1, <1>4, <2>1 DEF BehindIn
      <3> QED
        BY <1>2, <3>1
    <2>2. CASE c.ino # 0 /\ new.ino = file.ino
      <3>1. /\ file.ino = c.ino /\ Len(file.lines) <= Len(new.lines)
            /\ \A i \in 1..Len(file.lines) : new.lines[i] = file.lines[i]
        BY <1>1, <1>4, <2>2
      <3>2. /\ c.offset <= Len(file.lines)
            /\ \A i \in 1..c.offset : file.lines[i].zero \/ file.lines[i].id \in B
        BY <3>1 DEF BehindIn
      <3> QED
        BY <1>1, <1>2, <3>1, <3>2
    <2> QED
      BY <2>1, <2>2
  <1> QED
    BY <1>3, <1>4 DEF BehindIn

LEMMA NoCursorBehind ==
    ASSUME NEW file \in LogFile, NEW A
    PROVE  BehindIn(NoClaudeCursor, file, A) /\ NoClaudeCursor \in ClaudeCursor
  <1>1. Ids(NoClaudeCursor.ring) = {}
    BY DEF NoClaudeCursor, Ids
  <1>2. Len(file.lines) \in Nat /\ file.ino \in Nat
    BY LenProperties DEF LogFile
  <1> QED
    BY <1>1, <1>2 DEF BehindIn, NoClaudeCursor, ClaudeCursor

\* Claude Code writes a line, or a log is deleted or becomes another.
LEMMA ClaudeLogsFit ==
    ASSUME ClaudeFits, NEW f \in Log, WriteLine(f) \/ Delete(f) \/ Rotate(f)
    PROVE  ClaudeFits'
  <1> USE DEF ClaudeFits
  <1>1. /\ UNCHANGED <<claudeSaved, claudeRows, claudePhase, claudeFull, claudeCur, seen, left, deltas>>
        /\ forgotten \subseteq forgotten'
        /\ forgotten' \subseteq forgotten \cup MessageId
    BY DEF WriteLine, Delete, Rotate
  <1>2. PICK new : /\ new \in LogFile /\ claudeLog' = [claudeLog EXCEPT ![f] = new]
                   /\ \/ new.ino = 0
                      \/ claudeLog[f].ino > 0 /\ new.ino > claudeLog[f].ino
                      \/ /\ new.ino = claudeLog[f].ino /\ Len(claudeLog[f].lines) <= Len(new.lines)
                         /\ \A i \in 1..Len(claudeLog[f].lines) : new.lines[i] = claudeLog[f].lines[i]
    <2> DEFINE old == claudeLog[f]
    <2>0. old \in LogFile /\ old.ino \in Nat /\ old.lines \in Seq(ClaudeLine) /\ Len(old.lines) \in Nat
      BY LenProperties DEF ClaudeTypeOK, LogFile
    <2>1. ASSUME NEW m \in MessageId, NEW zero \in BOOLEAN,
                 claudeLog' = [claudeLog EXCEPT ![f].lines = Append(@, [id |-> m, zero |-> zero])]
          PROVE  \E new \in LogFile :
                    /\ claudeLog' = [claudeLog EXCEPT ![f] = new]
                    /\ new.ino = old.ino /\ Len(old.lines) <= Len(new.lines)
                    /\ \A i \in 1..Len(old.lines) : new.lines[i] = old.lines[i]
      <3> DEFINE line == [id |-> m, zero |-> zero]
                 new == [old EXCEPT !.lines = Append(old.lines, line)]
      <3>1. line \in ClaudeLine
        BY DEF ClaudeLine
      <3> HIDE DEF line
      <3>2. /\ Append(old.lines, line) \in Seq(ClaudeLine)
            /\ Len(Append(old.lines, line)) = Len(old.lines) + 1
            /\ \A i \in 1..Len(old.lines) : Append(old.lines, line)[i] = old.lines[i]
        BY <2>0, <3>1, AppendProperties
      <3>3. /\ new \in LogFile /\ new.ino = old.ino /\ new.lines = Append(old.lines, line)
        BY <2>0, <3>2 DEF LogFile
      <3>4. claudeLog' = [claudeLog EXCEPT ![f] = new]
        BY <2>1 DEF line
      <3>5. /\ new.ino = old.ino /\ Len(old.lines) <= Len(new.lines)
            /\ \A i \in 1..Len(old.lines) : new.lines[i] = old.lines[i]
        <4> HIDE DEF new, old
        <4> QED
          BY <2>0, <3>2, <3>3
      <3> QED
        BY <3>3, <3>4, <3>5, Zenon
    <2>2. ASSUME old.ino > 0, NEW lines \in {old.lines, <<>>},
                 claudeLog' = [claudeLog EXCEPT ![f] = [ino |-> @.ino + 1, lines |-> lines]]
          PROVE  \E new \in LogFile :
                    claudeLog' = [claudeLog EXCEPT ![f] = new] /\ new.ino > old.ino
      <3> DEFINE new == [ino |-> old.ino + 1, lines |-> lines]
      <3>1. lines \in Seq(ClaudeLine)
        <4>1. <<>> \in Seq(ClaudeLine)
          OBVIOUS
        <4>2. lines = old.lines \/ lines = <<>>
          BY <2>2
        <4> QED
          BY <2>0, <4>1, <4>2
      <3>2. new \in LogFile /\ new.ino > old.ino
        BY <2>0, <3>1 DEF LogFile
      <3>3. claudeLog' = [claudeLog EXCEPT ![f] = new]
        BY <2>2
      <3> QED
        BY <3>2, <3>3, Zenon
    <2>3. ASSUME claudeLog' = [claudeLog EXCEPT ![f] = [ino |-> 0, lines |-> <<>>]]
          PROVE  \E new \in LogFile : claudeLog' = [claudeLog EXCEPT ![f] = new] /\ new.ino = 0
      <3>1. [ino |-> 0, lines |-> <<>>] \in LogFile
        BY DEF LogFile
      <3> QED
        BY <2>3, <3>1
    <2>4. CASE WriteLine(f)
      BY <2>1, <2>4 DEF WriteLine
    <2>5. CASE Delete(f)
      BY <2>3, <2>5 DEF Delete
    <2>6. CASE Rotate(f)
      BY <2>2, <2>6 DEF Rotate
    <2> QED
      BY <2>4, <2>5, <2>6
  <1>3. ClaudeTypeOK'
    BY <1>1, <1>2 DEF ClaudeTypeOK
  <1>4. CountedOnce'
    BY <1>1 DEF CountedOnce
  <1>5. CursorsAreBehind'
    <2>1. Had' = Had /\ Has' = Has
      BY <1>1 DEF Had, Has, ClaudeCounts
    <2> SUFFICES ASSUME NEW g \in Log
                 PROVE  BehindIn(claudeSaved[g], claudeLog'[g], Had) /\ BehindIn(claudeCur[g], claudeLog'[g], Has)
      BY <1>1, <2>1 DEF CursorsAreBehind
    <2>2. /\ BehindIn(claudeSaved[g], claudeLog[g], Had) /\ BehindIn(claudeCur[g], claudeLog[g], Has)
          /\ claudeSaved[g] \in ClaudeCursor /\ claudeCur[g] \in ClaudeCursor
          /\ claudeLog[g] \in LogFile /\ claudeLog'[g] = IF g = f THEN new ELSE claudeLog[g]
      BY <1>2 DEF CursorsAreBehind, ClaudeTypeOK
    <2>3. CASE g = f
      BY <1>2, <2>2, <2>3, BehindStays
    <2> QED
      BY <2>2, <2>3
  <1>6. ASSUME claudeLog[f].ino > 0, claudeLog'[f].ino = 0, claudeSaved[f].legacy
        PROVE  forgotten' = forgotten \cup {m \in MessageId : claudeRows[m] > 0}
    <2>1. CASE Delete(f)
      BY <1>6, <2>1 DEF Delete
    <2>2. CASE WriteLine(f)
      BY <1>6, <2>2 DEF WriteLine, ClaudeTypeOK, LogFile
    <2>3. CASE Rotate(f)
      BY <1>6, <2>3 DEF Rotate, ClaudeTypeOK, LogFile
    <2> QED
      BY <2>1, <2>2, <2>3
  <1>7. /\ \A g \in Log \ {f} : claudeLog'[g] = claudeLog[g]
        /\ claudeLog[f].ino \in Nat /\ claudeLog'[f].ino \in Nat
        /\ claudeLog[f].ino > 0
    BY <1>2 DEF ClaudeTypeOK, LogFile, WriteLine, Delete, Rotate
  <1>8. PresentLogs' = PresentLogs \/ (PresentLogs' = PresentLogs \ {f} /\ claudeLog'[f].ino = 0)
    BY <1>7 DEF PresentLogs
  <1>9. ClaudeRingsFit'
    <2> SUFFICES ASSUME NEW m \in MessageId \ forgotten', claudeRows[m] > 0,
                        m \notin Remembered(claudeSaved), ~\A g \in Log : claudeSaved[g] = NoClaudeCursor
                 PROVE  \E g \in PresentLogs' : claudeSaved[g].legacy
      BY <1>1 DEF ClaudeRingsFit, Remembered
    <2>1. PICK g \in PresentLogs : claudeSaved[g].legacy
      BY <1>1 DEF ClaudeRingsFit
    <2> QED
      BY <1>6, <1>7, <1>8, <2>1 DEF PresentLogs
  <1>10. ClaudeScanFits'
    <2>1. PresentLogs' \subseteq PresentLogs
      BY <1>8
    <2>2. Has' = Has /\ Remembered(claudeSaved)' = Remembered(claudeSaved)
      BY <1>1 DEF Has, ClaudeCounts, Remembered
    <2> QED
      BY <1>1, <2>1, <2>2 DEF ClaudeScanFits
  <1> QED
    BY <1>3, <1>4, <1>5, <1>9, <1>10

\* All cursors go, and a scan starts from nothing.
LEMMA RestartClaudeFits == ASSUME ClaudeFits, RestartClaude PROVE ClaudeFits'
  <1> USE DEF ClaudeFits
  <1>1. /\ \A f \in Log : claudeSaved'[f] = NoClaudeCursor /\ claudeCur'[f] = NoClaudeCursor
        /\ claudeSaved' \in [Log -> ClaudeCursor] /\ claudeCur' \in [Log -> ClaudeCursor]
        /\ claudeFull' = TRUE /\ claudePhase' = "scan" /\ deltas' = NoMessages
        /\ seen' = Remembered(claudeSaved') /\ left' = PresentLogs
        /\ UNCHANGED <<claudeLog, claudeRows, claudeMishaps, forgotten>>
    <2>1. NoClaudeCursor \in ClaudeCursor
      BY DEF NoClaudeCursor, ClaudeCursor
    <2> QED
      BY <2>1 DEF RestartClaude, Enter, Preload
  <1>2. seen' = {}
    <2>1. \A f \in Log : Ids(claudeSaved'[f].ring) = {}
      BY <1>1 DEF NoClaudeCursor, Ids
    <2> QED
      BY <1>1, <2>1 DEF Remembered
  <1>3. \A m \in MessageId : deltas'[m] = 0
    BY <1>1 DEF NoMessages
  <1>4. ClaudeTypeOK'
    <2>1. deltas' \in [MessageId -> Nat]
      BY <1>1 DEF NoMessages
    <2>2. left' \subseteq Log
      BY <1>1 DEF PresentLogs
    <2>3. seen' \subseteq MessageId /\ claudeFull' \in BOOLEAN /\ claudePhase' \in {"idle", "scan"}
      BY <1>1, <1>2
    <2> QED
      BY <1>1, <2>1, <2>2, <2>3 DEF ClaudeTypeOK
  <1>5. CountedOnce'
    BY <1>1 DEF CountedOnce
  <1>6. CursorsAreBehind'
    BY <1>1, NoCursorBehind DEF CursorsAreBehind, ClaudeTypeOK
  <1>7. ClaudeRingsFit'
    BY <1>1 DEF ClaudeRingsFit
  <1>8. ClaudeScanFits'
    <2>1. claudeFull' /\ claudePhase' = "scan"
      BY <1>1
    <2>2. \A f \in left' : claudeCur'[f] = NoClaudeCursor
      BY <1>1 DEF PresentLogs
    <2> QED
      BY <1>1, <1>2, <1>3, <2>1, <2>2 DEF ClaudeScanFits
  <1> QED
    BY <1>4, <1>5, <1>6, <1>7, <1>8

LEMMA StartClaudeFits == ASSUME ClaudeFits, StartClaude PROVE ClaudeFits'
  <1> USE DEF ClaudeFits
  <1>1. CASE RestartClaude
    BY <1>1, RestartClaudeFits
  <1>2. CASE ~RestartClaude
    <2>1. /\ claudePhase = "idle" /\ claudePhase' = "scan" /\ claudeCur' = claudeSaved /\ claudeSaved' = claudeSaved
          /\ seen' = Remembered(claudeSaved) /\ left' = PresentLogs /\ deltas' = NoMessages
          /\ claudeFull' = (\A f \in Log : claudeSaved[f] = NoClaudeCursor)
          /\ ~\E f \in PresentLogs : NeedsReplay(f, claudeSaved)
          /\ UNCHANGED <<claudeLog, claudeRows, claudeMishaps, forgotten>>
      BY <1>2 DEF StartClaude, Enter, Preload
    <2>2. \A m \in MessageId : deltas'[m] = 0 /\ claudeRows[m] \in Nat
      BY <2>1 DEF NoMessages, ClaudeTypeOK
    <2>3. \A f \in Log : claudeSaved[f] \in ClaudeCursor /\ Ids(claudeSaved[f].ring) \subseteq Had
      BY DEF ClaudeTypeOK, CursorsAreBehind, BehindIn
    <2>4. Remembered(claudeSaved) \subseteq Had /\ Had \subseteq MessageId
      BY <2>3 DEF Remembered, Had
    <2>5. claudeFull' = TRUE => Remembered(claudeSaved) = {}
      <3>1. claudeFull' = TRUE => \A f \in Log : Ids(claudeSaved[f].ring) = {}
        BY <2>1 DEF NoClaudeCursor, Ids
      <3> QED
        BY <3>1 DEF Remembered
    <2>6. claudeFull' = FALSE => Has' = Had
      BY <2>1, <2>2 DEF Has, Had, ClaudeCounts
    <2>7. \A f \in PresentLogs : ~claudeSaved[f].legacy
      BY <2>1 DEF NeedsReplay, NoClaudeCursor
    <2>8. claudeFull' \in BOOLEAN
      BY <2>1
    <2>9. ClaudeTypeOK'
      <3>1. deltas' \in [MessageId -> Nat]
        BY <2>1 DEF NoMessages
      <3>2. left' \subseteq Log /\ seen' \subseteq MessageId
        BY <2>1, <2>4 DEF PresentLogs
      <3>3. claudePhase' \in {"idle", "scan"}
        BY <2>1
      <3> QED
        BY <2>1, <2>8, <3>1, <3>2, <3>3 DEF ClaudeTypeOK
    <2>10. CountedOnce' /\ ClaudeRingsFit'
      BY <2>1 DEF CountedOnce, ClaudeRingsFit, Remembered, PresentLogs
    <2>11. CursorsAreBehind'
      <3>1. Had' = Had
        BY <2>1 DEF Had
      <3>2. CASE claudeFull' = FALSE
        BY <2>1, <2>6, <3>1, <3>2 DEF CursorsAreBehind
      <3>3. CASE claudeFull' = TRUE
        BY <2>1, <3>1, <3>3, NoCursorBehind DEF CursorsAreBehind, ClaudeTypeOK
      <3> QED
        BY <2>8, <3>2, <3>3
    <2>12. ClaudeScanFits'
      <3>1. PresentLogs' = PresentLogs /\ left' \subseteq Log /\ PresentLogs \subseteq Log
        BY <2>1 DEF PresentLogs
      <3>2. seen' \subseteq Has'
        BY <2>1, <2>4, <2>5, <2>6, <2>8
      <3>3. claudeFull' = FALSE => Remembered(claudeSaved) \subseteq seen'
        BY <2>1
      <3>4. claudeFull' => \A f \in Log : claudeSaved'[f] = NoClaudeCursor /\ claudeCur'[f] = NoClaudeCursor
        BY <2>1
      <3>5. ~claudeFull' => \E f \in Log : claudeSaved'[f] # NoClaudeCursor
        BY <2>1
      <3> QED
        BY <2>1, <2>2, <2>7, <2>8, <3>1, <3>2, <3>3, <3>4, <3>5 DEF ClaudeScanFits, Remembered
    <2> QED
      BY <2>9, <2>10, <2>11, <2>12
  <1> QED
    BY <1>1, <1>2

LEMMA CrashClaudeFits == ASSUME ClaudeFits, CrashClaude PROVE ClaudeFits'
  <1> USE DEF ClaudeFits
  <1>1. /\ claudePhase' = "idle" /\ claudeCur' = claudeSaved /\ seen' = {} /\ left' = {}
        /\ deltas' = NoMessages /\ claudeFull' = FALSE
        /\ UNCHANGED <<claudeLog, claudeSaved, claudeRows, forgotten>>
    BY DEF CrashClaude
  <1>2. \A m \in MessageId : deltas'[m] = 0 /\ claudeRows[m] \in Nat
    BY <1>1 DEF NoMessages, ClaudeTypeOK
  <1>3. Has' = Had /\ Had' = Had
    BY <1>1, <1>2 DEF Has, Had, ClaudeCounts
  <1>4. ClaudeTypeOK'
    <2>1. deltas' \in [MessageId -> Nat]
      BY <1>1 DEF NoMessages
    <2>2. claudeFull' \in BOOLEAN /\ claudePhase' \in {"idle", "scan"}
      BY <1>1
    <2> QED
      BY <1>1, <2>1, <2>2 DEF ClaudeTypeOK
  <1>5. CountedOnce' /\ ClaudeRingsFit'
    BY <1>1 DEF CountedOnce, ClaudeRingsFit, Remembered, PresentLogs
  <1>6. CursorsAreBehind'
    BY <1>1, <1>3 DEF CursorsAreBehind
  <1>7. ClaudeScanFits'
    BY <1>1 DEF ClaudeScanFits
  <1> QED
    BY <1>4, <1>5, <1>6, <1>7

LEMMA CommitClaudeFits == ASSUME ClaudeFits, CommitClaude PROVE ClaudeFits'
  <1> USE DEF ClaudeFits
  <1>1. /\ claudePhase = "scan" /\ claudePhase' = "idle" /\ claudeCur' = claudeSaved' /\ seen' = {}
        /\ deltas' = NoMessages /\ claudeFull' = FALSE
        /\ claudeSaved' = [f \in Log |-> IF f \in PresentLogs THEN claudeCur[f] ELSE NoClaudeCursor]
        /\ UNCHANGED <<claudeLog, left, claudeMishaps>>
    BY DEF CommitClaude
  <1>2. /\ \A m \in MessageId : claudeRows'[m] = ClaudeCounts(m) /\ deltas'[m] = 0
        /\ \A m \in MessageId : ClaudeCounts(m) \in Nat /\ deltas[m] \in Nat /\ claudeRows[m] \in Nat
        /\ claudeRows' = [m \in MessageId |-> ClaudeCounts(m)]
    BY DEF CommitClaude, NoMessages, ClaudeCounts, ClaudeTypeOK
  <1>3. Had' = Has /\ Has' = Has
    BY <1>1, <1>2 DEF Has, Had, ClaudeCounts
  <1>4. forgotten' = {m \in MessageId : claudeRows'[m] > 0 /\ (m \notin Remembered(claudeSaved')
                                        \/ (~claudeFull /\ m \in forgotten))}
    BY DEF CommitClaude
  <1>5. \A f \in Log : claudeSaved'[f] \in ClaudeCursor
    BY <1>1, NoCursorBehind DEF ClaudeTypeOK
  <1>6. ClaudeTypeOK'
    <2>1. deltas' \in [MessageId -> Nat] /\ claudeRows' \in [MessageId -> Nat]
      BY <1>1, <1>2 DEF NoMessages
    <2>2. claudeFull' \in BOOLEAN /\ claudePhase' \in {"idle", "scan"} /\ forgotten' \subseteq MessageId
      BY <1>1, <1>4
    <2>3. claudeSaved' \in [Log -> ClaudeCursor]
      BY <1>1, <1>5
    <2> QED
      BY <1>1, <2>1, <2>2, <2>3 DEF ClaudeTypeOK
  <1>7. CountedOnce'
    <2> SUFFICES ASSUME NEW m \in MessageId, claudeRows'[m] > 1, m \notin forgotten' PROVE FALSE
      BY DEF CountedOnce
    <2>1. deltas[m] <= 1 /\ ~claudeFull /\ deltas[m] + claudeRows[m] > 1
      BY <1>1, <1>2 DEF ClaudeScanFits, ClaudeCounts
    <2>2. m \notin forgotten
      BY <1>2, <1>4, <2>1
    <2>3. claudeRows[m] <= 1
      BY <1>2, <2>2 DEF CountedOnce
    <2> QED
      BY <1>1, <1>2, <2>1, <2>2, <2>3 DEF ClaudeScanFits
  <1>8. ClaudeRingsFit'
    BY <1>4 DEF ClaudeRingsFit
  <1>9. CursorsAreBehind'
    <2>1. \A f \in Log : claudeLog[f] \in LogFile
      BY DEF ClaudeTypeOK
    <2> QED
      BY <1>1, <1>3, <2>1, NoCursorBehind DEF CursorsAreBehind
  <1>10. ClaudeScanFits'
    BY <1>1 DEF ClaudeScanFits
  <1> QED
    BY <1>6, <1>7, <1>8, <1>9, <1>10

LEMMA TakeLogFits == ASSUME ClaudeFits, NEW f \in Log, TakeLog(f) PROVE ClaudeFits'
  <1> USE DEF ClaudeFits
  <1> DEFINE c == claudeCur[f]
             lines == claudeLog[f].lines
             ids == Emitted(lines, c.offset, seen)
             ring == MergeBounded(c.ring, ids)
             new == [ino |-> claudeLog[f].ino, offset |-> Len(lines), legacy |-> FALSE, ring |-> ring]
  <1>1. /\ claudePhase = "scan" /\ f \in left /\ left' = left \ {f}
        /\ UNCHANGED <<claudeLog, claudeSaved, claudeRows, claudePhase, claudeFull, forgotten>>
    BY DEF TakeLog
  <1>2. /\ Had' = Had /\ Remembered(claudeSaved)' = Remembered(claudeSaved) /\ PresentLogs' = PresentLogs
        /\ left' \subseteq left
    BY <1>1 DEF Had, Remembered, PresentLogs
  <1>3. CASE UNCHANGED <<claudeCur, seen, deltas>>
    <2>1. Has' = Has
      BY <1>1, <1>3 DEF Has, ClaudeCounts
    <2>2. ClaudeTypeOK' /\ CountedOnce' /\ ClaudeRingsFit'
      BY <1>1, <1>2, <1>3 DEF ClaudeTypeOK, CountedOnce, ClaudeRingsFit, Remembered
    <2>3. CursorsAreBehind'
      BY <1>1, <1>2, <1>3, <2>1 DEF CursorsAreBehind
    <2>4. ClaudeScanFits'
      BY <1>1, <1>2, <1>3, <2>1 DEF ClaudeScanFits, Remembered
    <2> QED
      BY <2>2, <2>3, <2>4
  <1>4. CASE /\ f \in PresentLogs /\ ~LogReplaced(f)
             /\ claudeCur' = [claudeCur EXCEPT ![f] = new]
             /\ seen' = seen \cup Ids(ids)
             /\ deltas' = [m \in MessageId |-> deltas[m] + (IF m \in Ids(ids) THEN 1 ELSE 0)]
    <2>1. /\ c \in ClaudeCursor /\ claudeLog[f] \in LogFile /\ lines \in Seq(ClaudeLine) /\ Len(lines) \in Nat
          /\ c.offset \in Nat /\ c.ring \in Seq(MessageId) /\ seen \subseteq MessageId
          /\ claudeLog[f].ino \in Nat \ {0} /\ BehindIn(c, claudeLog[f], Has)
      BY <1>1, <1>4, LenProperties DEF ClaudeTypeOK, ClaudeCursor, LogFile, PresentLogs, CursorsAreBehind
    <2> HIDE DEF lines, c
    <2>2. /\ ids \in Seq(MessageId) /\ Ids(ids) \cap seen = {}
          /\ \A i \in (c.offset + 1)..Len(lines) :
                lines[i].zero \/ lines[i].id \in seen \/ lines[i].id \in Ids(ids)
      BY <2>1, EmittedIds
    <2> HIDE DEF ids
    <2>3. ring \in Seq(MessageId) /\ Ids(ring) \subseteq Ids(c.ring) \cup Ids(ids)
      BY <2>1, <2>2, MergedIds
    <2> HIDE DEF ring
    <2>4. /\ \A m \in MessageId : deltas[m] \in Nat /\ claudeRows[m] \in Nat /\ deltas[m] <= 1
                                   /\ (deltas[m] > 0 => m \in seen)
                                   /\ deltas'[m] = deltas[m] + (IF m \in Ids(ids) THEN 1 ELSE 0)
          /\ seen \subseteq Has
      BY <1>1, <1>4 DEF ClaudeTypeOK, ClaudeScanFits
    <2>5. Ids(ids) \subseteq MessageId
      BY <2>2, ElementOfSeq DEF Ids
    <2>6. \A m \in Ids(ids) : deltas[m] = 0 /\ deltas'[m] = 1
      BY <2>2, <2>4, <2>5
    <2>7. \A m \in MessageId \ Ids(ids) : deltas'[m] = deltas[m]
      BY <2>4
    <2>8. Has \subseteq Has' /\ Ids(ids) \subseteq Has'
      BY <1>1, <2>4, <2>5, <2>6, <2>7 DEF Has, ClaudeCounts
    <2>9. c = NoClaudeCursor \/ c.ino = claudeLog[f].ino
      BY <1>1, <1>4 DEF LogReplaced, ClaudeScanFits, c
    <2>10. \A i \in 1..c.offset : i \in 1..Len(lines) => lines[i].zero \/ lines[i].id \in Has
      <3>1. CASE c = NoClaudeCursor
        BY <3>1 DEF NoClaudeCursor
      <3>2. CASE c.ino = claudeLog[f].ino
        BY <2>1, <3>2 DEF BehindIn, lines
      <3> QED
        BY <2>9, <3>1, <3>2
    <2>11. BehindIn(new, claudeLog[f], Has')
      <3>1. Ids(ring) \subseteq Has'
        BY <2>1, <2>3, <2>8 DEF BehindIn
      <3>2. \A i \in 1..Len(lines) : lines[i].zero \/ lines[i].id \in Has'
        <4> SUFFICES ASSUME NEW i \in 1..Len(lines) PROVE lines[i].zero \/ lines[i].id \in Has'
          OBVIOUS
        <4>1. i \in 1..c.offset \/ i \in (c.offset + 1)..Len(lines)
          BY <2>1
        <4> QED
          BY <2>2, <2>4, <2>8, <2>10, <4>1
      <3> QED
        BY <2>1, <3>1, <3>2 DEF BehindIn, lines
    <2>12. new \in ClaudeCursor
      BY <2>1, <2>3 DEF ClaudeCursor
    <2> HIDE DEF new
    <2>13. ClaudeTypeOK'
      <3>1. claudeCur' \in [Log -> ClaudeCursor]
        BY <1>4, <2>12 DEF ClaudeTypeOK
      <3>2. deltas' \in [MessageId -> Nat]
        BY <1>4, <2>4
      <3>3. seen' \subseteq MessageId /\ left' \subseteq Log
        BY <1>1, <1>4, <2>5 DEF ClaudeTypeOK
      <3> QED
        BY <1>1, <3>1, <3>2, <3>3 DEF ClaudeTypeOK
    <2>14. CountedOnce' /\ ClaudeRingsFit'
      BY <1>1, <1>2 DEF CountedOnce, ClaudeRingsFit, Remembered
    <2>15. CursorsAreBehind'
      <3> SUFFICES ASSUME NEW g \in Log
                   PROVE  BehindIn(claudeSaved[g], claudeLog[g], Had) /\ BehindIn(claudeCur'[g], claudeLog[g], Has')
        BY <1>1, <1>2 DEF CursorsAreBehind
      <3>1. BehindIn(claudeSaved[g], claudeLog[g], Had) /\ BehindIn(claudeCur[g], claudeLog[g], Has)
        BY DEF CursorsAreBehind
      <3>2. CASE g = f
        BY <1>4, <2>11, <3>1, <3>2 DEF ClaudeTypeOK
      <3>3. CASE g # f
        <4>1. claudeCur'[g] = claudeCur[g]
          BY <1>4, <3>3 DEF ClaudeTypeOK
        <4>2. BehindIn(claudeCur[g], claudeLog[g], Has')
          BY <2>8, <3>1 DEF BehindIn
        <4> QED
          BY <3>1, <4>1, <4>2
      <3> QED
        BY <3>2, <3>3
    <2>16. ClaudeScanFits'
      <3>1. \A m \in MessageId : deltas'[m] <= 1 /\ (deltas'[m] > 0 => m \in seen')
        BY <1>4, <2>4, <2>6, <2>7
      <3>2. seen' \subseteq Has'
        BY <1>4, <2>4, <2>8
      <3>3. claudeFull => \A g \in left' : claudeCur'[g] = NoClaudeCursor
        BY <1>1, <1>4 DEF ClaudeScanFits, ClaudeTypeOK
      <3>4. ASSUME ~claudeFull, NEW m \in MessageId, deltas'[m] > 0, claudeRows[m] > 0 PROVE m \in forgotten
        <4>1. CASE m \in Ids(ids)
          <5>1. m \notin Remembered(claudeSaved)
            BY <1>1, <2>2, <3>4, <4>1 DEF ClaudeScanFits
          <5>2. /\ ~\A g \in Log : claudeSaved[g] = NoClaudeCursor
                /\ ~\E g \in PresentLogs : claudeSaved[g].legacy
            BY <1>1, <3>4 DEF ClaudeScanFits
          <5> QED
            BY <3>4, <5>1, <5>2 DEF ClaudeRingsFit
        <4>2. CASE m \notin Ids(ids)
          BY <1>1, <2>7, <3>4, <4>2 DEF ClaudeScanFits
        <4> QED
          BY <4>1, <4>2
      <3>5. ~claudeFull => Remembered(claudeSaved) \subseteq seen'
        BY <1>1, <1>4 DEF ClaudeScanFits
      <3>6. claudePhase = "scan" /\ claudePhase' = "scan" /\ claudeFull' = claudeFull
            /\ claudeSaved' = claudeSaved /\ claudeRows' = claudeRows /\ forgotten' = forgotten
        BY <1>1
      <3> QED
        BY <1>2, <3>1, <3>2, <3>3, <3>4, <3>5, <3>6 DEF ClaudeScanFits, Remembered
    <2> QED
      BY <2>13, <2>14, <2>15, <2>16
  <1> QED
    BY <1>3, <1>4 DEF TakeLog, Restored

LEMMA ClaudeStarts == ASSUME ClaudeInit PROVE ClaudeFits
  <1>1. PICK first \in Log, m \in MessageId, legacy \in BOOLEAN :
        /\ claudeLog = [f \in Log |-> [ino |-> 1, lines |-> IF f = first THEN <<[id |-> m, zero |-> FALSE]>> ELSE <<>>]]
        /\ claudeSaved = [f \in Log |-> IF legacy /\ f = first THEN [ino |-> 1, offset |-> 1, ring |-> <<>>, legacy |-> TRUE]
                                  ELSE NoClaudeCursor]
        /\ claudeRows = [NoMessages EXCEPT ![m] = IF legacy THEN 1 ELSE 0]
        /\ claudePhase = "idle" /\ claudeFull = FALSE /\ claudeCur = claudeSaved /\ seen = {} /\ left = {} /\ deltas = NoMessages
        /\ claudeMishaps = 0 /\ forgotten = {}
    BY Zenon DEF ClaudeInit
  <1> DEFINE line == [id |-> m, zero |-> FALSE]
             old == [ino |-> 1, offset |-> 1, ring |-> <<>>, legacy |-> TRUE]
  <1>2. line \in ClaudeLine /\ line.id = m /\ <<line>> \in Seq(ClaudeLine) /\ Len(<<line>>) = 1 /\ <<line>>[1] = line
    BY DEF ClaudeLine
  <1>3. \A f \in Log : /\ claudeLog[f].ino = 1
                        /\ claudeLog[f].lines = (IF f = first THEN <<line>> ELSE <<>>)
                        /\ claudeLog[f] \in LogFile
    <2> SUFFICES ASSUME NEW f \in Log
                 PROVE  /\ claudeLog[f].ino = 1
                        /\ claudeLog[f].lines = (IF f = first THEN <<line>> ELSE <<>>)
                        /\ claudeLog[f] \in LogFile
      OBVIOUS
    <2> DEFINE lines == IF f = first THEN <<line>> ELSE <<>>
    <2>1. claudeLog[f] = [ino |-> 1, lines |-> lines]
      BY <1>1, Zenon
    <2>2. lines \in Seq(ClaudeLine)
      BY <1>2
    <2> HIDE DEF lines
    <2>3. claudeLog[f].ino = 1 /\ claudeLog[f].lines = lines /\ claudeLog[f] \in LogFile
      BY <2>1, <2>2 DEF LogFile
    <2> QED
      BY <2>3 DEF lines
  <1> HIDE DEF line
  <1>4. old \in ClaudeCursor /\ Ids(old.ring) = {} /\ old.ino = 1 /\ old.offset = 1
    BY DEF ClaudeCursor, Ids
  <1>5. /\ \A n \in MessageId : claudeRows[n] = (IF n = m /\ legacy THEN 1 ELSE 0)
        /\ claudeRows \in [MessageId -> Nat] /\ deltas \in [MessageId -> Nat]
        /\ \A n \in MessageId : deltas[n] = 0
    BY <1>1 DEF NoMessages
  <1>6. \A f \in Log : claudeSaved[f] = (IF legacy /\ f = first THEN old ELSE NoClaudeCursor)
    BY <1>1, Zenon
  <1> HIDE DEF old
  <1>7. ClaudeTypeOK
    <2>1. claudeSaved \in [Log -> ClaudeCursor]
      <3>1. \A f \in Log : claudeSaved[f] \in ClaudeCursor
        BY <1>3, <1>4, <1>6, NoCursorBehind
      <3>2. claudeSaved = [f \in Log |-> claudeSaved[f]]
        BY <1>1, Zenon
      <3> QED
        BY <3>1, <3>2
    <2>2. claudeLog \in [Log -> LogFile]
      <3>1. claudeLog = [f \in Log |-> claudeLog[f]]
        BY <1>1, Zenon
      <3> QED
        BY <1>3, <3>1
    <2>3. seen \subseteq MessageId /\ left \subseteq Log /\ forgotten \subseteq MessageId
          /\ claudePhase \in {"idle", "scan"} /\ claudeFull \in BOOLEAN /\ claudeCur = claudeSaved
      BY <1>1
    <2> QED
      BY <1>5, <2>1, <2>2, <2>3 DEF ClaudeTypeOK
  <1>8. CountedOnce
    BY <1>5 DEF CountedOnce
  <1>9. Has = Had /\ (legacy => m \in Had)
    BY <1>1, <1>5 DEF Has, Had, ClaudeCounts
  <1>10. CursorsAreBehind
    <2> SUFFICES ASSUME NEW f \in Log PROVE BehindIn(claudeSaved[f], claudeLog[f], Had)
      BY <1>1, <1>9 DEF CursorsAreBehind
    <2>1. CASE ~(legacy /\ f = first)
      BY <1>3, <1>6, <2>1, NoCursorBehind
    <2>2. CASE legacy /\ f = first
      <3>1. Len(claudeLog[f].lines) = 1 /\ \A i \in 1..1 : claudeLog[f].lines[i].id \in Had
        BY <1>2, <1>3, <1>9, <2>2
      <3> QED
        BY <1>3, <1>4, <1>6, <2>2, <3>1 DEF BehindIn
    <2> QED
      BY <2>1, <2>2
  <1>11. ClaudeRingsFit
    <2>1. legacy => first \in PresentLogs /\ claudeSaved[first].legacy
      BY <1>3, <1>6 DEF PresentLogs, old
    <2> QED
      BY <1>5, <2>1 DEF ClaudeRingsFit
  <1>12. ClaudeScanFits
    BY <1>1 DEF ClaudeScanFits
  <1> QED
    BY <1>7, <1>8, <1>10, <1>11, <1>12 DEF ClaudeFits

LEMMA ClaudeStep == ASSUME ClaudeFits, [ClaudeNext]_claudeVars PROVE ClaudeFits'
  <1>1. CASE \E f \in Log : WriteLine(f) \/ Delete(f) \/ Rotate(f)
    BY <1>1, ClaudeLogsFit
  <1>2. CASE \E f \in Log : ReplayDetected(f)
    BY <1>2, RestartClaudeFits DEF ReplayDetected
  <1>3. CASE \E f \in Log : TakeLog(f)
    BY <1>3, TakeLogFits
  <1>4. CASE StartClaude \/ CommitClaude \/ CrashClaude
    BY <1>4, StartClaudeFits, CommitClaudeFits, CrashClaudeFits
  <1>5. CASE UNCHANGED claudeVars
    BY <1>5 DEF claudeVars, ClaudeFits, ClaudeTypeOK, CountedOnce, CursorsAreBehind, BehindIn, Has, Had, ClaudeCounts,
                ClaudeRingsFit, Remembered, PresentLogs, ClaudeScanFits
  <1> QED
    BY <1>1, <1>2, <1>3, <1>4, <1>5 DEF ClaudeNext

LEMMA NoneSwallowedFollows == ASSUME ClaudeFits PROVE NoneSwallowed
  <1> SUFFICES ASSUME NEW f \in Log, claudeLog[f].ino = claudeSaved[f].ino, NEW i \in 1..claudeSaved[f].offset
               PROVE  claudeLog[f].lines[i].zero \/ claudeRows[claudeLog[f].lines[i].id] > 0
    BY DEF NoneSwallowed
  <1>1. BehindIn(claudeSaved[f], claudeLog[f], Had)
    BY DEF ClaudeFits, CursorsAreBehind
  <1> QED
    BY <1>1 DEF BehindIn, Had

-----------------------------------------------------------------------------
(* Codex: rollouts of a tree of threads, and the edges they share.         *)

Rollout == [there : BOOLEAN, header : BOOLEAN, edges : Seq(Edge)]
RolloutCursor == [there : BOOLEAN, offset : Nat, scope : Thread \cup {NoScope}]

CodexTypeOK ==
    /\ rollout \in [Thread -> Rollout]
    /\ cursor \in [Thread -> RolloutCursor] /\ work \in [Thread -> RolloutCursor]
    /\ scopes \in [Thread -> SUBSET Edge] /\ keys \in [Thread -> SUBSET Edge]
    /\ tally \in [Edge -> Nat] /\ gains \in [Edge -> Nat]
    /\ stage \in {"idle", "scan"} /\ whole \in BOOLEAN
    /\ scopeOf \in [Thread -> Thread \cup {NoScope}]
    /\ queue \subseteq Thread /\ edges \in Nat /\ astray \subseteq Thread /\ lostKeys \subseteq Edge

\* Threads that repeat an edge have one root.
RolloutsFit ==
    /\ \A t \in Thread : ~rollout[t].header => rollout[t].edges = <<>>
    /\ \A t \in Thread : \A e \in EdgesOf(t) : e <= edges
    /\ \A t, u \in Thread : \A e \in EdgesOf(t) : e \in EdgesOf(u) => Root[t] = Root[u]

RolloutCursorsFit(cs) ==
    \A t \in Thread : /\ cs[t].offset <= Len(rollout[t].edges)
                      /\ ~cs[t].there => cs[t] = NoRolloutCursor
                      /\ cs[t].scope \in {NoScope, Root[t]} \/ t \in astray

UnsureEdge(e, lost) == e \in lost \/ \E t \in astray : e \in EdgesOf(t)

\* An edge is counted once, and its root's scope knows: nothing else is
\* behind a cursor or in a scope.
SoundScopes(cs, ks, n, lost) ==
    /\ \A e \in Edge : n[e] > 0 =>
          /\ e <= edges
          /\ UnsureEdge(e, lost) \/ (n[e] = 1 /\ \A t \in Thread : e \in EdgesOf(t) => e \in ks[Root[t]])
    /\ \A s \in Thread : \A e \in ks[s] : n[e] > 0
    /\ \A t \in Thread : \A i \in 1..cs[t].offset : n[rollout[t].edges[i]] > 0

\* What the rows would be if the sync committed now.
EdgesNow == [e \in Edge |-> gains[e] + (IF whole THEN 0 ELSE tally[e])]
LostEdgesNow == IF whole THEN {} ELSE lostKeys

CodexSyncFits ==
    /\ stage = "idle" => queue = {} /\ work = cursor
    /\ stage = "scan" => \A t \in queue : scopeOf[t] \in Thread /\ (scopeOf[t] = Root[t] \/ t \in astray)
    /\ \A s \in Thread : scopes[s] # {} => \E t \in Thread : cursor[t].scope = s

CodexFits ==
    /\ CodexTypeOK /\ RolloutsFit /\ RolloutCursorsFit(cursor) /\ RolloutCursorsFit(work) /\ CodexSyncFits
    /\ SoundScopes(cursor, scopes, tally, lostKeys)
    /\ stage = "scan" => SoundScopes(work, keys, EdgesNow, LostEdgesNow)

LEMMA RootsFit == /\ \A t \in Thread : Root[t] \in Thread /\ Parent[t] \in Thread /\ Root[t] = Root[Parent[t]]
                  /\ NoScope \notin Thread
  <1>1. Root \in [Thread -> Thread] /\ \A t \in Forked : Root[t] = Root[Parent[t]]
    BY ForksMakeTrees DEF Root
  <1> QED
    BY <1>1, ForksMakeTrees DEF Forked

LEMMA CodexParts ==
    ASSUME CodexTypeOK
    PROVE  /\ \A t \in Thread :
                 /\ rollout[t] \in Rollout /\ rollout[t].edges \in Seq(Edge) /\ Len(rollout[t].edges) \in Nat
                 /\ rollout[t].there \in BOOLEAN /\ rollout[t].header \in BOOLEAN
                 /\ cursor[t] \in RolloutCursor /\ work[t] \in RolloutCursor
                 /\ cursor[t].offset \in Nat /\ work[t].offset \in Nat
                 /\ \A i \in 1..Len(rollout[t].edges) : rollout[t].edges[i] \in Edge
                 /\ EdgesOf(t) = {rollout[t].edges[i] : i \in 1..Len(rollout[t].edges)}
           /\ \A e \in Edge : tally[e] \in Nat /\ gains[e] \in Nat /\ EdgesNow[e] \in Nat
           /\ EdgesNow \in [Edge -> Nat] /\ Edge \subseteq Nat
  <1>1. ASSUME NEW t \in Thread PROVE rollout[t] \in Rollout /\ cursor[t] \in RolloutCursor /\ work[t] \in RolloutCursor
    BY DEF CodexTypeOK
  <1>2. ASSUME NEW r \in Rollout
        PROVE  /\ r.edges \in Seq(Edge) /\ Len(r.edges) \in Nat /\ DOMAIN r.edges = 1..Len(r.edges)
               /\ r.there \in BOOLEAN /\ r.header \in BOOLEAN
               /\ \A i \in 1..Len(r.edges) : r.edges[i] \in Edge
    BY DEF Rollout
  <1>3. ASSUME NEW c \in RolloutCursor PROVE c.offset \in Nat
    BY DEF RolloutCursor
  <1>4. \A t \in Thread : EdgesOf(t) = {rollout[t].edges[i] : i \in 1..Len(rollout[t].edges)}
    BY <1>1, <1>2 DEF EdgesOf
  <1>5. ASSUME NEW e \in Edge PROVE tally[e] \in Nat /\ gains[e] \in Nat /\ EdgesNow[e] \in Nat
    BY DEF CodexTypeOK, EdgesNow
  <1>6. EdgesNow \in [Edge -> Nat] /\ Edge \subseteq Nat
    BY <1>5 DEF EdgesNow, Edge
  <1> QED
    BY <1>1, <1>2, <1>3, <1>4, <1>5, <1>6

\* Rollouts that grow leave what is counted sound.
LEMMA SoundScopesGrow ==
    ASSUME CodexTypeOK, rollout' \in [Thread -> Rollout], edges' \in Nat, edges <= edges', astray' = astray,
           \A t \in Thread : /\ Len(rollout[t].edges) <= Len(rollout'[t].edges)
                             /\ \A i \in 1..Len(rollout[t].edges) : rollout'[t].edges[i] = rollout[t].edges[i],
           \A t \in Thread : \A e \in EdgesOf(t)' :
                e <= edges => \E u \in Thread : e \in EdgesOf(u) /\ Root[u] = Root[t],
           NEW cs \in [Thread -> RolloutCursor], RolloutCursorsFit(cs),
           NEW ks, NEW n \in [Edge -> Nat], NEW lost, SoundScopes(cs, ks, n, lost)
    PROVE  /\ \A e \in Edge : n[e] > 0 =>
                 /\ e <= edges'
                 /\ \/ e \in lost \/ \E t \in astray : e \in EdgesOf(t)'
                    \/ n[e] = 1 /\ \A t \in Thread : e \in EdgesOf(t)' => e \in ks[Root[t]]
           /\ \A s \in Thread : \A e \in ks[s] : n[e] > 0
           /\ \A t \in Thread : \A i \in 1..cs[t].offset : n[rollout'[t].edges[i]] > 0
  <1>1. \A t \in Thread : EdgesOf(t) \subseteq EdgesOf(t)'
    <2> SUFFICES ASSUME NEW t \in Thread, NEW e \in EdgesOf(t) PROVE e \in EdgesOf(t)'
      OBVIOUS
    <2>1. PICK i \in 1..Len(rollout[t].edges) : e = rollout[t].edges[i]
      BY CodexParts
    <2>2. rollout'[t].edges \in Seq(Edge) /\ Len(rollout[t].edges) \in Nat /\ Len(rollout[t].edges) <= Len(rollout'[t].edges)
      BY CodexParts DEF Rollout
    <2>3. i \in DOMAIN rollout'[t].edges /\ e = rollout'[t].edges[i]
      BY <2>1, <2>2
    <2> QED
      BY <2>3 DEF EdgesOf
  <1>2. \A e \in Edge : UnsureEdge(e, lost) => e \in lost \/ \E t \in astray : e \in EdgesOf(t)'
    BY <1>1 DEF UnsureEdge, CodexTypeOK
  <1>3. ASSUME NEW e \in Edge, n[e] > 0, ~(e \in lost \/ \E t \in astray : e \in EdgesOf(t)')
        PROVE  n[e] = 1 /\ \A t \in Thread : e \in EdgesOf(t)' => e \in ks[Root[t]]
    BY <1>2, <1>3 DEF SoundScopes
  <1>4. \A e \in Edge : n[e] > 0 => e <= edges'
    BY CodexParts DEF SoundScopes, CodexTypeOK
  <1>5. ASSUME NEW t \in Thread, NEW i \in 1..cs[t].offset PROVE n[rollout'[t].edges[i]] > 0
    <2>1. cs[t].offset \in Nat /\ cs[t].offset <= Len(rollout[t].edges) /\ Len(rollout[t].edges) \in Nat
      BY CodexParts DEF RolloutCursorsFit, RolloutCursor
    <2> QED
      BY <1>5, <2>1 DEF SoundScopes
  <1> QED
    BY <1>3, <1>4, <1>5 DEF SoundScopes

\* The log may grow at any time.
LEMMA RolloutsGrow ==
    ASSUME CodexFits, rollout' \in [Thread -> Rollout], edges' \in Nat, edges <= edges',
           UNCHANGED <<cliVars, syncing, astray, lostKeys>>,
           \A t \in Thread : /\ Len(rollout[t].edges) <= Len(rollout'[t].edges)
                             /\ \A i \in 1..Len(rollout[t].edges) : rollout'[t].edges[i] = rollout[t].edges[i]
                             /\ ~rollout'[t].header => rollout'[t].edges = <<>>,
           \A t \in Thread : \A e \in EdgesOf(t)' :
                IF e <= edges THEN \E u \in Thread : e \in EdgesOf(u) /\ Root[u] = Root[t]
                              ELSE e <= edges' /\ \A u \in Thread : e \in EdgesOf(u)' => u = t
    PROVE  CodexFits'
  <1> USE DEF CodexFits
  <1>1. /\ UNCHANGED <<cursor, scopes, tally>> /\ UNCHANGED <<astray, lostKeys>>
        /\ UNCHANGED <<stage, whole, work, scopeOf, keys, queue, gains>>
    BY DEF cliVars, syncing
  <1>2. CodexTypeOK'
    BY <1>1 DEF CodexTypeOK
  <1>3. /\ \A t \in Thread : EdgesOf(t) \subseteq Edge /\ EdgesOf(t)' \subseteq Edge
        /\ \A t \in Thread : \A e \in EdgesOf(t)' :
             e <= edges => \E u \in Thread : e \in EdgesOf(u) /\ Root[u] = Root[t]
    <2>1. \A t \in Thread : EdgesOf(t) \subseteq Edge
      BY CodexParts
    <2>2. \A t \in Thread : rollout'[t].edges \in Seq(Edge)
      BY DEF Rollout
    <2>3. \A t \in Thread : EdgesOf(t)' \subseteq Edge
      BY <2>2 DEF EdgesOf
    <2> QED
      BY <2>1, <2>3
  <1>4. RolloutsFit'
    <2>1. \A t \in Thread : \A e \in EdgesOf(t)' : e <= edges'
      BY <1>3, CodexParts DEF CodexTypeOK
    <2>2. ASSUME NEW t \in Thread, NEW u \in Thread, NEW e \in EdgesOf(t)', e \in EdgesOf(u)'
          PROVE  Root[t] = Root[u]
      <3>1. CASE e <= edges
        <4>1. PICK v \in Thread : e \in EdgesOf(v) /\ Root[v] = Root[t]
          BY <3>1
        <4>2. PICK w \in Thread : e \in EdgesOf(w) /\ Root[w] = Root[u]
          BY <2>2, <3>1
        <4> QED
          BY <4>1, <4>2 DEF RolloutsFit
      <3>2. CASE ~(e <= edges)
        BY <2>2, <3>2
      <3> QED
        BY <3>1, <3>2
    <2> QED
      BY <2>1, <2>2 DEF RolloutsFit
  <1>5. RolloutCursorsFit(cursor)' /\ RolloutCursorsFit(work)'
    <2>1. \A t \in Thread : Len(rollout'[t].edges) \in Nat
      BY DEF Rollout
    <2>2. \A t \in Thread : /\ cursor[t].offset <= Len(rollout[t].edges) => cursor[t].offset <= Len(rollout'[t].edges)
                            /\ work[t].offset <= Len(rollout[t].edges) => work[t].offset <= Len(rollout'[t].edges)
      BY <2>1, CodexParts
    <2> QED
      BY <1>1, <2>2 DEF RolloutCursorsFit
  <1>6. CodexSyncFits'
    BY <1>1 DEF CodexSyncFits
  <1>8. SoundScopes(cursor, scopes, tally, lostKeys)'
    <2>1. cursor \in [Thread -> RolloutCursor] /\ tally \in [Edge -> Nat] /\ CodexTypeOK
      BY DEF CodexTypeOK
    <2>2. /\ \A e \in Edge : tally[e] > 0 =>
                /\ e <= edges'
                /\ \/ e \in lostKeys \/ \E t \in astray : e \in EdgesOf(t)'
                   \/ tally[e] = 1 /\ \A t \in Thread : e \in EdgesOf(t)' => e \in scopes[Root[t]]
          /\ \A s \in Thread : \A e \in scopes[s] : tally[e] > 0
          /\ \A t \in Thread : \A i \in 1..cursor[t].offset : tally[rollout'[t].edges[i]] > 0
      BY <1>1, <1>3, <2>1, SoundScopesGrow
    <2> QED
      BY <1>1, <2>2 DEF SoundScopes, UnsureEdge
  <1>9. ASSUME stage = "scan" PROVE SoundScopes(work, keys, EdgesNow, LostEdgesNow)'
    <2>1. EdgesNow' = EdgesNow /\ LostEdgesNow' = LostEdgesNow
      BY <1>1 DEF EdgesNow, LostEdgesNow
    <2>2. /\ SoundScopes(work, keys, EdgesNow, LostEdgesNow) /\ EdgesNow \in [Edge -> Nat]
          /\ work \in [Thread -> RolloutCursor] /\ CodexTypeOK
      BY <1>9, CodexParts DEF CodexTypeOK
    <2> HIDE DEF EdgesNow, LostEdgesNow
    <2>3. /\ \A e \in Edge : EdgesNow[e] > 0 =>
                /\ e <= edges'
                /\ \/ e \in LostEdgesNow \/ \E t \in astray : e \in EdgesOf(t)'
                   \/ EdgesNow[e] = 1 /\ \A t \in Thread : e \in EdgesOf(t)' => e \in keys[Root[t]]
          /\ \A s \in Thread : \A e \in keys[s] : EdgesNow[e] > 0
          /\ \A t \in Thread : \A i \in 1..work[t].offset : EdgesNow[rollout'[t].edges[i]] > 0
      BY <1>1, <1>3, <2>2, SoundScopesGrow
    <2> QED
      BY <1>1, <2>1, <2>3 DEF SoundScopes, UnsureEdge
  <1> QED
    BY <1>1, <1>2, <1>4, <1>5, <1>6, <1>8, <1>9

LEMMA OpenFits == ASSUME CodexFits, NEW t \in Thread, Open(t) PROVE CodexFits'
  <1>1. /\ rollout[t] = NoFile /\ rollout' = [rollout EXCEPT ![t].there = TRUE] /\ edges' = edges
        /\ UNCHANGED <<cliVars, syncing, astray, lostKeys>>
    BY DEF Open
  <1>2. CodexTypeOK
    BY DEF CodexFits
  <1>3. /\ rollout' \in [Thread -> Rollout]
        /\ \A u \in Thread : rollout'[u].edges = rollout[u].edges /\ rollout'[u].header = rollout[u].header
    BY <1>1, <1>2 DEF CodexTypeOK, Rollout
  <1>4. \A u \in Thread : EdgesOf(u)' = EdgesOf(u)
    BY <1>3 DEF EdgesOf
  <1>5. edges' \in Nat /\ edges <= edges' /\ \A u \in Thread : Len(rollout[u].edges) <= Len(rollout'[u].edges)
    BY <1>1, <1>2, <1>3, CodexParts DEF CodexTypeOK
  <1>6. \A u \in Thread : ~rollout[u].header => rollout[u].edges = <<>>
    BY DEF CodexFits, RolloutsFit
  <1>7. \A u \in Thread : \A e \in EdgesOf(u)' : e <= edges
    BY <1>4 DEF CodexFits, RolloutsFit
  <1> QED
    BY <1>1, <1>3, <1>4, <1>5, <1>6, <1>7, RolloutsGrow

LEMMA PruneFits == ASSUME CodexFits, NEW t \in Thread, Prune(t) PROVE CodexFits'
  <1>1. /\ rollout' = [rollout EXCEPT ![t].there = FALSE] /\ edges' = edges
        /\ UNCHANGED <<cliVars, syncing, astray, lostKeys>>
    BY DEF Prune
  <1>2. CodexTypeOK
    BY DEF CodexFits
  <1>3. /\ rollout' \in [Thread -> Rollout]
        /\ \A u \in Thread : rollout'[u].edges = rollout[u].edges /\ rollout'[u].header = rollout[u].header
    BY <1>1, <1>2 DEF CodexTypeOK, Rollout
  <1>4. \A u \in Thread : EdgesOf(u)' = EdgesOf(u)
    BY <1>3 DEF EdgesOf
  <1>5. edges' \in Nat /\ edges <= edges' /\ \A u \in Thread : Len(rollout[u].edges) <= Len(rollout'[u].edges)
    BY <1>1, <1>2, <1>3, CodexParts DEF CodexTypeOK
  <1>6. \A u \in Thread : ~rollout[u].header => rollout[u].edges = <<>>
    BY DEF CodexFits, RolloutsFit
  <1>7. \A u \in Thread : \A e \in EdgesOf(u)' : e <= edges
    BY <1>4 DEF CodexFits, RolloutsFit
  <1> QED
    BY <1>1, <1>3, <1>4, <1>5, <1>6, <1>7, RolloutsGrow

LEMMA ForkThreadFits == ASSUME CodexFits, NEW t \in Thread, ForkThread(t) PROVE CodexFits'
  <1> DEFINE inherited == IF Parent[t] = t THEN <<>> ELSE rollout[Parent[t]].edges
             new == [there |-> rollout[t].there, header |-> TRUE, edges |-> inherited]
  <1>1. /\ ~rollout[t].header /\ edges' = edges
        /\ UNCHANGED <<cliVars, syncing, astray, lostKeys>>
    BY DEF ForkThread
  <1>2. CodexTypeOK /\ RolloutsFit
    BY DEF CodexFits
  <1>3. inherited \in Seq(Edge) /\ Parent[t] \in Thread
    BY <1>2, CodexParts, RootsFit
  <1>4. new \in Rollout
    BY <1>2, <1>3, CodexParts DEF Rollout
  <1>5. rollout'[t] = new /\ rollout' \in [Thread -> Rollout] /\ \A u \in Thread \ {t} : rollout'[u] = rollout[u]
    <2>1. rollout' = [rollout EXCEPT ![t].header = TRUE, ![t].edges = inherited]
      BY DEF ForkThread
    <2>2. rollout \in [Thread -> Rollout] /\ rollout[t] \in Rollout
      BY <1>2 DEF CodexTypeOK
    <2> HIDE DEF inherited, new
    <2>3. rollout'[t] = [rollout[t] EXCEPT !.header = TRUE, !.edges = inherited]
      BY <2>1, <2>2
    <2>4. rollout'[t] = new
      BY <2>2, <2>3 DEF Rollout, new
    <2>5. \A u \in Thread \ {t} : rollout'[u] = rollout[u]
      BY <2>1, <2>2
    <2>6. rollout' \in [Thread -> Rollout]
      <3>1. DOMAIN rollout' = Thread /\ rollout' = [u \in Thread |-> rollout'[u]]
        BY <2>1, <2>2
      <3> QED
        BY <1>4, <2>2, <2>4, <2>5, <3>1
    <2> QED
      BY <2>4, <2>5, <2>6
  <1>6. rollout[t].edges = <<>>
    BY <1>1, <1>2 DEF RolloutsFit
  <1>7. \A u \in Thread : /\ Len(rollout[u].edges) <= Len(rollout'[u].edges)
                          /\ \A i \in 1..Len(rollout[u].edges) : rollout'[u].edges[i] = rollout[u].edges[i]
                          /\ ~rollout'[u].header => rollout'[u].edges = <<>>
    <2>1. ASSUME NEW u \in Thread, u # t PROVE Len(rollout[u].edges) <= Len(rollout'[u].edges)
      BY <1>2, <1>5, <2>1, CodexParts
    <2>2. Len(rollout[t].edges) = 0 /\ Len(rollout'[t].edges) \in Nat
      BY <1>3, <1>5, <1>6
    <2> QED
      BY <1>2, <1>5, <2>1, <2>2 DEF RolloutsFit
  <1>8. ASSUME NEW u \in Thread, NEW e \in EdgesOf(u)'
        PROVE  e <= edges /\ \E v \in Thread : e \in EdgesOf(v) /\ Root[v] = Root[u]
    <2>1. CASE u # t
      <3>1. e \in EdgesOf(u)
        BY <1>5, <1>8, <2>1 DEF EdgesOf
      <3> QED
        BY <1>2, <3>1 DEF RolloutsFit
    <2>2. CASE u = t
      <3>1. EdgesOf(t)' = {inherited[i] : i \in DOMAIN inherited}
        BY <1>5 DEF EdgesOf
      <3>2. Parent[t] # t
        <4>1. Parent[t] = t => DOMAIN inherited = {}
          BY <1>3
        <4> QED
          BY <1>8, <2>2, <3>1, <4>1
      <3>3. e \in EdgesOf(Parent[t])
        BY <1>8, <2>2, <3>1, <3>2 DEF EdgesOf
      <3> QED
        BY <1>2, <1>3, <2>2, <3>3, RootsFit DEF RolloutsFit
    <2> QED
      BY <2>1, <2>2
  <1>9. edges' \in Nat /\ edges <= edges'
    BY <1>1, <1>2 DEF CodexTypeOK
  <1> HIDE DEF new, inherited
  <1> QED
    BY <1>1, <1>5, <1>7, <1>8, <1>9, RolloutsGrow

LEMMA UseFits == ASSUME CodexFits, NEW t \in Thread, Use(t) PROVE CodexFits'
  <1>1. /\ rollout[t].header /\ edges < MaxEdges /\ edges' = edges + 1
        /\ rollout' = [rollout EXCEPT ![t].edges = Append(@, edges')]
        /\ UNCHANGED <<cliVars, syncing, astray, lostKeys>>
    BY DEF Use
  <1>2. CodexTypeOK /\ RolloutsFit
    BY DEF CodexFits
  <1>3. edges \in Nat /\ edges' \in Edge /\ edges' \in Nat /\ edges <= edges' /\ ~(edges' <= edges)
    BY <1>1, <1>2, ForksMakeTrees DEF CodexTypeOK, Edge
  <1> DEFINE old == rollout[t].edges
             line == Append(old, edges')
  <1>4. old \in Seq(Edge) /\ line \in Seq(Edge)
    BY <1>2, <1>3, CodexParts
  <1>5. Len(line) = Len(old) + 1 /\ line[Len(old) + 1] = edges' /\ \A i \in 1..Len(old) : line[i] = old[i]
    BY <1>3, <1>4
  <1>6. /\ rollout' \in [Thread -> Rollout] /\ rollout'[t].edges = line /\ rollout'[t].header
        /\ \A u \in Thread \ {t} : rollout'[u] = rollout[u]
    <2>1. rollout' = [rollout EXCEPT ![t].edges = line]
      BY <1>1
    <2>2. rollout[t] \in Rollout /\ rollout \in [Thread -> Rollout]
      BY <1>2 DEF CodexTypeOK
    <2>3. [rollout[t] EXCEPT !.edges = line] \in Rollout
      BY <1>4, <2>2 DEF Rollout
    <2> HIDE DEF line
    <2>4. rollout'[t] = [rollout[t] EXCEPT !.edges = line] /\ \A u \in Thread \ {t} : rollout'[u] = rollout[u]
      BY <2>1, <2>2
    <2>5. rollout'[t].edges = line /\ rollout'[t].header = rollout[t].header
      BY <2>2, <2>4 DEF Rollout
    <2>6. rollout' \in [Thread -> Rollout]
      BY <2>1, <2>2, <2>3
    <2> QED
      BY <1>1, <2>4, <2>5, <2>6
  <1> HIDE DEF line
  <1>7. \A u \in Thread : /\ Len(rollout[u].edges) <= Len(rollout'[u].edges)
                          /\ \A i \in 1..Len(rollout[u].edges) : rollout'[u].edges[i] = rollout[u].edges[i]
                          /\ ~rollout'[u].header => rollout'[u].edges = <<>>
    <2>1. ASSUME NEW u \in Thread, u # t PROVE Len(rollout[u].edges) <= Len(rollout'[u].edges)
      BY <1>2, <1>6, <2>1, CodexParts
    <2>2. Len(rollout[t].edges) <= Len(rollout'[t].edges)
      BY <1>4, <1>5, <1>6
    <2> QED
      BY <1>2, <1>5, <1>6, <2>1, <2>2 DEF RolloutsFit
  <1>8. \A u \in Thread \ {t} : EdgesOf(u)' = EdgesOf(u)
    BY <1>6 DEF EdgesOf
  <1>9. EdgesOf(t)' = EdgesOf(t) \cup {edges'}
    <2>1. EdgesOf(t)' = {line[i] : i \in 1..(Len(old) + 1)}
      BY <1>4, <1>5, <1>6 DEF EdgesOf
    <2>2. EdgesOf(t) = {old[i] : i \in 1..Len(old)}
      BY <1>2, CodexParts
    <2>3. \A i \in 1..(Len(old) + 1) : i \in 1..Len(old) \/ i = Len(old) + 1
      BY <1>4
    <2>4. ASSUME NEW e PROVE (\E i \in 1..(Len(old) + 1) : e = line[i]) <=> (\E i \in 1..Len(old) : e = old[i]) \/ e = edges'
      BY <1>4, <1>5, <2>3
    <2> QED
      BY <2>1, <2>2, <2>4, Zenon
  <1>10. \A u \in Thread : \A e \in EdgesOf(u) : e <= edges
    BY <1>2 DEF RolloutsFit
  <1>11. \A u \in Thread : \A e \in EdgesOf(u)' :
            IF e <= edges THEN \E v \in Thread : e \in EdgesOf(v) /\ Root[v] = Root[u]
                          ELSE e <= edges' /\ \A v \in Thread : e \in EdgesOf(v)' => v = u
    BY <1>3, <1>8, <1>9, <1>10
  <1> QED
    BY <1>1, <1>3, <1>6, <1>7, <1>11, RolloutsGrow

\* A climb ends at a thread.
LEMMA ScopesAreThreads == ASSUME CodexTypeOK PROVE ScopesOf(cursor) \in [Thread -> Thread]
  <1> DEFINE over == {t \in Forked : rollout[t].header /\ Parent[t] \in Live \ Known(cursor)}
             ScopeAt(u) == IF ~rollout[u].header THEN u
                           ELSE IF Parent[u] \in Known(cursor) \ {u} THEN cursor[Parent[u]].scope ELSE Parent[u]
  <1>1. Climb(cursor) = [t \in Thread |-> ScopeAt(Top(over)[t])]
    BY DEF Climb
  <1>2. \A t \in Known(cursor) : cursor[t].scope \in Thread
    BY DEF Known, CodexTypeOK, RolloutCursor
  <1>3. over \in SUBSET Forked
    OBVIOUS
  <1>4. \A t \in Thread : Top(over)[t] \in Thread
    <2>1. Top(over) \in [Thread -> Thread \ over]
      BY <1>3, ForksMakeTrees
    <2> HIDE DEF over
    <2> QED
      BY <2>1
  <1>5. \A u \in Thread : ScopeAt(u) \in Thread
    BY <1>2, RootsFit
  <1> HIDE DEF over, ScopeAt
  <1>6. \A t \in Thread : Climb(cursor)[t] \in Thread
    BY <1>1, <1>4, <1>5
  <1> QED
    BY <1>2, <1>6 DEF ScopesOf

LEMMA DiscoverRolloutsFits == ASSUME CodexFits, DiscoverRollouts PROVE CodexFits'
  <1> USE DEF CodexFits
  <1>1. /\ stage = "idle" /\ stage' = "scan" /\ whole' = (\A t \in Thread : ~cursor[t].there)
        /\ work' = cursor /\ keys' = scopes /\ queue' = Live /\ gains' = NoEdges
        /\ scopeOf' = ScopesOf(cursor) /\ astray' = astray \cup {t \in Live : scopeOf'[t] # Root[t]}
        /\ UNCHANGED <<rollout, cursor, scopes, tally, edges, lostKeys>>
    BY DEF DiscoverRollouts, cliVars
  <1>2. scopeOf' \in [Thread -> Thread]
    BY <1>1, ScopesAreThreads
  <1>3. CodexTypeOK'
    <2>1. gains' \in [Edge -> Nat]
      BY <1>1 DEF NoEdges
    <2>2. whole' \in BOOLEAN
      BY <1>1
    <2>3. queue' \subseteq Thread /\ astray' \subseteq Thread
      BY <1>1 DEF Live, CodexTypeOK
    <2> QED
      BY <1>1, <1>2, <2>1, <2>2, <2>3 DEF CodexTypeOK
  <1>4. \A t : EdgesOf(t)' = EdgesOf(t)
    BY <1>1 DEF EdgesOf
  <1>5. RolloutsFit'
    BY <1>1, <1>4 DEF RolloutsFit
  <1>6. RolloutCursorsFit(cursor)' /\ RolloutCursorsFit(work)'
    BY <1>1 DEF RolloutCursorsFit
  <1>7. CodexSyncFits'
    BY <1>1, <1>2 DEF CodexSyncFits, Live
  <1>9. SoundScopes(cursor, scopes, tally, lostKeys)'
    BY <1>1, <1>4 DEF SoundScopes, UnsureEdge
  <1>10. SoundScopes(work, keys, EdgesNow, LostEdgesNow)'
    <2>1. CASE whole'
      <3>1. \A e \in Edge : EdgesNow'[e] = 0
        <4>1. \A e \in Edge : gains'[e] = 0
          BY <1>1 DEF NoEdges
        <4> QED
          BY <2>1, <4>1 DEF EdgesNow
      <3>2. \A t \in Thread : cursor[t] = NoRolloutCursor
        BY <1>1, <2>1 DEF RolloutCursorsFit
      <3>3. \A t \in Thread : cursor[t].offset = 0 /\ cursor[t].scope \notin Thread
        BY <3>2, RootsFit DEF NoRolloutCursor
      <3>4. \A s \in Thread : scopes[s] = {}
        BY <3>3 DEF CodexSyncFits
      <3> QED
        BY <1>1, <3>1, <3>3, <3>4 DEF SoundScopes
    <2>2. CASE ~whole'
      <3>1. \A e \in Edge : EdgesNow'[e] = tally[e]
        BY <1>1, <2>2, CodexParts DEF EdgesNow, NoEdges
      <3>2. EdgesNow' = tally
        BY <3>1, Zenon DEF EdgesNow, CodexTypeOK
      <3>3. LostEdgesNow' = lostKeys
        BY <1>1, <2>2 DEF LostEdgesNow
      <3> QED
        BY <1>1, <1>4, <3>2, <3>3 DEF SoundScopes, UnsureEdge
    <2> QED
      BY <2>1, <2>2
  <1> QED
    BY <1>3, <1>5, <1>6, <1>7, <1>9, <1>10

LEMMA TakeRolloutFits == ASSUME CodexFits, NEW t \in Thread, TakeRollout(t) PROVE CodexFits'
  <1> USE DEF CodexFits
  <1>1. /\ stage = "scan" /\ t \in queue /\ queue' = queue \ {t}
        /\ UNCHANGED <<rollout, cursor, scopes, tally, stage, whole, scopeOf, edges, astray, lostKeys>>
    BY DEF TakeRollout, cliVars
  <1>2. /\ scopeOf[t] \in Thread /\ (scopeOf[t] = Root[t] \/ t \in astray)
        /\ \A u \in queue' : scopeOf[u] \in Thread /\ (scopeOf[u] = Root[u] \/ u \in astray)
        /\ SoundScopes(work, keys, EdgesNow, LostEdgesNow)
    BY <1>1 DEF CodexSyncFits
  <1>3. \A u : EdgesOf(u)' = EdgesOf(u)
    BY <1>1 DEF EdgesOf
  <1>4. RolloutsFit' /\ RolloutCursorsFit(cursor)'
    BY <1>1, <1>3 DEF RolloutsFit, RolloutCursorsFit
  <1>5. CodexSyncFits' /\ queue' \subseteq Thread
    BY <1>1, <1>2 DEF CodexSyncFits, CodexTypeOK
  <1>6. SoundScopes(cursor, scopes, tally, lostKeys)'
    BY <1>1, <1>3 DEF SoundScopes, UnsureEdge
  <1>7. LostEdgesNow' = LostEdgesNow /\ \A e, lost : UnsureEdge(e, lost)' <=> UnsureEdge(e, lost)
    BY <1>1, <1>3 DEF LostEdgesNow, UnsureEdge
  <1>8. CASE UNCHANGED <<work, keys, gains>>
    <2>1. EdgesNow' = EdgesNow
      BY <1>1, <1>8 DEF EdgesNow
    <2>2. CodexTypeOK' /\ RolloutCursorsFit(work)'
      BY <1>1, <1>5, <1>8 DEF CodexTypeOK, RolloutCursorsFit
    <2> QED
      BY <1>1, <1>2, <1>3, <1>4, <1>5, <1>6, <1>7, <1>8, <2>1, <2>2 DEF SoundScopes
  <1>9. CASE /\ rollout[t].there /\ work[t].there /\ ~rollout[t].header
             /\ work' = [work EXCEPT ![t].scope = NoScope] /\ UNCHANGED <<keys, gains>>
    <2>1. EdgesNow' = EdgesNow
      BY <1>1, <1>9 DEF EdgesNow
    <2>2. /\ work' \in [Thread -> RolloutCursor] /\ work'[t].there = work[t].there
          /\ work'[t].scope = NoScope
          /\ \A u \in Thread : work'[u].offset = work[u].offset /\ (u # t => work'[u] = work[u])
      BY <1>9 DEF CodexTypeOK, RolloutCursor
    <2>3. CodexTypeOK'
      BY <1>1, <1>5, <1>9, <2>2 DEF CodexTypeOK
    <2>4. RolloutCursorsFit(work)'
      BY <1>1, <1>9, <2>2 DEF RolloutCursorsFit
    <2>5. SoundScopes(work, keys, EdgesNow, LostEdgesNow)'
      BY <1>1, <1>2, <1>3, <1>7, <1>9, <2>1, <2>2 DEF SoundScopes
    <2> QED
      BY <1>1, <1>4, <1>5, <1>6, <2>3, <2>4, <2>5
  <1>10. CASE /\ work' = [work EXCEPT ![t] = [there |-> TRUE, offset |-> Len(rollout[t].edges), scope |-> scopeOf[t]]]
              /\ keys' = [keys EXCEPT ![scopeOf[t]] = @ \cup New(t)]
              /\ gains' = [e \in Edge |-> gains[e] + (IF e \in New(t) THEN 1 ELSE 0)]
    <2> DEFINE next == [there |-> TRUE, offset |-> Len(rollout[t].edges), scope |-> scopeOf[t]]
               new == New(t)
    <2>1. /\ Len(rollout[t].edges) \in Nat /\ work[t].offset \in Nat
          /\ \A i \in 1..Len(rollout[t].edges) : rollout[t].edges[i] \in Edge
          /\ EdgesOf(t) = {rollout[t].edges[i] : i \in 1..Len(rollout[t].edges)}
      BY CodexParts
    <2>2. next \in RolloutCursor /\ next.there /\ next.offset = Len(rollout[t].edges) /\ next.scope = scopeOf[t]
      BY <1>2, <2>1 DEF RolloutCursor
    <2>3. new = {rollout[t].edges[i] : i \in (work[t].offset + 1)..Len(rollout[t].edges)} \ keys[scopeOf[t]]
      BY DEF New
    <2>4. new \subseteq EdgesOf(t) /\ new \subseteq Edge
      BY <2>1, <2>3
    <2>5. \A i \in 1..Len(rollout[t].edges) :
             \/ i \in 1..work[t].offset
             \/ rollout[t].edges[i] \in new
             \/ rollout[t].edges[i] \in keys[scopeOf[t]]
      BY <2>1, <2>3
    <2>6. work' = [work EXCEPT ![t] = next] /\ keys' = [keys EXCEPT ![scopeOf[t]] = @ \cup new]
      BY <1>10
    <2>6a. gains' = [e \in Edge |-> gains[e] + (IF e \in new THEN 1 ELSE 0)]
      BY <1>10
    <2>6b. \A e \in new : e \notin keys[scopeOf[t]]
      BY <2>3
    <2> HIDE DEF next, new
    <2>7. work' \in [Thread -> RolloutCursor] /\ work'[t] = next /\ \A u \in Thread \ {t} : work'[u] = work[u]
      BY <2>2, <2>6 DEF CodexTypeOK
    <2>8. /\ keys' \in [Thread -> SUBSET Edge] /\ keys'[scopeOf[t]] = keys[scopeOf[t]] \cup new
          /\ \A s \in Thread \ {scopeOf[t]} : keys'[s] = keys[s]
      BY <1>2, <2>4, <2>6 DEF CodexTypeOK
    <2>9. /\ gains' \in [Edge -> Nat]
          /\ \A e \in Edge : EdgesNow'[e] = EdgesNow[e] + (IF e \in new THEN 1 ELSE 0)
      BY <1>1, <2>6a, CodexParts DEF EdgesNow
    <2>10. CodexTypeOK'
      BY <1>1, <1>5, <2>7, <2>8, <2>9 DEF CodexTypeOK
    <2>11. RolloutCursorsFit(work)'
      <3>1. /\ next.offset <= Len(rollout[t].edges)
            /\ next.scope \in {NoScope, Root[t]} \/ t \in astray
        BY <1>2, <2>1, <2>2
      <3> QED
        BY <1>1, <2>2, <2>7, <3>1 DEF RolloutCursorsFit
    <2>12. \A e \in Edge : EdgesNow[e] \in Nat /\ EdgesNow'[e] \in Nat /\ (EdgesNow[e] > 0 \/ e \in new => EdgesNow'[e] > 0)
      BY <2>9, CodexParts
    <2>13. ASSUME NEW e \in Edge, EdgesNow'[e] > 0
           PROVE  /\ e <= edges
                  /\ UnsureEdge(e, LostEdgesNow) \/ (EdgesNow'[e] = 1 /\ \A u \in Thread : e \in EdgesOf(u) => e \in keys'[Root[u]])
      <3>1. CASE e \in new
        <4>1. e <= edges
          BY <2>4, <3>1 DEF RolloutsFit
        <4>2. ASSUME ~UnsureEdge(e, LostEdgesNow) PROVE EdgesNow'[e] = 1 /\ \A u \in Thread : e \in EdgesOf(u) => e \in keys'[Root[u]]
          <5>1. scopeOf[t] = Root[t]
            BY <1>2, <2>4, <3>1, <4>2 DEF UnsureEdge
          <5>2. ~(EdgesNow[e] > 0)
            BY <1>2, <2>4, <2>6b, <3>1, <4>2, <5>1 DEF SoundScopes
          <5>3. \A u \in Thread : e \in EdgesOf(u) => Root[u] = Root[t]
            BY <2>4, <3>1 DEF RolloutsFit
          <5> QED
            BY <2>8, <2>9, <2>12, <3>1, <5>1, <5>2, <5>3
        <4> QED
          BY <4>1, <4>2
      <3>2. CASE e \notin new
        <4>1. EdgesNow'[e] = EdgesNow[e]
          BY <2>9, <2>12, <3>2
        <4>2. \A s \in Thread : e \in keys[s] => e \in keys'[s]
          BY <2>8
        <4> QED
          BY <1>2, <2>13, <4>1, <4>2, RootsFit DEF SoundScopes
      <3> QED
        BY <3>1, <3>2
    <2>14. ASSUME NEW s \in Thread, NEW e \in keys'[s] PROVE EdgesNow'[e] > 0
      <3>1. e \in keys[s] \/ e \in new
        BY <2>8
      <3>2. e \in Edge
        BY <2>8
      <3> QED
        BY <1>2, <2>12, <3>1, <3>2 DEF SoundScopes
    <2>15. ASSUME NEW u \in Thread, NEW i \in 1..work'[u].offset PROVE EdgesNow'[rollout[u].edges[i]] > 0
      <3>1. work[u].offset \in Nat /\ work[u].offset <= Len(rollout[u].edges) /\ Len(rollout[u].edges) \in Nat
        BY CodexParts DEF RolloutCursorsFit
      <3>2. ASSUME i \in 1..work[u].offset PROVE EdgesNow'[rollout[u].edges[i]] > 0
        <4>1. EdgesNow[rollout[u].edges[i]] > 0 /\ rollout[u].edges[i] \in Edge
          BY <1>2, <3>1, <3>2, CodexParts DEF SoundScopes
        <4> QED
          BY <2>12, <4>1
      <3>3. CASE u # t
        BY <2>7, <3>2, <3>3
      <3>4. CASE u = t
        <4>1. i \in 1..Len(rollout[t].edges)
          BY <2>2, <2>7, <3>4
        <4>2. rollout[t].edges[i] \in Edge
          BY <2>1, <4>1
        <4>3. rollout[t].edges[i] \in keys[scopeOf[t]] => EdgesNow[rollout[t].edges[i]] > 0
          BY <1>2 DEF SoundScopes
        <4> QED
          BY <2>5, <2>12, <3>2, <3>4, <4>1, <4>2, <4>3
      <3> QED
        BY <3>3, <3>4
    <2>16. SoundScopes(work, keys, EdgesNow, LostEdgesNow)'
      BY <1>1, <1>3, <1>7, <2>13, <2>14, <2>15 DEF SoundScopes
    <2> QED
      BY <1>1, <1>4, <1>5, <1>6, <2>10, <2>11, <2>16
  <1> QED
    BY <1>8, <1>9, <1>10 DEF TakeRollout, RestoreKeys

LEMMA CommitCodexFits == ASSUME CodexFits, CommitCodex PROVE CodexFits'
  <1> USE DEF CodexFits
  <1>1. /\ stage = "scan" /\ queue = {} /\ stage' = "idle"
        /\ cursor' = [t \in Thread |-> IF rollout[t].there THEN work[t] ELSE NoRolloutCursor]
        /\ scopes' = LiveKeys(cursor')
        /\ tally' = [e \in Edge |-> gains[e] + (IF whole THEN 0 ELSE tally[e])]
        /\ lostKeys' = {e \in Edge : tally'[e] > 0 /\ e \in (IF whole THEN {} ELSE lostKeys) \cup
                           (UNION {keys[s] : s \in {s \in Thread : \A t \in Thread : cursor'[t].scope # s}})}
        /\ work' = cursor' /\ keys' = NoKeys /\ gains' = NoEdges /\ whole' = FALSE
        /\ scopeOf' = [t \in Thread |-> NoScope]
        /\ UNCHANGED <<rollout, queue, edges, astray>>
    BY DEF CommitCodex
  <1>2. tally' = EdgesNow /\ EdgesNow \in [Edge -> Nat]
    BY <1>1, CodexParts DEF EdgesNow
  <1>3. cursor' \in [Thread -> RolloutCursor] /\ \A t \in Thread : cursor'[t] \in {work[t], NoRolloutCursor}
    <2>1. NoRolloutCursor \in RolloutCursor
      BY DEF NoRolloutCursor, RolloutCursor
    <2> QED
      BY <1>1, <2>1 DEF CodexTypeOK
  <1>4. /\ scopes' \in [Thread -> SUBSET Edge] /\ \A s \in Thread : scopes'[s] \in {keys[s], {}}
        /\ \A s \in Thread : scopes'[s] # {} => \E t \in Thread : cursor'[t].scope = s
        /\ \A s \in Thread : (\E t \in Thread : cursor'[t].scope = s) => scopes'[s] = keys[s]
    BY <1>1 DEF LiveKeys, CodexTypeOK
  <1>5. CodexTypeOK'
    <2>1. gains' \in [Edge -> Nat] /\ keys' \in [Thread -> SUBSET Edge]
      BY <1>1 DEF NoEdges, NoKeys
    <2>2. scopeOf' \in [Thread -> Thread \cup {NoScope}] /\ lostKeys' \subseteq Edge
      BY <1>1
    <2> QED
      BY <1>1, <1>2, <1>3, <1>4, <2>1, <2>2 DEF CodexTypeOK
  <1>6. \A t : EdgesOf(t)' = EdgesOf(t)
    BY <1>1 DEF EdgesOf
  <1>7. RolloutsFit'
    BY <1>1, <1>6 DEF RolloutsFit
  <1>8. RolloutCursorsFit(cursor)' /\ RolloutCursorsFit(work)'
    <2>1. \A t \in Thread : 0 <= Len(rollout[t].edges)
      BY CodexParts
    <2>2. NoRolloutCursor.offset = 0 /\ NoRolloutCursor.scope = NoScope
      BY DEF NoRolloutCursor
    <2> QED
      BY <1>1, <1>3, <2>1, <2>2 DEF RolloutCursorsFit
  <1>9. CodexSyncFits'
    BY <1>1, <1>4 DEF CodexSyncFits
  <1>10. SoundScopes(work, keys, EdgesNow, LostEdgesNow)
    BY <1>1
  <1>11. ASSUME NEW e \in Edge, EdgesNow[e] > 0, ~UnsureEdge(e, lostKeys')
         PROVE  EdgesNow[e] = 1 /\ \A t \in Thread : e \in EdgesOf(t) => e \in scopes'[Root[t]]
    <2>1. e \notin LostEdgesNow /\ \A s \in Thread : e \in keys[s] => \E t \in Thread : cursor'[t].scope = s
      BY <1>1, <1>2, <1>11 DEF UnsureEdge, LostEdgesNow
    <2>2. ~UnsureEdge(e, LostEdgesNow)
      BY <1>11, <2>1 DEF UnsureEdge
    <2> QED
      BY <1>4, <1>10, <1>11, <2>1, <2>2, RootsFit DEF SoundScopes
  <1>12. SoundScopes(cursor, scopes, tally, lostKeys)'
    <2>1. \A e \in Edge : EdgesNow[e] > 0 => e <= edges
      BY <1>10 DEF SoundScopes
    <2>2. \A s \in Thread : \A e \in scopes'[s] : EdgesNow[e] > 0
      BY <1>4, <1>10 DEF SoundScopes
    <2>3. \A t \in Thread : \A i \in 1..cursor'[t].offset : EdgesNow[rollout[t].edges[i]] > 0
      BY <1>3, <1>10 DEF SoundScopes, NoRolloutCursor
    <2>4. \A e \in Edge : EdgesNow[e] > 0 =>
             \/ e \in lostKeys' \/ \E t \in astray' : e \in EdgesOf(t)'
             \/ EdgesNow[e] = 1 /\ \A t \in Thread : e \in EdgesOf(t)' => e \in scopes'[Root[t]]
      BY <1>1, <1>6, <1>11 DEF UnsureEdge
    <2> HIDE DEF EdgesNow
    <2> QED
      BY <1>1, <1>2, <2>1, <2>2, <2>3, <2>4 DEF SoundScopes, UnsureEdge
  <1> QED
    BY <1>1, <1>5, <1>7, <1>8, <1>9, <1>12

LEMMA CrashCodexFits == ASSUME CodexFits, CrashCodex PROVE CodexFits'
  <1> USE DEF CodexFits
  <1>1. /\ stage' = "idle" /\ work' = cursor /\ keys' = NoKeys /\ queue' = {} /\ gains' = NoEdges /\ whole' = FALSE
        /\ scopeOf' = [t \in Thread |-> NoScope]
        /\ UNCHANGED <<rollout, cursor, scopes, tally, edges, astray, lostKeys>>
    BY DEF CrashCodex, cliVars
  <1>2. CodexTypeOK'
    <2>1. gains' \in [Edge -> Nat] /\ keys' \in [Thread -> SUBSET Edge]
      BY <1>1 DEF NoEdges, NoKeys
    <2>2. scopeOf' \in [Thread -> Thread \cup {NoScope}]
      BY <1>1
    <2> QED
      BY <1>1, <2>1, <2>2 DEF CodexTypeOK
  <1>3. RolloutsFit' /\ RolloutCursorsFit(cursor)' /\ RolloutCursorsFit(work)' /\ CodexSyncFits'
    BY <1>1 DEF RolloutsFit, RolloutCursorsFit, CodexSyncFits, EdgesOf
  <1>4. SoundScopes(cursor, scopes, tally, lostKeys)'
    BY <1>1 DEF SoundScopes, UnsureEdge, EdgesOf
  <1> QED
    BY <1>1, <1>2, <1>3, <1>4

LEMMA ResetCodexFits == ASSUME CodexFits, ResetCodex PROVE CodexFits'
  <1> USE DEF CodexFits
  <1>1. /\ stage = "idle" /\ cursor' = [t \in Thread |-> NoRolloutCursor] /\ scopes' = NoKeys /\ tally' = NoEdges
        /\ work' = cursor' /\ astray' = {} /\ lostKeys' = {}
        /\ UNCHANGED <<rollout, stage, whole, scopeOf, keys, queue, gains, edges>>
    BY DEF ResetCodex
  <1>2. CodexTypeOK'
    <2>1. tally' \in [Edge -> Nat] /\ scopes' \in [Thread -> SUBSET Edge]
      BY <1>1 DEF NoEdges, NoKeys
    <2>2. cursor' \in [Thread -> RolloutCursor]
      BY <1>1 DEF NoRolloutCursor, RolloutCursor
    <2>3. astray' \subseteq Thread /\ lostKeys' \subseteq Edge
      BY <1>1
    <2> QED
      BY <1>1, <2>1, <2>2, <2>3 DEF CodexTypeOK
  <1>3. RolloutsFit'
    BY <1>1 DEF RolloutsFit, EdgesOf
  <1>4. \A t \in Thread : cursor'[t] = NoRolloutCursor /\ cursor'[t].offset = 0 /\ cursor'[t].scope = NoScope
    BY <1>1 DEF NoRolloutCursor
  <1>5. RolloutCursorsFit(cursor)' /\ RolloutCursorsFit(work)'
    <2>1. \A t \in Thread : 0 <= Len(rollout[t].edges)
      BY CodexParts
    <2> QED
      BY <1>1, <1>4, <2>1 DEF RolloutCursorsFit
  <1>6. CodexSyncFits'
    BY <1>1 DEF CodexSyncFits, NoKeys
  <1>7. SoundScopes(cursor, scopes, tally, lostKeys)'
    BY <1>1, <1>4 DEF SoundScopes, NoEdges, NoKeys
  <1> QED
    BY <1>1, <1>2, <1>3, <1>5, <1>6, <1>7

LEMMA CodexStarts == CodexInit => CodexFits
  <1> SUFFICES ASSUME CodexInit PROVE CodexFits
    OBVIOUS
  <1> USE DEF CodexInit
  <1>1. NoFile \in Rollout /\ NoRolloutCursor \in RolloutCursor
    BY DEF NoFile, Rollout, NoRolloutCursor, RolloutCursor
  <1>2. CodexTypeOK
    BY <1>1 DEF CodexTypeOK, NoKeys, NoEdges
  <1>3. \A t \in Thread : rollout[t].edges = <<>> /\ EdgesOf(t) = {}
    BY DEF NoFile, EdgesOf
  <1>4. \A t \in Thread : cursor[t] = NoRolloutCursor /\ cursor[t].offset = 0 /\ cursor[t].scope = NoScope
    BY DEF NoRolloutCursor
  <1>5. RolloutsFit /\ RolloutCursorsFit(cursor)
    BY <1>3, <1>4 DEF RolloutsFit, RolloutCursorsFit
  <1>6. CodexSyncFits
    BY DEF CodexSyncFits, NoKeys
  <1>7. SoundScopes(cursor, scopes, tally, lostKeys)
    BY <1>4 DEF SoundScopes, NoEdges, NoKeys
  <1> QED
    BY <1>2, <1>5, <1>6, <1>7 DEF CodexFits

LEMMA CodexStep == ASSUME CodexFits, [CodexNext]_codexVars PROVE CodexFits'
  <1>1. CASE CodexNext
    BY <1>1, OpenFits, ForkThreadFits, UseFits, PruneFits, TakeRolloutFits, DiscoverRolloutsFits,
       CommitCodexFits, CrashCodexFits, ResetCodexFits DEF CodexNext
  <1>2. CASE UNCHANGED codexVars
    <2> USE <1>2 DEF codexVars, cliVars, syncing
    <2>1. CodexTypeOK' /\ RolloutsFit'
      BY DEF CodexFits, CodexTypeOK, RolloutsFit, EdgesOf
    <2>1a. RolloutCursorsFit(cursor)' /\ RolloutCursorsFit(work)' /\ CodexSyncFits'
      BY DEF CodexFits, RolloutCursorsFit, CodexSyncFits
    <2>2. SoundScopes(cursor, scopes, tally, lostKeys)' /\ (stage' = "scan" => SoundScopes(work, keys, EdgesNow, LostEdgesNow)')
      BY DEF CodexFits, SoundScopes, UnsureEdge, EdgesOf, EdgesNow, LostEdgesNow
    <2> QED
      BY <2>1, <2>1a, <2>2 DEF CodexFits
  <1> QED
    BY <1>1, <1>2

LEMMA CodexImplies == ASSUME CodexFits PROVE EdgeOnce /\ NoEdgeLost
  <1>1. CodexTypeOK /\ SoundScopes(cursor, scopes, tally, lostKeys)
    BY DEF CodexFits
  <1>2. EdgeOnce
    BY <1>1, CodexParts DEF EdgeOnce, SoundScopes, UnsureEdge
  <1>3. NoEdgeLost
    BY <1>1 DEF NoEdgeLost, SoundScopes, Live
  <1> QED
    BY <1>2, <1>3

-----------------------------------------------------------------------------
(* OpenCode: messages in files and in a database.                          *)

JsonFile == [there : BOOLEAN, total : Nat, torn : BOOLEAN]
DbRow == [there : BOOLEAN, time : Nat, total : Nat]
FileCursor == [there : BOOLEAN, seen : JsonFile, last : Nat, key : BOOLEAN]
DbCursor == [there : BOOLEAN, ino : Nat, time : Nat, ids : SUBSET Msg]
SyncCursors == [files : [Msg -> FileCursor], dir : Nat, db : DbCursor]

OpenCodeTypeOK ==
    /\ json \in [Msg -> JsonFile] /\ db \in [Msg -> DbRow]
    /\ dirTime \in Nat \ {0} /\ dbIno \in Nat /\ clock \in Nat
    /\ openCodeDisk \in SyncCursors /\ mine \in SyncCursors
    /\ count \in [Msg -> Int] /\ sum \in [Msg -> Int]
    /\ step \in {"idle", "files", "commit"} /\ fresh \in BOOLEAN /\ settled \in BOOLEAN
    /\ unread \subseteq Msg

\* What the rows would be if the sync committed now.
CountedNow(m) == sum[m] + (IF fresh THEN 0 ELSE count[m])

\* A message in both stores is the same message in both.
OpenCodeStoresFit ==
    \A m \in Msg : /\ ~json[m].there => json[m] = NoJson
                   /\ ~db[m].there => db[m] = NoRow
                   /\ json[m].there /\ db[m].there => json[m].total = db[m].total
                   /\ db[m].time <= clock

\* Cursors are behind what they were made for.
MessageCursorsFit(cs) ==
    /\ cs.dir <= dirTime /\ cs.db.time <= clock
    /\ \A m \in cs.db.ids : db[m].there /\ db[m].time = cs.db.time
    /\ ~cs.db.there => cs.db = NoDbCursor
    /\ \A m \in Msg : LET c == cs.files[m] IN
                          /\ c.last <= json[m].total
                          /\ c.there => json[m].there
                          /\ ~c.there => c = NoFileCursor
                          /\ c.there /\ ~c.seen.torn => c.last = c.seen.total

\* n tokens of a message are what cursors say was counted of it.
AccountedFor(m, cs, n) ==
    /\ json[m].there => /\ n >= cs.files[m].last
                        /\ m \in overlapped \/ n = cs.files[m].last
    /\ ~json[m].there => /\ 0 <= n /\ n <= db[m].total
                         /\ n > 0 => Passed(m, cs.db)
                         /\ Passed(m, cs.db) => n >= db[m].total \/ m \in early \cup late

NothingRead(cs) == cs.files = NoCursors.files /\ ~cs.db.there

OpenCodeDiskFits == NothingRead(openCodeDisk) \/ \A m \in Msg : AccountedFor(m, openCodeDisk, count[m])
OpenCodeRunFits == step # "idle" \/ settled => \A m \in Msg : AccountedFor(m, mine, CountedNow(m))

\* A directory that looks unchanged holds what was read of it.
OpenCodeSeenFits ==
    /\ \A m \in Msg \ unseen : openCodeDisk.dir = dirTime /\ json[m].there =>
          openCodeDisk.files[m].there /\ openCodeDisk.files[m].seen = json[m]
    /\ \A m \in Msg \ (unseen \cup unread) : mine.dir = dirTime /\ json[m].there =>
          mine.files[m].there /\ mine.files[m].seen = json[m]
    /\ \A m \in unread : json[m].there /\ openCodeDisk.dir < dirTime

OpenCodeStepsFit ==
    /\ step = "idle" => mine = openCodeDisk /\ sum = Nothing /\ ~fresh
    /\ step \in {"idle", "commit"} => unread = {}
    /\ settled => mine.dir = dirTime
    /\ settled /\ step # "files" => \A m \in Msg : db[m].there => Passed(m, mine.db)
    /\ ~fresh /\ step # "idle" => ~NothingRead(openCodeDisk)

OpenCodeFits ==
    /\ OpenCodeTypeOK /\ OpenCodeStoresFit /\ MessageCursorsFit(openCodeDisk) /\ MessageCursorsFit(mine)
    /\ OpenCodeDiskFits /\ OpenCodeRunFits /\ OpenCodeSeenFits /\ OpenCodeStepsFit /\ NeverTwice

\* Typed parts of the state.
LEMMA OpenCodeParts ==
    ASSUME OpenCodeTypeOK
    PROVE  /\ \A m \in Msg : /\ json[m] \in JsonFile /\ db[m] \in DbRow
                            /\ json[m].total \in Nat /\ json[m].there \in BOOLEAN /\ json[m].torn \in BOOLEAN
                            /\ db[m].total \in Nat /\ db[m].time \in Nat /\ db[m].there \in BOOLEAN
                            /\ count[m] \in Int /\ sum[m] \in Int /\ CountedNow(m) \in Int
           /\ \A cs \in {openCodeDisk, mine} :
                 /\ cs.dir \in Nat /\ cs.db \in DbCursor
                 /\ cs.db.time \in Nat /\ cs.db.ids \subseteq Msg /\ cs.db.there \in BOOLEAN
                 /\ \A m \in Msg : /\ cs.files[m] \in FileCursor /\ cs.files[m].last \in Nat
                                   /\ cs.files[m].there \in BOOLEAN /\ cs.files[m].key \in BOOLEAN
  <1>1. \A m \in Msg : /\ json[m] \in JsonFile /\ db[m] \in DbRow /\ count[m] \in Int /\ sum[m] \in Int
                      /\ CountedNow(m) \in Int
    BY DEF OpenCodeTypeOK, CountedNow
  <1>2. \A m \in Msg : /\ json[m].total \in Nat /\ json[m].there \in BOOLEAN /\ json[m].torn \in BOOLEAN
                      /\ db[m].total \in Nat /\ db[m].time \in Nat /\ db[m].there \in BOOLEAN
    BY <1>1 DEF JsonFile, DbRow
  <1>3. ASSUME NEW cs \in {openCodeDisk, mine}
        PROVE  /\ cs.dir \in Nat /\ cs.db \in DbCursor /\ cs.files \in [Msg -> FileCursor]
    BY DEF OpenCodeTypeOK, SyncCursors
  <1>4. ASSUME NEW d \in DbCursor PROVE d.time \in Nat /\ d.ids \subseteq Msg /\ d.there \in BOOLEAN
    BY DEF DbCursor
  <1>5. ASSUME NEW c \in FileCursor PROVE c.last \in Nat /\ c.there \in BOOLEAN /\ c.key \in BOOLEAN
    BY DEF FileCursor
  <1> QED
    BY <1>1, <1>2, <1>3, <1>4, <1>5

\* A bounded set of numbers has a highest one.

LEMMA CreateFileFits == ASSUME OpenCodeFits, NEW m \in Msg, CreateFile(m) PROVE OpenCodeFits'
  <1> USE DEF OpenCodeFits
  <1>1. PICK torn \in BOOLEAN : json' = [json EXCEPT ![m] = [there |-> TRUE, total |-> 0, torn |-> torn]]
    BY DEF CreateFile
  <1>2. /\ ~json[m].there /\ ~db[m].there /\ dirTime' = dirTime + 1 /\ settled' = FALSE
        /\ UNCHANGED <<db, dbIno, clock, openCodeDisk, count, overlapped, early, late, unseen>>
        /\ UNCHANGED <<step, fresh, mine, unread, sum>>
    BY DEF CreateFile, runVars
  <1> DEFINE new == [there |-> TRUE, total |-> 0, torn |-> torn]
  <1>3. /\ new \in JsonFile /\ new.there /\ new.total = 0
        /\ json' \in [Msg -> JsonFile] /\ json'[m] = new /\ \A k \in Msg \ {m} : json'[k] = json[k]
    BY <1>1 DEF OpenCodeTypeOK, JsonFile
  <1> HIDE DEF new
  <1>4. OpenCodeTypeOK'
    <2>1. dirTime' \in Nat \ {0}
      BY <1>2 DEF OpenCodeTypeOK
    <2>2. settled' \in BOOLEAN
      BY <1>2
    <2> QED
      BY <1>2, <1>3, <2>1, <2>2 DEF OpenCodeTypeOK
  <1>5. OpenCodeStoresFit'
    BY <1>2, <1>3 DEF OpenCodeStoresFit
  <1>6. ASSUME NEW cs \in {openCodeDisk, mine}
        PROVE  cs.files[m] = NoFileCursor /\ cs.files[m].last = 0 /\ ~cs.files[m].there
    <2>1. MessageCursorsFit(cs) /\ cs.files[m].there \in BOOLEAN
      BY OpenCodeParts
    <2>2. cs.files[m] = NoFileCursor
      BY <1>2, <2>1 DEF MessageCursorsFit
    <2> QED
      BY <2>2 DEF NoFileCursor
  <1>7. MessageCursorsFit(openCodeDisk)' /\ MessageCursorsFit(mine)'
    <2>1. ASSUME NEW k \in Msg, NEW c, c \in {openCodeDisk.files[k], mine.files[k]}
          PROVE  c.last <= json[k].total => c.last <= json'[k].total
      <3>1. k = m => c.last = 0
        BY <1>6, <2>1
      <3>2. k # m => json'[k] = json[k]
        BY <1>3
      <3> QED
        BY <1>3, <3>1, <3>2
    <2>2. \A k \in Msg : json[k].there => json'[k].there
      BY <1>3
    <2>3. openCodeDisk.dir <= dirTime' /\ mine.dir <= dirTime'
      BY <1>2, OpenCodeParts DEF MessageCursorsFit, OpenCodeTypeOK
    <2> QED
      BY <1>2, <2>1, <2>2, <2>3 DEF MessageCursorsFit
  <1>8. ASSUME NEW cs \in {openCodeDisk, mine}, NEW n \in Int, AccountedFor(m, cs, n)
        PROVE  n = 0
    BY <1>2, <1>8, OpenCodeParts DEF AccountedFor, OpenCodeStoresFit, NoRow
  <1>9. OpenCodeDiskFits'
    <2> SUFFICES ASSUME ~NothingRead(openCodeDisk), NEW k \in Msg PROVE AccountedFor(k, openCodeDisk, count[k])'
      BY <1>2 DEF OpenCodeDiskFits, NothingRead
    <2>1. AccountedFor(k, openCodeDisk, count[k])
      BY DEF OpenCodeDiskFits
    <2> QED
      BY <1>2, <1>3, <1>6, <1>8, <2>1, OpenCodeParts DEF AccountedFor, Passed
  <1>10. OpenCodeRunFits'
    <2> SUFFICES ASSUME step # "idle", NEW k \in Msg PROVE AccountedFor(k, mine, CountedNow(k))'
      BY <1>2 DEF OpenCodeRunFits
    <2>1. AccountedFor(k, mine, CountedNow(k)) /\ CountedNow(k)' = CountedNow(k)
      BY <1>2 DEF OpenCodeRunFits, CountedNow
    <2> QED
      BY <1>2, <1>3, <1>6, <1>8, <2>1, OpenCodeParts DEF AccountedFor, Passed
  <1>11. OpenCodeSeenFits'
    <2>1. openCodeDisk.dir < dirTime' /\ mine.dir < dirTime'
      BY <1>2, OpenCodeParts DEF MessageCursorsFit, OpenCodeTypeOK
    <2>2. \A k \in unread : json'[k].there
      BY <1>3 DEF OpenCodeSeenFits, OpenCodeTypeOK
    <2> QED
      BY <1>2, <2>1, <2>2, OpenCodeParts DEF OpenCodeSeenFits, OpenCodeTypeOK
  <1>12. OpenCodeStepsFit'
    BY <1>2 DEF OpenCodeStepsFit, NothingRead
  <1>13. NeverTwice'
    <2>1. \A k \in Msg : Total(k)' >= Total(k) /\ Total(k) \in Int /\ Total(k)' \in Int
      BY <1>2, <1>3, OpenCodeParts DEF Total, Largest, OpenCodeStoresFit, NoJson
    <2> QED
      BY <1>2, <2>1, OpenCodeParts DEF NeverTwice
  <1> QED
    BY <1>4, <1>5, <1>7, <1>9, <1>10, <1>11, <1>12, <1>13

LEMMA CreateRowFits == ASSUME OpenCodeFits, NEW m \in Msg, CreateRow(m) PROVE OpenCodeFits'
  <1> USE DEF OpenCodeFits
  <1>1. PICK t \in {clock - 1, clock, clock + 1} \cap 1..MaxClock :
           /\ db' = [db EXCEPT ![m] = [there |-> TRUE, time |-> t, total |-> json[m].total]]
           /\ clock' = Largest(clock, t)
           /\ late' = IF t < clock THEN late \cup {m} ELSE late
    BY DEF CreateRow
  <1>2. /\ ~db[m].there /\ settled' = FALSE
        /\ UNCHANGED <<json, dirTime, dbIno, openCodeDisk, count, overlapped, early, unseen>>
        /\ UNCHANGED <<step, fresh, mine, unread, sum>>
    BY DEF CreateRow, runVars
  <1>3. t \in Nat /\ clock \in Nat /\ clock' \in Nat /\ clock <= clock' /\ t <= clock' /\ (t < clock \/ t >= clock)
    BY <1>1 DEF OpenCodeTypeOK, Largest
  <1> DEFINE new == [there |-> TRUE, time |-> t, total |-> json[m].total]
  <1>4. new \in DbRow /\ new.there /\ new.time = t /\ new.total = json[m].total
    BY <1>3, OpenCodeParts DEF DbRow
  <1> HIDE DEF new
  <1>5. db' \in [Msg -> DbRow] /\ db'[m] = new /\ \A k \in Msg \ {m} : db'[k] = db[k]
    BY <1>1, <1>4 DEF OpenCodeTypeOK, new
  <1>6. OpenCodeTypeOK'
    <2>1. settled' \in BOOLEAN
      BY <1>2
    <2> QED
      BY <1>2, <1>3, <1>5, <2>1 DEF OpenCodeTypeOK
  <1>7. OpenCodeStoresFit'
    BY <1>2, <1>3, <1>4, <1>5, OpenCodeParts DEF OpenCodeStoresFit
  <1>8. /\ \A k \in openCodeDisk.db.ids : k # m /\ k \in Msg
        /\ \A k \in mine.db.ids : k # m /\ k \in Msg
        /\ openCodeDisk.db.time <= clock /\ mine.db.time <= clock
    BY <1>2, OpenCodeParts DEF MessageCursorsFit
  <1>9. MessageCursorsFit(openCodeDisk)' /\ MessageCursorsFit(mine)'
    <2>1. openCodeDisk.db.time <= clock' /\ mine.db.time <= clock'
      BY <1>3, <1>8, OpenCodeParts
    <2> QED
      BY <1>2, <1>5, <1>8, <2>1 DEF MessageCursorsFit
  <1>10. ASSUME NEW cs, cs \in {openCodeDisk, mine}, NEW k \in Msg, NEW n \in Int, AccountedFor(k, cs, n)
         PROVE  /\ json[k].there => /\ n >= cs.files[k].last
                                    /\ k \in overlapped \/ n = cs.files[k].last
                /\ ~json[k].there =>
                      /\ 0 <= n /\ n <= db'[k].total
                      /\ n > 0 => db'[k].there /\ (db'[k].time < cs.db.time \/ k \in cs.db.ids)
                      /\ db'[k].there /\ (db'[k].time < cs.db.time \/ k \in cs.db.ids) =>
                            n >= db'[k].total \/ k \in early \cup late'
    <2>1. CASE k # m
      BY <1>1, <1>5, <1>10, <2>1 DEF AccountedFor, Passed
    <2>2. CASE k = m
      <3>1. /\ json[k].there => n >= cs.files[k].last /\ (k \in overlapped \/ n = cs.files[k].last)
            /\ ~json[k].there => n = 0
        BY <1>2, <1>10, <2>2, OpenCodeParts DEF AccountedFor, OpenCodeStoresFit, NoRow
      <3>2. ~json[k].there => db'[k].total = 0
        BY <1>4, <1>5, <2>2 DEF OpenCodeStoresFit, NoJson
      <3> QED
        BY <3>1, <3>2
    <2> QED
      BY <2>1, <2>2
  <1>11. OpenCodeDiskFits'
    <2> SUFFICES ASSUME ~NothingRead(openCodeDisk), NEW k \in Msg PROVE AccountedFor(k, openCodeDisk, count[k])'
      BY <1>2 DEF OpenCodeDiskFits, NothingRead
    <2>1. AccountedFor(k, openCodeDisk, count[k]) /\ count[k] \in Int
      BY OpenCodeParts DEF OpenCodeDiskFits
    <2> QED
      BY <1>2, <1>10, <2>1 DEF AccountedFor, Passed
  <1>12. OpenCodeRunFits'
    <2> SUFFICES ASSUME step # "idle", NEW k \in Msg PROVE AccountedFor(k, mine, CountedNow(k))'
      BY <1>2 DEF OpenCodeRunFits
    <2>1. AccountedFor(k, mine, CountedNow(k)) /\ CountedNow(k)' = CountedNow(k) /\ CountedNow(k) \in Int
      BY <1>2, OpenCodeParts DEF OpenCodeRunFits, CountedNow
    <2> QED
      BY <1>2, <1>10, <2>1 DEF AccountedFor, Passed
  <1>13. OpenCodeSeenFits'
    BY <1>2 DEF OpenCodeSeenFits
  <1>14. OpenCodeStepsFit'
    BY <1>2 DEF OpenCodeStepsFit, NothingRead
  <1>15. NeverTwice'
    <2>1. \A k \in Msg : Total(k)' >= Total(k) /\ Total(k) \in Int /\ Total(k)' \in Int
      BY <1>2, <1>4, <1>5, OpenCodeParts DEF Total, Largest, OpenCodeStoresFit, NoRow
    <2> QED
      BY <1>2, <2>1, OpenCodeParts DEF NeverTwice
  <1> QED
    BY <1>6, <1>7, <1>9, <1>11, <1>12, <1>13, <1>14, <1>15

LEMMA UpdateFits == ASSUME OpenCodeFits, NEW m \in Msg, Update(m) PROVE OpenCodeFits'
  <1> USE DEF OpenCodeFits
  <1>1. PICK more \in {0, 1}, torn \in BOOLEAN :
           /\ json' = IF json[m].there THEN [json EXCEPT ![m].total = @ + more, ![m].torn = torn]
                      ELSE json
           /\ db' = IF db[m].there THEN [db EXCEPT ![m].total = @ + more] ELSE db
    BY DEF Update
  <1>2. /\ settled' = FALSE
        /\ early' = IF Passed(m, openCodeDisk.db) \/ Passed(m, mine.db) THEN early \cup {m} ELSE early
        /\ unseen' = IF json[m].there /\ dirTime \in {openCodeDisk.dir, mine.dir} THEN unseen \cup {m} ELSE unseen
        /\ UNCHANGED <<dirTime, dbIno, clock, openCodeDisk, count, overlapped, late>>
        /\ UNCHANGED <<step, fresh, mine, unread, sum>>
    BY DEF Update, runVars
  <1>3. /\ json' \in [Msg -> JsonFile] /\ \A k \in Msg \ {m} : json'[k] = json[k]
        /\ json'[m].there = json[m].there
        /\ json'[m].total = IF json[m].there THEN json[m].total + more ELSE json[m].total
        /\ ~json[m].there => json'[m] = json[m]
    <2>1. CASE ~json[m].there
      BY <1>1, <2>1 DEF OpenCodeTypeOK
    <2>2. CASE json[m].there
      <3>1. json[m].total + more \in Nat /\ json[m] \in JsonFile
        BY OpenCodeParts
      <3>2. \A k \in Msg \ {m} : json'[k] = json[k]
        BY <1>1, <2>2 DEF OpenCodeTypeOK
      <3>3. json'[m] = [there |-> json[m].there, total |-> json[m].total + more, torn |-> torn]
        BY <1>1, <2>2, <3>1 DEF OpenCodeTypeOK, JsonFile
      <3>4. json' \in [Msg -> JsonFile]
        BY <1>1, <2>2, <3>1 DEF OpenCodeTypeOK, JsonFile
      <3> QED
        BY <2>2, <3>1, <3>2, <3>3, <3>4
    <2> QED
      BY <2>1, <2>2
  <1>4. /\ db' \in [Msg -> DbRow] /\ \A k \in Msg \ {m} : db'[k] = db[k]
        /\ db'[m].there = db[m].there /\ db'[m].time = db[m].time
        /\ db'[m].total = IF db[m].there THEN db[m].total + more ELSE db[m].total
        /\ ~db[m].there => db'[m] = db[m]
    <2>1. CASE ~db[m].there
      BY <1>1, <2>1 DEF OpenCodeTypeOK
    <2>2. CASE db[m].there
      <3> DEFINE old == db[m]
                 new == [old EXCEPT !.total = old.total + more]
      <3>1. db' = [db EXCEPT ![m] = new]
        BY <1>1, <2>2
      <3>2. new \in DbRow /\ new.there = old.there /\ new.time = old.time /\ new.total = old.total + more
        BY OpenCodeParts DEF DbRow
      <3> HIDE DEF new
      <3> QED
        BY <2>2, <3>1, <3>2 DEF OpenCodeTypeOK
    <2> QED
      BY <2>1, <2>2
  <1>5. \A k \in Msg : /\ json'[k].there = json[k].there /\ json'[k].total >= json[k].total
                       /\ db'[k].there = db[k].there /\ db'[k].time = db[k].time /\ db'[k].total >= db[k].total
    BY <1>3, <1>4, OpenCodeParts
  <1>6. OpenCodeTypeOK'
    <2>1. settled' \in BOOLEAN
      BY <1>2
    <2> QED
      BY <1>2, <1>3, <1>4, <2>1 DEF OpenCodeTypeOK
  <1>6a. \A k \in Msg : json'[k].total \in Nat /\ db'[k].total \in Nat
    BY <1>6, OpenCodeParts DEF OpenCodeTypeOK, JsonFile, DbRow
  <1>7. OpenCodeStoresFit'
    BY <1>2, <1>3, <1>4, <1>5, OpenCodeParts DEF OpenCodeStoresFit
  <1>8. MessageCursorsFit(openCodeDisk)' /\ MessageCursorsFit(mine)'
    <2>1. \A k \in Msg : /\ openCodeDisk.files[k].last <= json'[k].total
                         /\ mine.files[k].last <= json'[k].total
      BY <1>5, <1>6a, OpenCodeParts DEF MessageCursorsFit
    <2>2. /\ \A k \in openCodeDisk.db.ids : k \in Msg
          /\ \A k \in mine.db.ids : k \in Msg
      BY OpenCodeParts
    <2> QED
      BY <1>2, <1>5, <2>1, <2>2 DEF MessageCursorsFit
  <1>9. ASSUME NEW cs, cs \in {openCodeDisk, mine}, NEW k \in Msg, NEW n \in Int, AccountedFor(k, cs, n)
        PROVE  /\ json'[k].there => /\ n >= cs.files[k].last
                                    /\ k \in overlapped \/ n = cs.files[k].last
               /\ ~json'[k].there =>
                     /\ 0 <= n /\ n <= db'[k].total
                     /\ n > 0 => db'[k].there /\ (db'[k].time < cs.db.time \/ k \in cs.db.ids)
                     /\ db'[k].there /\ (db'[k].time < cs.db.time \/ k \in cs.db.ids) =>
                           n >= db'[k].total \/ k \in early' \cup late
    <2>1. CASE k # m
      BY <1>2, <1>3, <1>4, <1>9, <2>1 DEF AccountedFor, Passed
    <2>2. CASE k = m
      <3>1. Passed(m, cs.db) => m \in early'
        BY <1>2, <1>9
      <3>2. db'[k].there /\ (db'[k].time < cs.db.time \/ k \in cs.db.ids) <=> Passed(m, cs.db)
        BY <1>5, <2>2 DEF Passed
      <3> QED
        BY <1>5, <1>6a, <1>9, <2>2, <3>1, <3>2, OpenCodeParts DEF AccountedFor
    <2> QED
      BY <2>1, <2>2
  <1>10. OpenCodeDiskFits'
    <2> SUFFICES ASSUME ~NothingRead(openCodeDisk), NEW k \in Msg PROVE AccountedFor(k, openCodeDisk, count[k])'
      BY <1>2 DEF OpenCodeDiskFits, NothingRead
    <2>1. AccountedFor(k, openCodeDisk, count[k]) /\ count[k] \in Int
      BY OpenCodeParts DEF OpenCodeDiskFits
    <2> QED
      BY <1>2, <1>9, <2>1 DEF AccountedFor, Passed
  <1>11. OpenCodeRunFits'
    <2> SUFFICES ASSUME step # "idle", NEW k \in Msg PROVE AccountedFor(k, mine, CountedNow(k))'
      BY <1>2 DEF OpenCodeRunFits
    <2>1. AccountedFor(k, mine, CountedNow(k)) /\ CountedNow(k)' = CountedNow(k) /\ CountedNow(k) \in Int
      BY <1>2, OpenCodeParts DEF OpenCodeRunFits, CountedNow
    <2> QED
      BY <1>2, <1>9, <2>1 DEF AccountedFor, Passed
  <1>12. OpenCodeSeenFits'
    <2>1. \A k \in Msg \ unseen' : /\ k \notin unseen
                                   /\ dirTime \in {openCodeDisk.dir, mine.dir} => json'[k] = json[k]
      BY <1>2, <1>3
    <2> QED
      BY <1>2, <1>5, <2>1 DEF OpenCodeSeenFits, OpenCodeTypeOK
  <1>13. OpenCodeStepsFit'
    BY <1>2 DEF OpenCodeStepsFit, NothingRead
  <1>14. NeverTwice'
    <2>1. \A k \in Msg : Total(k)' >= Total(k) /\ Total(k) \in Int /\ Total(k)' \in Int
      BY <1>5, <1>6a, OpenCodeParts DEF Total, Largest
    <2> QED
      BY <1>2, <2>1, OpenCodeParts DEF NeverTwice
  <1> QED
    BY <1>6, <1>7, <1>8, <1>10, <1>11, <1>12, <1>13, <1>14

LEMMA ReplaceDbFits == ASSUME OpenCodeFits, ReplaceDb PROVE OpenCodeFits'
  <1> USE DEF OpenCodeFits
  <1>1. /\ dbIno' = dbIno + 1 /\ settled' = FALSE
        /\ UNCHANGED <<json, dirTime, db, clock, openCodeDisk, count, overlapped, early, late, unseen>>
        /\ UNCHANGED <<step, fresh, mine, unread, sum>>
    BY DEF ReplaceDb, runVars
  <1>2. OpenCodeTypeOK'
    <2>1. settled' \in BOOLEAN
      BY <1>1
    <2>2. dbIno' \in Nat
      BY <1>1 DEF OpenCodeTypeOK
    <2> QED
      BY <1>1, <2>1, <2>2 DEF OpenCodeTypeOK
  <1>3. OpenCodeStoresFit' /\ MessageCursorsFit(openCodeDisk)' /\ MessageCursorsFit(mine)'
    BY <1>1 DEF OpenCodeStoresFit, MessageCursorsFit
  <1>4. OpenCodeDiskFits' /\ OpenCodeRunFits'
    BY <1>1 DEF OpenCodeDiskFits, OpenCodeRunFits, NothingRead, AccountedFor, Passed, CountedNow
  <1>5. OpenCodeSeenFits' /\ OpenCodeStepsFit' /\ NeverTwice'
    BY <1>1 DEF OpenCodeSeenFits, OpenCodeStepsFit, NeverTwice, Passed, NothingRead, Total
  <1> QED
    BY <1>2, <1>3, <1>4, <1>5

LEMMA BeginFits ==
    ASSUME OpenCodeFits, NEW cs \in SyncCursors, MessageCursorsFit(cs), Begin(cs),
           NothingRead(cs) \/ \A m \in Msg : AccountedFor(m, cs, count[m]),
           \A m \in Msg \ unseen : cs.dir = dirTime /\ json[m].there =>
              cs.files[m].there /\ cs.files[m].seen = json[m],
           openCodeDisk' = cs, settled' = TRUE,
           UNCHANGED <<tool, count, hitches, overlapped, early, late, unseen>>
    PROVE  OpenCodeFits'
  <1> USE DEF OpenCodeFits
  <1>1. /\ UNCHANGED <<json, dirTime, db, dbIno, clock, count, overlapped, early, late, unseen>>
        /\ mine' = [cs EXCEPT !.dir = dirTime] /\ unread' = Discovered(cs)
        /\ sum' = Nothing /\ step' = "files" /\ fresh' = NothingRead(cs)
    BY DEF tool, Begin, NothingRead
  <1>2. /\ cs.dir \in Nat /\ cs.db \in DbCursor /\ dirTime \in Nat /\ cs.dir <= dirTime
        /\ mine' \in SyncCursors /\ mine'.dir = dirTime /\ mine'.files = cs.files /\ mine'.db = cs.db
    BY <1>1 DEF SyncCursors, MessageCursorsFit, OpenCodeTypeOK
  <1>3. OpenCodeTypeOK'
    <2>1. unread' \subseteq Msg
      BY <1>1 DEF Discovered
    <2>2. sum' \in [Msg -> Int]
      BY <1>1 DEF Nothing
    <2>3. fresh' \in BOOLEAN /\ settled' \in BOOLEAN
      BY <1>1 DEF NothingRead
    <2> QED
      BY <1>1, <1>2, <2>1, <2>2, <2>3 DEF OpenCodeTypeOK
  <1>4. OpenCodeStoresFit' /\ NeverTwice'
    BY <1>1 DEF OpenCodeStoresFit, NeverTwice, Total
  <1>5. MessageCursorsFit(openCodeDisk)' /\ MessageCursorsFit(mine)'
    BY <1>1, <1>2 DEF MessageCursorsFit
  <1>6. OpenCodeDiskFits'
    BY <1>1 DEF OpenCodeDiskFits, AccountedFor, Passed, NothingRead
  <1>7. OpenCodeRunFits'
    <2> SUFFICES ASSUME NEW m \in Msg PROVE AccountedFor(m, mine, CountedNow(m))'
      BY DEF OpenCodeRunFits
    <2>1. count[m] \in Int /\ db[m].total \in Nat /\ db[m].time \in Nat
      BY OpenCodeParts
    <2>2. CASE NothingRead(cs)
      <3>1. CountedNow(m)' = 0
        BY <1>1, <2>2 DEF CountedNow, Nothing
      <3>2. cs.files[m].last = 0
        BY <2>2 DEF NothingRead, NoCursors, NoFileCursor
      <3>3. ~Passed(m, cs.db)
        BY <2>1, <2>2 DEF NothingRead, MessageCursorsFit, NoDbCursor, Passed
      <3> QED
        BY <1>1, <1>2, <2>1, <3>1, <3>2, <3>3 DEF AccountedFor, Passed
    <2>3. CASE ~NothingRead(cs)
      <3>1. CountedNow(m)' = count[m]
        BY <1>1, <2>1, <2>3 DEF CountedNow, Nothing
      <3> QED
        BY <1>1, <1>2, <2>3, <3>1 DEF AccountedFor, Passed
    <2> QED
      BY <2>2, <2>3
  <1>8. OpenCodeSeenFits'
    BY <1>1, <1>2 DEF OpenCodeSeenFits, Discovered
  <1>9. OpenCodeStepsFit'
    BY <1>1, <1>2 DEF OpenCodeStepsFit, NothingRead
  <1> QED
    BY <1>3, <1>4, <1>5, <1>6, <1>7, <1>8, <1>9

LEMMA StartOpenCodeFits == ASSUME OpenCodeFits, StartOpenCode PROVE OpenCodeFits'
  <1>1. openCodeDisk \in SyncCursors /\ MessageCursorsFit(openCodeDisk)
    BY DEF OpenCodeFits, OpenCodeTypeOK
  <1>2. NothingRead(openCodeDisk) \/ \A m \in Msg : AccountedFor(m, openCodeDisk, count[m])
    BY DEF OpenCodeFits, OpenCodeDiskFits
  <1>3. \A m \in Msg \ unseen : openCodeDisk.dir = dirTime /\ json[m].there =>
           openCodeDisk.files[m].there /\ openCodeDisk.files[m].seen = json[m]
    BY DEF OpenCodeFits, OpenCodeSeenFits
  <1>4. /\ Begin(openCodeDisk) /\ settled' = TRUE /\ openCodeDisk' = openCodeDisk
        /\ UNCHANGED <<tool, count, hitches, overlapped, early, late, unseen>>
    BY DEF StartOpenCode
  <1> QED
    BY <1>1, <1>2, <1>3, <1>4, BeginFits

LEMMA RescanOpenCodeFits == ASSUME OpenCodeFits, RescanOpenCode PROVE OpenCodeFits'
  <1>1. /\ Begin(NoCursors) /\ settled' = TRUE /\ openCodeDisk' = NoCursors
        /\ UNCHANGED <<tool, count, hitches, overlapped, early, late, unseen>>
    BY DEF RescanOpenCode
  <1>2. NoJson \in JsonFile /\ NoFileCursor \in FileCursor /\ NoDbCursor \in DbCursor
    BY DEF NoJson, JsonFile, NoFileCursor, FileCursor, NoDbCursor, DbCursor
  <1>3. NoCursors \in SyncCursors
    BY <1>2 DEF NoCursors, SyncCursors
  <1>4. NoCursors.dir = 0 /\ NoCursors.db = NoDbCursor /\ \A m \in Msg : NoCursors.files[m] = NoFileCursor
    BY DEF NoCursors
  <1>5. MessageCursorsFit(NoCursors)
    <2>1. 0 <= dirTime /\ 0 <= clock /\ \A m \in Msg : 0 <= json[m].total
      BY OpenCodeParts DEF OpenCodeFits, OpenCodeTypeOK
    <2>2. NoDbCursor.time = 0 /\ NoDbCursor.ids = {}
      BY DEF NoDbCursor
    <2>3. NoFileCursor.last = 0 /\ ~NoFileCursor.there
      BY DEF NoFileCursor
    <2> QED
      BY <1>4, <2>1, <2>2, <2>3 DEF MessageCursorsFit
  <1>6. NothingRead(NoCursors)
    BY <1>4 DEF NothingRead, NoDbCursor
  <1>7. NoCursors.dir # dirTime
    BY <1>4 DEF OpenCodeFits, OpenCodeTypeOK
  <1> QED
    BY <1>1, <1>3, <1>5, <1>6, <1>7, BeginFits

LEMMA TakeFileFits == ASSUME OpenCodeFits, NEW m \in Msg, TakeFile(m) PROVE OpenCodeFits'
  <1> USE DEF OpenCodeFits
  <1>1. /\ step = "files" /\ m \in unread /\ unread' = unread \ {m}
        /\ UNCHANGED <<json, dirTime, db, dbIno, clock, openCodeDisk, count, step, fresh, settled>>
        /\ UNCHANGED <<overlapped, early, late>>
    BY DEF TakeFile, tool
  <1> DEFINE c == mine.files[m]
  <1>2. json[m].there /\ openCodeDisk.dir < dirTime /\ openCodeDisk.dir \in Nat /\ dirTime \in Nat
    BY <1>1, OpenCodeParts DEF OpenCodeSeenFits, OpenCodeTypeOK
  <1>3. OpenCodeStoresFit' /\ MessageCursorsFit(openCodeDisk)' /\ OpenCodeDiskFits' /\ NeverTwice'
    BY <1>1 DEF OpenCodeStoresFit, MessageCursorsFit, OpenCodeDiskFits, AccountedFor, Passed, NothingRead, NeverTwice, Total
  <1>4. CASE c.there /\ c.seen = json[m]
    <2>1. UNCHANGED <<mine, sum, unseen>>
      BY <1>4 DEF TakeFile
    <2>2. OpenCodeTypeOK'
      BY <1>1, <2>1 DEF OpenCodeTypeOK
    <2>3. MessageCursorsFit(mine)' /\ OpenCodeRunFits' /\ OpenCodeStepsFit'
      BY <1>1, <2>1 DEF MessageCursorsFit, OpenCodeRunFits, AccountedFor, Passed, CountedNow, OpenCodeStepsFit, NothingRead
    <2>4. OpenCodeSeenFits'
      BY <1>1, <1>4, <2>1 DEF OpenCodeSeenFits
    <2> QED
      BY <1>3, <2>2, <2>3, <2>4
  <1>5. CASE ~(c.there /\ c.seen = json[m])
    <2>1. /\ mine' = [mine EXCEPT !.files[m] = Read(m, c)]
          /\ sum' = [sum EXCEPT ![m] = @ + (IF json[m].torn THEN 0 ELSE json[m].total - c.last)]
          /\ unseen' = unseen \ {m}
      BY <1>5 DEF TakeFile
    <2>2. /\ c \in FileCursor /\ c.last \in Nat /\ json[m] \in JsonFile
          /\ json[m].total \in Nat /\ json[m].torn \in BOOLEAN
      BY OpenCodeParts
    <2> DEFINE new == Read(m, c)
               more == IF json[m].torn THEN 0 ELSE json[m].total - c.last
    <2>3. /\ new.there /\ new.seen = json[m] /\ new.key = ~json[m].torn
          /\ new.last = IF json[m].torn THEN c.last ELSE json[m].total
      BY DEF Read
    <2>4. new \in FileCursor
      BY <2>2 DEF Read, FileCursor
    <2>5. more \in Int /\ new.last = c.last + more /\ new.last \in Nat
      BY <2>2, <2>3
    <2>6. mine' = [mine EXCEPT !.files[m] = new] /\ sum' = [sum EXCEPT ![m] = @ + more]
      BY <2>1
    <2> HIDE DEF new, more
    <2>7. /\ mine' \in SyncCursors /\ mine'.dir = mine.dir /\ mine'.db = mine.db
          /\ mine'.files[m] = new /\ \A k \in Msg \ {m} : mine'.files[k] = mine.files[k]
      BY <2>4, <2>6 DEF OpenCodeTypeOK, SyncCursors
    <2>8. sum' \in [Msg -> Int] /\ sum'[m] = sum[m] + more /\ \A k \in Msg \ {m} : sum'[k] = sum[k]
      BY <2>5, <2>6 DEF OpenCodeTypeOK
    <2>9. OpenCodeTypeOK'
      BY <1>1, <2>7, <2>8 DEF OpenCodeTypeOK
    <2>10. MessageCursorsFit(mine)'
      <3>1. new.last <= json[m].total
        BY <2>2, <2>3 DEF MessageCursorsFit
      <3> QED
        BY <1>1, <1>2, <2>3, <2>7, <3>1 DEF MessageCursorsFit
    <2>11. OpenCodeRunFits'
      <3> SUFFICES ASSUME NEW k \in Msg PROVE AccountedFor(k, mine, CountedNow(k))'
        BY DEF OpenCodeRunFits
      <3>1. AccountedFor(k, mine, CountedNow(k))
        BY <1>1 DEF OpenCodeRunFits
      <3>2. CASE k # m
        <4>1. CountedNow(k)' = CountedNow(k)
          BY <1>1, <2>8, <3>2 DEF CountedNow
        <4> QED
          BY <1>1, <2>7, <3>1, <3>2, <4>1 DEF AccountedFor, Passed
      <3>3. CASE k = m
        <4>1. CountedNow(m)' = CountedNow(m) + more /\ CountedNow(m) \in Int
          BY <1>1, <2>5, <2>8, OpenCodeParts DEF CountedNow
        <4>2. CountedNow(m) >= c.last /\ (m \in overlapped \/ CountedNow(m) = c.last)
          BY <1>2, <3>1, <3>3 DEF AccountedFor
        <4> QED
          BY <1>1, <1>2, <2>2, <2>5, <2>7, <3>3, <4>1, <4>2 DEF AccountedFor
      <3> QED
        BY <3>2, <3>3
    <2>12. OpenCodeSeenFits'
      <3>1. openCodeDisk.dir # dirTime
        BY <1>2
      <3> QED
        BY <1>1, <2>1, <2>3, <2>7, <3>1 DEF OpenCodeSeenFits
    <2>13. OpenCodeStepsFit'
      BY <1>1, <2>7 DEF OpenCodeStepsFit, NothingRead
    <2> QED
      BY <1>3, <2>9, <2>10, <2>11, <2>12, <2>13
  <1> QED
    BY <1>4, <1>5

LEMMA QueryFailsFits == ASSUME OpenCodeFits, QueryFails PROVE OpenCodeFits'
  <1> USE DEF OpenCodeFits
  <1>1. /\ step = "files" /\ unread = {} /\ step' = "commit" /\ settled' = FALSE
        /\ mine' \in {mine, [mine EXCEPT !.db = IF @.there THEN @
                                                ELSE [there |-> TRUE, ino |-> dbIno, time |-> 0, ids |-> {}]]}
        /\ UNCHANGED <<json, dirTime, db, dbIno, clock, openCodeDisk, count, fresh, unread, sum>>
        /\ UNCHANGED <<overlapped, early, late, unseen>>
    BY DEF QueryFails, tool
  <1> DEFINE first == [there |-> TRUE, ino |-> dbIno, time |-> 0, ids |-> {}]
  <1>2. first \in DbCursor /\ first.time = 0 /\ first.ids = {} /\ first.there
    BY DEF OpenCodeTypeOK, DbCursor
  <1>3. /\ mine' \in SyncCursors /\ mine'.dir = mine.dir /\ mine'.files = mine.files
        /\ mine'.db = mine.db \/ (~mine.db.there /\ mine'.db = first)
    BY <1>1, <1>2 DEF OpenCodeTypeOK, SyncCursors
  <1> HIDE DEF first
  <1>4. /\ mine'.db.time = mine.db.time /\ mine'.db.ids = mine.db.ids
        /\ ~mine'.db.there => mine'.db = NoDbCursor
    <2>1. ~mine.db.there => mine.db = NoDbCursor
      BY DEF MessageCursorsFit
    <2>2. NoDbCursor.time = 0 /\ NoDbCursor.ids = {}
      BY DEF NoDbCursor
    <2> QED
      BY <1>2, <1>3, <2>1, <2>2
  <1>5. OpenCodeTypeOK'
    <2>1. settled' \in BOOLEAN
      BY <1>1
    <2> QED
      BY <1>1, <1>3, <2>1 DEF OpenCodeTypeOK
  <1>6. OpenCodeStoresFit' /\ MessageCursorsFit(openCodeDisk)' /\ OpenCodeDiskFits' /\ NeverTwice'
    BY <1>1 DEF OpenCodeStoresFit, MessageCursorsFit, OpenCodeDiskFits, AccountedFor, Passed, NothingRead, NeverTwice, Total
  <1>7. MessageCursorsFit(mine)'
    BY <1>1, <1>3, <1>4 DEF MessageCursorsFit
  <1>8. OpenCodeRunFits'
    BY <1>1, <1>3, <1>4 DEF OpenCodeRunFits, AccountedFor, Passed, CountedNow
  <1>9. OpenCodeSeenFits' /\ OpenCodeStepsFit'
    BY <1>1, <1>3 DEF OpenCodeSeenFits, OpenCodeStepsFit, NothingRead
  <1> QED
    BY <1>5, <1>6, <1>7, <1>8, <1>9

LEMMA QueryRowsFits == ASSUME OpenCodeFits, QueryRows PROVE OpenCodeFits'
  <1> USE DEF OpenCodeFits
  <1> DEFINE found == RowsFrom(mine.db)
             new   == (found \ mine.db.ids) \ Keys
             last  == IF found = {} THEN mine.db.time ELSE CHOOSE t \in {db[m].time : m \in found} :
                         \A m \in found : db[m].time <= t
             passed == {m \in found : db[m].time = last}
             next  == [there |-> TRUE, ino |-> dbIno, time |-> last, ids |-> passed]
  <1>1. /\ step = "files" /\ unread = {} /\ step' = "commit"
        /\ sum' = Processed(new) /\ mine' = [mine EXCEPT !.db = next]
        /\ overlapped' = overlapped \cup {m \in new : json[m].there /\ ~mine.files[m].key}
        /\ UNCHANGED <<json, dirTime, db, dbIno, clock, openCodeDisk, count, fresh, unread, settled>>
        /\ UNCHANGED <<early, late, unseen>>
    BY DEF QueryRows, tool
  <1>2. \A m \in Msg : db[m].time \in Nat /\ db[m].time <= clock
    BY OpenCodeParts DEF OpenCodeStoresFit
  <1>3. /\ mine.db.time \in Nat /\ mine.db.ids \subseteq Msg /\ mine.db.time <= clock /\ clock \in Nat
        /\ \A m \in mine.db.ids : db[m].there /\ db[m].time = mine.db.time
    BY OpenCodeParts DEF MessageCursorsFit, OpenCodeTypeOK
  <1>4. \A m \in Msg : m \in found <=> db[m].there /\ db[m].time >= mine.db.time
    BY DEF RowsFrom
  <1>5. found \subseteq Msg /\ mine.db.ids \subseteq found
    BY <1>3, <1>4 DEF RowsFrom
  <1>6. /\ last \in Nat /\ last >= mine.db.time /\ last <= clock
        /\ \A m \in found : db[m].time <= last
    <2>1. CASE found = {}
      BY <1>3, <2>1
    <2>2. CASE found # {}
      <3> DEFINE times == {db[m].time : m \in found}
      <3>1. times \in SUBSET Nat /\ times # {} /\ \A t \in times : t <= clock
        BY <1>2, <1>5, <2>2
      <3>2. \E t \in times : \A u \in times : u <= t
        BY <1>3, <3>1, HasLatest
      <3>3. \E t \in times : \A m \in found : db[m].time <= t
        BY <3>2
      <3>4. last \in times /\ \A m \in found : db[m].time <= last
        BY <2>2, <3>3
      <3>5. last \in Nat /\ last <= clock
        BY <3>1, <3>4
      <3>6. PICK m \in found : last = db[m].time
        BY <3>4
      <3> HIDE DEF last
      <3> QED
        BY <1>4, <1>5, <3>4, <3>5, <3>6
    <2> QED
      BY <2>1, <2>2
  <1>7. next \in DbCursor /\ next.there /\ next.time = last /\ next.ids = passed
    BY <1>5, <1>6 DEF DbCursor, OpenCodeTypeOK
  <1>8. \A m \in Msg : m \in passed <=> m \in found /\ db[m].time = last
    BY <1>5
  <1>8a. passed \subseteq found
    OBVIOUS
  <1>9. \A m \in Msg : m \in new <=> m \in found /\ m \notin mine.db.ids /\ ~mine.files[m].key
    BY DEF Keys
  <1> HIDE DEF found, new, last, passed, next
  <1>10. /\ mine' \in SyncCursors /\ mine'.dir = mine.dir /\ mine'.files = mine.files /\ mine'.db = next
    BY <1>1, <1>7 DEF OpenCodeTypeOK, SyncCursors
  <1>11. /\ sum' \in [Msg -> Int]
         /\ \A m \in Msg : sum'[m] = sum[m] + (IF m \in new THEN db[m].total ELSE 0)
    BY <1>1, OpenCodeParts DEF Processed
  <1>12. OpenCodeTypeOK'
    BY <1>1, <1>10, <1>11 DEF OpenCodeTypeOK
  <1>13. OpenCodeStoresFit' /\ MessageCursorsFit(openCodeDisk)' /\ OpenCodeDiskFits' /\ NeverTwice'
    BY <1>1 DEF OpenCodeStoresFit, MessageCursorsFit, OpenCodeDiskFits, AccountedFor, Passed, NothingRead, NeverTwice, Total
  <1>14. MessageCursorsFit(mine)'
    <2>1. \A m \in passed : db[m].there /\ db[m].time = last
      BY <1>4, <1>5, <1>8, <1>8a
    <2> QED
      BY <1>1, <1>6, <1>7, <1>10, <2>1 DEF MessageCursorsFit
  <1>15. \A m \in Msg : Passed(m, next) <=> Passed(m, mine.db) \/ m \in found
    BY <1>2, <1>3, <1>4, <1>5, <1>6, <1>7, <1>8 DEF Passed
  <1>16. OpenCodeRunFits'
    <2> SUFFICES ASSUME NEW m \in Msg PROVE AccountedFor(m, mine, CountedNow(m))'
      BY DEF OpenCodeRunFits
    <2>1. AccountedFor(m, mine, CountedNow(m)) /\ CountedNow(m) \in Int /\ db[m].total \in Nat /\ mine.files[m].last \in Nat
      BY <1>1, OpenCodeParts DEF OpenCodeRunFits
    <2>2. CountedNow(m)' = CountedNow(m) + (IF m \in new THEN db[m].total ELSE 0)
      BY <1>1, <1>11, OpenCodeParts DEF CountedNow
    <2>3. CASE m \in new
      <3>1. ~Passed(m, mine.db)
        BY <1>2, <1>3, <1>4, <1>9, <2>3 DEF Passed
      <3>2. json[m].there => m \in overlapped'
        BY <1>1, <1>9, <2>3
      <3> QED
        BY <1>1, <1>9, <1>10, <1>15, <2>1, <2>2, <2>3, <3>1, <3>2 DEF AccountedFor, Passed
    <2>4. CASE m \notin new
      <3>1. CountedNow(m)' = CountedNow(m)
        BY <2>1, <2>2, <2>4
      <3>2. ~json[m].there => ~mine.files[m].key
        BY OpenCodeParts DEF MessageCursorsFit, NoFileCursor
      <3>3. ~json[m].there => (Passed(m, next) <=> Passed(m, mine.db))
        BY <1>3, <1>4, <1>9, <1>15, <2>4, <3>2 DEF Passed
      <3> QED
        BY <1>1, <1>10, <2>1, <3>1, <3>3 DEF AccountedFor, Passed
    <2> QED
      BY <2>3, <2>4
  <1>17. OpenCodeSeenFits'
    BY <1>1, <1>10 DEF OpenCodeSeenFits
  <1>18. OpenCodeStepsFit'
    <2>1. \A m \in Msg : db[m].there => Passed(m, next)
      BY <1>2, <1>3, <1>4, <1>15 DEF Passed
    <2> QED
      BY <1>1, <1>10, <2>1 DEF OpenCodeStepsFit, NothingRead, Passed
  <1> QED
    BY <1>12, <1>13, <1>14, <1>16, <1>17, <1>18

LEMMA CommitOpenCodeFits == ASSUME OpenCodeFits, CommitOpenCode PROVE OpenCodeFits'
  <1> USE DEF OpenCodeFits
  <1>1. /\ step = "commit" /\ step' = "idle" /\ openCodeDisk' = mine
        /\ count' = [m \in Msg |-> sum[m] + (IF fresh THEN 0 ELSE count[m])]
        /\ sum' = Nothing /\ fresh' = FALSE
        /\ UNCHANGED <<json, dirTime, db, dbIno, clock, mine, unread>>
        /\ UNCHANGED <<settled, overlapped, early, late, unseen>>
    BY DEF CommitOpenCode, tool, past
  <1>2. /\ \A m \in Msg : count'[m] = CountedNow(m) /\ CountedNow(m)' = CountedNow(m)
        /\ count' \in [Msg -> Int] /\ sum' \in [Msg -> Int]
    BY <1>1, OpenCodeParts DEF CountedNow, Nothing
  <1>3. OpenCodeTypeOK'
    BY <1>1, <1>2 DEF OpenCodeTypeOK
  <1>4. OpenCodeStoresFit' /\ MessageCursorsFit(openCodeDisk)' /\ MessageCursorsFit(mine)'
    BY <1>1 DEF OpenCodeStoresFit, MessageCursorsFit
  <1>5. \A m \in Msg : AccountedFor(m, mine, CountedNow(m))
    BY <1>1 DEF OpenCodeRunFits
  <1>6. OpenCodeDiskFits' /\ OpenCodeRunFits'
    BY <1>1, <1>2, <1>5 DEF OpenCodeDiskFits, OpenCodeRunFits, AccountedFor, Passed
  <1>7. OpenCodeSeenFits'
    BY <1>1 DEF OpenCodeSeenFits, OpenCodeStepsFit
  <1>8. OpenCodeStepsFit'
    BY <1>1 DEF OpenCodeStepsFit, Passed
  <1>9. NeverTwice'
    <2> SUFFICES ASSUME NEW m \in Msg, m \notin overlapped PROVE count'[m] <= Total(m)
      BY <1>1 DEF NeverTwice, Total
    <2>1. /\ CountedNow(m) \in Int /\ json[m].total \in Nat /\ db[m].total \in Nat /\ mine.files[m].last \in Nat
          /\ json[m].there \in BOOLEAN /\ mine.files[m].last <= json[m].total
      BY OpenCodeParts DEF MessageCursorsFit
    <2>2. CountedNow(m) <= json[m].total \/ CountedNow(m) <= db[m].total
      BY <1>5, <2>1 DEF AccountedFor
    <2> QED
      BY <1>2, <2>1, <2>2 DEF Total, Largest
  <1> QED
    BY <1>3, <1>4, <1>6, <1>7, <1>8, <1>9

LEMMA CrashOpenCodeFits == ASSUME OpenCodeFits, CrashOpenCode PROVE OpenCodeFits'
  <1> USE DEF OpenCodeFits
  <1>1. /\ step' = "idle" /\ mine' = openCodeDisk /\ unread' = {} /\ sum' = Nothing
        /\ fresh' = FALSE /\ settled' = FALSE
        /\ UNCHANGED <<json, dirTime, db, dbIno, clock, openCodeDisk, count, overlapped, early, late, unseen>>
    BY DEF CrashOpenCode, tool
  <1>2. OpenCodeTypeOK'
    <2>1. sum' \in [Msg -> Int]
      BY <1>1 DEF Nothing
    <2>2. settled' \in BOOLEAN /\ fresh' \in BOOLEAN /\ unread' \subseteq Msg
      BY <1>1
    <2> QED
      BY <1>1, <2>1, <2>2 DEF OpenCodeTypeOK
  <1>3. OpenCodeStoresFit' /\ MessageCursorsFit(openCodeDisk)' /\ MessageCursorsFit(mine)' /\ OpenCodeDiskFits' /\ NeverTwice'
    BY <1>1 DEF OpenCodeStoresFit, MessageCursorsFit, OpenCodeDiskFits, AccountedFor, Passed, NothingRead, NeverTwice, Total
  <1>4. OpenCodeRunFits' /\ OpenCodeSeenFits' /\ OpenCodeStepsFit'
    BY <1>1 DEF OpenCodeRunFits, OpenCodeSeenFits, OpenCodeStepsFit
  <1> QED
    BY <1>2, <1>3, <1>4

LEMMA OpenCodeStarts == OpenCodeInit => OpenCodeFits
  <1> SUFFICES ASSUME OpenCodeInit PROVE OpenCodeFits
    OBVIOUS
  <1> USE DEF OpenCodeInit
  <1>1. NoJson \in JsonFile /\ NoRow \in DbRow /\ NoFileCursor \in FileCursor /\ NoDbCursor \in DbCursor
    BY DEF NoJson, JsonFile, NoRow, DbRow, NoFileCursor, FileCursor, NoDbCursor, DbCursor
  <1>2. NoCursors \in SyncCursors
    BY <1>1 DEF NoCursors, SyncCursors
  <1>3. /\ NoCursors.dir = 0 /\ NoCursors.db = NoDbCursor /\ NoCursors.files = [m \in Msg |-> NoFileCursor]
        /\ \A m \in Msg : NoCursors.files[m] = NoFileCursor
    BY DEF NoCursors
  <1>4. OpenCodeTypeOK
    <2>1. json \in [Msg -> JsonFile] /\ db \in [Msg -> DbRow]
      BY <1>1
    <2>2. count \in [Msg -> Int] /\ sum \in [Msg -> Int]
      BY DEF Nothing
    <2>3. fresh \in BOOLEAN /\ settled \in BOOLEAN /\ unread \subseteq Msg
      OBVIOUS
    <2>4. dirTime \in Nat \ {0} /\ dbIno \in Nat /\ clock \in Nat
      OBVIOUS
    <2> QED
      BY <1>2, <2>1, <2>2, <2>3, <2>4 DEF OpenCodeTypeOK
  <1>5. \A m \in Msg : json[m] = NoJson /\ db[m] = NoRow /\ count[m] = 0
    BY DEF Nothing
  <1>6. OpenCodeStoresFit /\ MessageCursorsFit(NoCursors)
    BY <1>3, <1>5 DEF OpenCodeStoresFit, MessageCursorsFit, NoJson, NoRow, NoDbCursor, NoFileCursor
  <1>7. OpenCodeDiskFits
    BY <1>3 DEF OpenCodeDiskFits, NothingRead, NoDbCursor
  <1>8. OpenCodeRunFits /\ OpenCodeSeenFits /\ OpenCodeStepsFit
    BY <1>3 DEF OpenCodeRunFits, OpenCodeSeenFits, OpenCodeStepsFit
  <1>9. NeverTwice
    BY <1>5 DEF NeverTwice, Total, Largest, NoJson, NoRow
  <1> QED
    BY <1>4, <1>6, <1>7, <1>8, <1>9 DEF OpenCodeFits

LEMMA OpenCodeStep == ASSUME OpenCodeFits, [OpenCodeNext]_openCodeVars PROVE OpenCodeFits'
  <1>1. CASE OpenCodeNext
    BY <1>1, CreateFileFits, CreateRowFits, UpdateFits, TakeFileFits, ReplaceDbFits, StartOpenCodeFits,
       RescanOpenCodeFits, QueryFailsFits, QueryRowsFits, CommitOpenCodeFits, CrashOpenCodeFits
       DEF OpenCodeNext
  <1>2. CASE UNCHANGED openCodeVars
    <2> USE <1>2 DEF openCodeVars, tool, runVars, past
    <2>1. OpenCodeTypeOK' /\ OpenCodeStoresFit' /\ MessageCursorsFit(openCodeDisk)' /\ MessageCursorsFit(mine)'
      BY DEF OpenCodeFits, OpenCodeTypeOK, OpenCodeStoresFit, MessageCursorsFit
    <2>2. OpenCodeDiskFits' /\ OpenCodeRunFits'
      BY DEF OpenCodeFits, OpenCodeDiskFits, OpenCodeRunFits, AccountedFor, Passed, CountedNow, NothingRead
    <2>3. OpenCodeSeenFits' /\ OpenCodeStepsFit' /\ NeverTwice'
      BY DEF OpenCodeFits, OpenCodeSeenFits, OpenCodeStepsFit, NothingRead, Passed, NeverTwice, Total
    <2> QED
      BY <2>1, <2>2, <2>3 DEF OpenCodeFits
  <1> QED
    BY <1>1, <1>2

\* What a settled sync has read is what there is.
LEMMA NothingMissedFollows == ASSUME OpenCodeFits PROVE NothingMissed
  <1> USE DEF OpenCodeFits
  <1> SUFFICES ASSUME step = "idle", settled, NEW m \in Msg,
                      m \notin early \cup late \cup unseen, ~json[m].torn
               PROVE  count[m] >= Total(m)
    BY DEF NothingMissed
  <1>1. CountedNow(m) = count[m]
    BY OpenCodeParts DEF OpenCodeStepsFit, CountedNow, Nothing
  <1>2. AccountedFor(m, mine, count[m])
    BY <1>1 DEF OpenCodeRunFits
  <1>3. /\ json[m].total \in Nat /\ db[m].total \in Nat /\ count[m] \in Int
        /\ json[m].there \in BOOLEAN /\ db[m].there \in BOOLEAN /\ mine.files[m].last \in Nat
    BY OpenCodeParts
  <1>4. CASE json[m].there
    <2>1. mine.files[m].there /\ mine.files[m].seen = json[m]
      BY <1>4 DEF OpenCodeSeenFits, OpenCodeStepsFit
    <2>2. mine.files[m].last = json[m].total
      BY <2>1 DEF MessageCursorsFit
    <2>3. db[m].total <= json[m].total
      BY <1>3, <1>4 DEF OpenCodeStoresFit, NoRow
    <2> QED
      BY <1>2, <1>3, <1>4, <2>2, <2>3 DEF AccountedFor, Total, Largest
  <1>5. CASE ~json[m].there
    <2>1. json[m].total = 0
      BY <1>5 DEF OpenCodeStoresFit, NoJson
    <2>2. ~db[m].there => db[m].total = 0
      BY DEF OpenCodeStoresFit, NoRow
    <2>3. db[m].there => Passed(m, mine.db)
      BY DEF OpenCodeStepsFit
    <2> QED
      BY <1>2, <1>3, <1>5, <2>1, <2>2, <2>3 DEF AccountedFor, Total, Largest
  <1> QED
    BY <1>4, <1>5

-----------------------------------------------------------------------------
(* Hermes: totals of sessions.                                             *)

HermesTotals == [Session -> Nat]
HermesCursor == [ino : Nat, totals : HermesTotals]

HermesTypeOK ==
    /\ total \in HermesTotals /\ backup \in HermesTotals /\ ino \in Nat \ {0}
    /\ hermesSaved \in HermesCursor /\ hermesRows \in HermesTotals
    /\ hermesPhase \in {"idle", "walk", "commit"} /\ hermesFull \in BOOLEAN
    /\ hermesCur \in HermesCursor /\ hermesDelta \in HermesTotals
    /\ spent \in HermesTotals /\ regained \in HermesTotals

\* What the totals of the database have ever risen by.
Risen(s) == spent[s] + regained[s]

\* What a walk over the database now would add on top of n tokens.
Due(n, c, s) == n + Increase(total[s], c.totals[s])

\* A scan that starts from no cursor is a full one.
HermesScanFits ==
    /\ hermesPhase # "idle" => (hermesFull <=> hermesSaved = NoHermesCursor)
    /\ hermesPhase = "walk" => hermesCur = hermesSaved /\ hermesDelta = NoTokens

HermesRowsBounded ==
    \A s \in Session :
        /\ total[s] <= Risen(s) /\ hermesRows[s] <= Risen(s)
        /\ hermesSaved # NoHermesCursor => Due(hermesRows[s], hermesSaved, s) <= Risen(s)
        /\ hermesPhase = "commit" => Due(hermesDelta[s] + Carried(s), hermesCur, s) <= Risen(s)

HermesRowsComplete ==
    \A s \in Session \ thrown :
        /\ hermesSaved.totals[s] <= hermesRows[s]
        /\ hermesPhase = "commit" => hermesCur.totals[s] <= hermesDelta[s] + Carried(s)

HermesFits == HermesTypeOK /\ HermesScanFits /\ HermesRowsBounded /\ HermesRowsComplete

LEMMA IncreaseIsNat ==
    ASSUME NEW m \in Nat, NEW n \in Nat
    PROVE  Increase(m, n) \in Nat /\ Increase(m, n) <= m /\ m <= n + Increase(m, n)
           /\ (m <= n => Increase(m, n) = 0) /\ (m >= n => Increase(m, n) = m - n)
  BY DEF Increase

LEMMA HermesTyped == HermesTypeOK /\ [HermesNext]_hermesVars => HermesTypeOK'
  <1> SUFFICES ASSUME HermesTypeOK, [HermesNext]_hermesVars PROVE HermesTypeOK'
    OBVIOUS
  <1> USE DEF HermesTypeOK, HermesTotals, HermesCursor
  <1>z. NoTokens \in HermesTotals /\ NoHermesCursor \in HermesCursor
    BY DEF NoTokens, NoHermesCursor
  <1>1. CASE \E s \in Session : Spend(s)
    BY <1>1 DEF Spend, hermesSync
  <1>2. CASE \E s \in Session : DeleteSession(s)
    BY <1>2 DEF DeleteSession, hermesSync, HermesMishap
  <1>3. CASE Backup
    BY <1>3 DEF Backup, hermesSync
  <1>4. CASE Restore
    <2>1. \A s \in Session : regained[s] + Increase(backup[s], total[s]) \in Nat
      <3> SUFFICES ASSUME NEW s \in Session PROVE regained[s] + Increase(backup[s], total[s]) \in Nat
        OBVIOUS
      <3>1. regained[s] \in Nat /\ backup[s] \in Nat /\ total[s] \in Nat
        OBVIOUS
      <3>2. Increase(backup[s], total[s]) \in Nat
        BY <3>1, IncreaseIsNat
      <3> QED
        BY <3>1, <3>2
    <2> QED
      BY <1>4, <2>1 DEF Restore, hermesSync, HermesMishap
  <1>5. CASE StartHermes
    BY <1>5, <1>z DEF StartHermes
  <1>6. CASE RestartHermes
    BY <1>6, <1>z DEF RestartHermes, Cleared
  <1>7. CASE Walk
    <2>1. \A s \in Session : Increase(total[s], hermesCur.totals[s]) \in Nat
      BY IncreaseIsNat
    <2> DEFINE due == {s \in Listed : Increase(total[s], hermesCur.totals[s]) > 0}
    <2>2. CASE due \cap Broken = {}
      <3>1. hermesDelta' = [s \in Session |-> IF s \in due THEN Increase(total[s], hermesCur.totals[s]) ELSE 0]
            /\ hermesCur' = [ino |-> ino, totals |-> [s \in Session |-> IF s \in Listed THEN total[s] ELSE hermesCur.totals[s]]]
        BY <1>7, <2>2 DEF Walk
      <3> QED
        BY <1>7, <3>1, <2>1 DEF Walk
    <2>3. CASE due \cap Broken # {}
      <3>1. PICK done \in SUBSET (due \ Broken) :
                /\ hermesCur' = IF hermesCur = NoHermesCursor THEN hermesCur
                          ELSE [hermesCur EXCEPT !.totals = [s \in Session |-> IF s \in done THEN total[s] ELSE @[s]]]
                /\ hermesDelta' = hermesDelta
        BY <1>7, <2>3 DEF Walk
      <3>2. [hermesCur EXCEPT !.totals = [s \in Session |-> IF s \in done THEN total[s] ELSE @[s]]] \in HermesCursor
        OBVIOUS
      <3> QED
        BY <1>7, <3>1, <3>2 DEF Walk
    <2> QED
      BY <2>2, <2>3
  <1>8. CASE Unreadable
    BY <1>8 DEF Unreadable
  <1>9. CASE CommitHermes
    <2>1. \A s \in Session : hermesDelta[s] + Carried(s) \in Nat
      BY DEF Carried
    <2> QED
      BY <1>9, <2>1, <1>z DEF CommitHermes
  <1>10. CASE CrashHermes
    BY <1>10, <1>z DEF CrashHermes
  <1>11. CASE UNCHANGED hermesVars
    BY <1>11 DEF hermesVars
  <1> QED
    BY <1>1, <1>2, <1>3, <1>4, <1>5, <1>6, <1>7, <1>8, <1>9, <1>10, <1>11 DEF HermesNext

\* What Hermes does to its totals: no total rises by more than may be claimed.
LEMMA TotalsMoved ==
    ASSUME HermesTypeOK, HermesTypeOK', HermesScanFits, HermesRowsBounded, HermesRowsComplete, UNCHANGED hermesSync, thrown' = thrown,
           \A s \in Session : Risen(s)' >= Risen(s) /\ total'[s] <= total[s] + (Risen(s)' - Risen(s))
    PROVE  HermesScanFits' /\ HermesRowsBounded' /\ HermesRowsComplete'
  <1>1. HermesScanFits' /\ HermesRowsComplete'
    BY DEF HermesScanFits, HermesRowsComplete, Carried, hermesSync
  <1>2. ASSUME NEW s \in Session
        PROVE  /\ total'[s] <= Risen(s)' /\ hermesRows'[s] <= Risen(s)'
               /\ hermesSaved' # NoHermesCursor => Due(hermesRows[s], hermesSaved, s)' <= Risen(s)'
               /\ hermesPhase' = "commit" => Due(hermesDelta[s] + Carried(s), hermesCur, s)' <= Risen(s)'
    <2>1. /\ hermesSaved.totals[s] \in Nat /\ hermesCur.totals[s] \in Nat /\ hermesDelta[s] \in Nat /\ hermesRows[s] \in Nat
          /\ total[s] \in Nat /\ total'[s] \in Nat /\ Risen(s) \in Nat /\ Risen(s)' \in Nat
      BY DEF HermesTypeOK, HermesTotals, HermesCursor, Risen
    <2>2. Carried(s)' = Carried(s) /\ Carried(s) \in Nat
      BY <2>1 DEF Carried, hermesSync
    <2>3. ASSUME NEW c \in Nat
          PROVE  Increase(total'[s], c) <= Increase(total[s], c) + (Risen(s)' - Risen(s))
      BY <2>1 DEF Increase
    <2>4. ASSUME NEW c \in Nat
          PROVE  Increase(total'[s], c) \in Nat /\ Increase(total[s], c) \in Nat
      BY <2>1, IncreaseIsNat
    <2>5. /\ total[s] <= Risen(s) /\ hermesRows[s] <= Risen(s)
          /\ hermesSaved # NoHermesCursor => hermesRows[s] + Increase(total[s], hermesSaved.totals[s]) <= Risen(s)
          /\ hermesPhase = "commit" => hermesDelta[s] + Carried(s) + Increase(total[s], hermesCur.totals[s]) <= Risen(s)
      BY DEF HermesRowsBounded, Due
    <2>6. UNCHANGED <<hermesSaved, hermesRows, hermesPhase, hermesCur, hermesDelta>>
      BY DEF hermesSync
    <2>7. hermesSaved # NoHermesCursor => hermesRows[s] + Increase(total'[s], hermesSaved.totals[s]) <= Risen(s)'
      BY <2>1, <2>3, <2>4, <2>5
    <2>8. hermesPhase = "commit" => hermesDelta[s] + Carried(s) + Increase(total'[s], hermesCur.totals[s]) <= Risen(s)'
      BY <2>1, <2>2, <2>3, <2>4, <2>5
    <2> QED
      BY <2>1, <2>2, <2>5, <2>6, <2>7, <2>8 DEF Due
  <1> QED
    BY <1>1, <1>2 DEF HermesRowsBounded

\* The walk turns what is due into deltas, in full or not at all.
LEMMA Walked ==
    ASSUME HermesFits, HermesTypeOK', Walk
    PROVE  HermesScanFits' /\ HermesRowsBounded' /\ HermesRowsComplete'
  <1>1. HermesTypeOK /\ HermesScanFits /\ HermesRowsBounded /\ HermesRowsComplete
    BY DEF HermesFits
  <1>2. /\ hermesPhase = "walk" /\ hermesPhase' = "commit" /\ hermesCur = hermesSaved /\ hermesDelta = NoTokens
        /\ UNCHANGED <<total, hermesSaved, hermesRows, hermesFull, spent, regained>>
    BY <1>1 DEF Walk, HermesScanFits
  <1>3. HermesScanFits'
    BY <1>1, <1>2 DEF HermesScanFits
  <1> DEFINE due == {s \in Listed : Increase(total[s], hermesCur.totals[s]) > 0}
  <1>4. ASSUME NEW s \in Session
        PROVE  /\ hermesSaved.totals[s] \in Nat /\ hermesCur.totals[s] \in Nat /\ hermesCur'.totals[s] \in Nat
               /\ hermesDelta[s] = 0 /\ hermesDelta'[s] \in Nat /\ hermesRows[s] \in Nat
               /\ total[s] \in Nat /\ Risen(s) \in Nat /\ Risen(s)' = Risen(s)
               /\ Carried(s)' = Carried(s) /\ Carried(s) = IF hermesFull THEN 0 ELSE hermesRows[s]
               /\ hermesFull => hermesCur.totals[s] = 0
               /\ total[s] <= Risen(s) /\ hermesRows[s] <= Risen(s)
               /\ ~hermesFull => hermesRows[s] + Increase(total[s], hermesCur.totals[s]) <= Risen(s)
               /\ thrown \subseteq thrown'
    <2>1. hermesFull <=> hermesSaved = NoHermesCursor
      BY <1>1, <1>2 DEF HermesScanFits
    <2>2. NoHermesCursor.totals[s] = 0 /\ NoTokens[s] = 0
      BY DEF NoHermesCursor, NoTokens
    <2>3. thrown \subseteq thrown'
      BY DEF Walk
    <2> QED
      BY <1>1, <1>2, <2>1, <2>2, <2>3 DEF HermesTypeOK, HermesTotals, HermesCursor, Risen, Carried, HermesRowsBounded, Due
  <1>5. CASE due \cap Broken = {}
    <2>1. /\ hermesDelta' = [s \in Session |-> IF s \in due THEN Increase(total[s], hermesCur.totals[s]) ELSE 0]
          /\ hermesCur'.totals = [s \in Session |-> IF s \in Listed THEN total[s] ELSE hermesCur.totals[s]]
      BY <1>5 DEF Walk
    <2>2. ASSUME NEW s \in Session
          PROVE  /\ hermesDelta'[s] + Carried(s) + Increase(total[s], hermesCur'.totals[s]) <= Risen(s)
                 /\ s \notin thrown => hermesCur'.totals[s] <= hermesDelta'[s] + Carried(s)
      <3>1. CASE s \in due
        <4>1. hermesDelta'[s] = total[s] - hermesCur.totals[s] /\ hermesCur'.totals[s] = total[s] /\ Increase(total[s], hermesCur'.totals[s]) = 0
              /\ total[s] > hermesCur.totals[s] /\ Increase(total[s], hermesCur.totals[s]) = total[s] - hermesCur.totals[s]
          BY <2>1, <3>1, <1>4 DEF Increase, Listed
        <4>2. s \notin thrown => hermesCur.totals[s] <= hermesRows[s]
          BY <1>1, <1>2 DEF HermesRowsComplete
        <4> QED
          BY <1>4, <4>1, <4>2
      <3>2. CASE s \notin due
        <4>1. hermesDelta'[s] = 0 /\ Increase(total[s], hermesCur'.totals[s]) = 0 /\ hermesCur'.totals[s] <= hermesCur.totals[s]
          BY <2>1, <3>2, <1>4 DEF Increase, Listed
        <4>2. s \notin thrown => hermesCur.totals[s] <= hermesRows[s]
          BY <1>1, <1>2 DEF HermesRowsComplete
        <4> QED
          BY <1>4, <4>1, <4>2
      <3> QED
        BY <3>1, <3>2
    <2> QED
      BY <1>1, <1>2, <1>3, <1>4, <2>2 DEF HermesRowsBounded, HermesRowsComplete, Due
  <1>6. CASE due \cap Broken # {}
    <2>1. PICK done \in SUBSET (due \ Broken) :
             /\ hermesCur' = IF hermesCur = NoHermesCursor THEN hermesCur
                       ELSE [hermesCur EXCEPT !.totals = [s \in Session |-> IF s \in done THEN total[s] ELSE @[s]]]
             /\ thrown' = IF hermesCur = NoHermesCursor THEN thrown ELSE thrown \cup done
             /\ hermesDelta' = hermesDelta
      BY <1>6 DEF Walk
    <2>2. ASSUME NEW s \in Session
          PROVE  /\ hermesCur'.totals[s] = hermesCur.totals[s] \/ (hermesCur'.totals[s] = total[s] /\ s \in thrown')
      BY <2>1, <1>1 DEF HermesTypeOK, HermesCursor, HermesTotals
    <2>3. ASSUME NEW s \in Session
          PROVE  /\ hermesDelta'[s] + Carried(s) + Increase(total[s], hermesCur'.totals[s]) <= Risen(s)
                 /\ s \notin thrown' => hermesCur'.totals[s] <= hermesDelta'[s] + Carried(s)
      <3>1. s \notin thrown' => s \notin thrown /\ hermesCur'.totals[s] = hermesCur.totals[s] /\ hermesCur.totals[s] <= hermesRows[s]
        BY <1>1, <1>2, <1>4, <2>2 DEF HermesRowsComplete
      <3>2. Increase(total[s], hermesCur'.totals[s]) <= Increase(total[s], hermesCur.totals[s])
            /\ Increase(total[s], hermesCur'.totals[s]) \in Nat /\ Increase(total[s], hermesCur.totals[s]) \in Nat
            /\ Increase(total[s], hermesCur'.totals[s]) <= total[s]
        BY <1>4, <2>2 DEF Increase
      <3> QED
        BY <1>4, <2>1, <3>1, <3>2
    <2> QED
      BY <1>1, <1>2, <1>3, <1>4, <2>3 DEF HermesRowsBounded, HermesRowsComplete, Due
  <1> QED
    BY <1>5, <1>6

LEMMA HermesStep == HermesFits /\ [HermesNext]_hermesVars => HermesFits'
  <1> SUFFICES ASSUME HermesFits, [HermesNext]_hermesVars PROVE HermesFits'
    OBVIOUS
  <1>t. HermesTypeOK /\ HermesTypeOK' /\ HermesScanFits /\ HermesRowsBounded /\ HermesRowsComplete
    BY HermesTyped DEF HermesFits
  <1> SUFFICES HermesScanFits' /\ HermesRowsBounded' /\ HermesRowsComplete'
    BY <1>t DEF HermesFits
  <1>z. NoHermesCursor.totals = NoTokens /\ \A s \in Session : NoTokens[s] = 0
    BY DEF NoHermesCursor, NoTokens
  <1>n. \A s \in Session : /\ hermesSaved.totals[s] \in Nat /\ hermesCur.totals[s] \in Nat /\ hermesDelta[s] \in Nat /\ hermesRows[s] \in Nat
                           /\ total[s] \in Nat /\ total'[s] \in Nat /\ backup[s] \in Nat
                           /\ spent[s] \in Nat /\ regained[s] \in Nat
    BY <1>t DEF HermesTypeOK, HermesTotals, HermesCursor
  <1>1. CASE \E r \in Session : Spend(r)
    <2>1. PICK r \in Session : Spend(r)
      BY <1>1
    <2>2. UNCHANGED hermesSync /\ thrown' = thrown
      BY <2>1 DEF Spend
    <2>3. ASSUME NEW s \in Session
          PROVE  Risen(s)' >= Risen(s) /\ total'[s] <= total[s] + (Risen(s)' - Risen(s))
      BY <2>1, <1>n, <1>t DEF Spend, Risen, HermesTypeOK, HermesTotals
    <2> QED
      BY <2>2, <2>3, <1>t, TotalsMoved
  <1>2. CASE \E r \in Session : DeleteSession(r)
    <2>1. PICK r \in Session : DeleteSession(r)
      BY <1>2
    <2>2. UNCHANGED hermesSync /\ thrown' = thrown
      BY <2>1 DEF DeleteSession
    <2>3. ASSUME NEW s \in Session
          PROVE  Risen(s)' >= Risen(s) /\ total'[s] <= total[s] + (Risen(s)' - Risen(s))
      BY <2>1, <1>n, <1>t DEF DeleteSession, Risen, HermesTypeOK, HermesTotals
    <2> QED
      BY <2>2, <2>3, <1>t, TotalsMoved
  <1>3. CASE Restore
    <2>1. UNCHANGED hermesSync /\ thrown' = thrown
      BY <1>3 DEF Restore
    <2>2. ASSUME NEW s \in Session
          PROVE  Risen(s)' >= Risen(s) /\ total'[s] <= total[s] + (Risen(s)' - Risen(s))
      <3>1. /\ spent' = spent /\ total'[s] = backup[s]
            /\ regained'[s] = regained[s] + Increase(backup[s], total[s])
        BY <1>3 DEF Restore
      <3>2. Increase(backup[s], total[s]) \in Nat /\ backup[s] <= total[s] + Increase(backup[s], total[s])
        BY <1>n, IncreaseIsNat
      <3> QED
        BY <1>n, <3>1, <3>2 DEF Risen
    <2> QED
      BY <2>1, <2>2, <1>t, TotalsMoved
  <1>4. CASE Backup \/ UNCHANGED hermesVars
    <2>1. UNCHANGED hermesSync /\ thrown' = thrown /\ UNCHANGED <<total, spent, regained>>
      BY <1>4 DEF Backup, hermesVars, hermesSync
    <2>2. ASSUME NEW s \in Session
          PROVE  Risen(s)' >= Risen(s) /\ total'[s] <= total[s] + (Risen(s)' - Risen(s))
      BY <2>1, <1>n DEF Risen
    <2> QED
      BY <2>1, <2>2, <1>t, TotalsMoved
  <1>5. CASE StartHermes
    BY <1>5, <1>t DEF StartHermes, HermesScanFits, HermesRowsBounded, HermesRowsComplete, Due, Risen
  <1>6. CASE RestartHermes
    BY <1>6, <1>t, <1>z, <1>n DEF RestartHermes, Cleared, HermesScanFits, HermesRowsBounded, HermesRowsComplete, Due, Risen
  <1>7. CASE Walk
    BY <1>7, <1>t, Walked
  <1>8. CASE Unreadable
    <2>1. /\ hermesPhase = "walk" /\ hermesPhase' = "commit" /\ hermesCur = hermesSaved /\ hermesDelta = NoTokens
          /\ UNCHANGED <<total, hermesSaved, hermesRows, hermesFull, hermesCur, hermesDelta, spent, regained, thrown>>
          /\ (hermesFull <=> hermesSaved = NoHermesCursor)
      BY <1>8, <1>t DEF Unreadable, HermesScanFits
    <2>2. ASSUME NEW s \in Session
          PROVE  /\ hermesDelta[s] = 0 /\ hermesFull => hermesCur.totals[s] = 0
                 /\ Increase(total[s], hermesCur.totals[s]) \in Nat /\ Increase(total[s], hermesCur.totals[s]) <= total[s]
      BY <2>1, <1>z, <1>n, IncreaseIsNat
    <2>3. ASSUME NEW s \in Session
          PROVE  hermesDelta[s] + Carried(s) + Increase(total[s], hermesCur.totals[s]) <= Risen(s)
      BY <2>1, <2>2, <1>n, <1>t, <1>z DEF Carried, HermesRowsBounded, Due, Risen
    <2>4. ASSUME NEW s \in Session \ thrown
          PROVE  hermesCur.totals[s] <= hermesDelta[s] + Carried(s)
      BY <2>1, <2>2, <1>n, <1>t, <1>z DEF Carried, HermesRowsComplete
    <2>5. \A s \in Session : Carried(s)' = Carried(s) /\ Risen(s)' = Risen(s)
      BY <2>1 DEF Carried, Risen
    <2> QED
      BY <2>1, <2>3, <2>4, <2>5, <1>t DEF HermesScanFits, HermesRowsBounded, HermesRowsComplete, Due
  <1>9. CASE CommitHermes
    <2>1. /\ hermesPhase = "commit" /\ hermesPhase' = "idle" /\ hermesSaved' = hermesCur /\ UNCHANGED <<total, spent, regained, thrown>>
          /\ \A s \in Session : hermesRows'[s] = hermesDelta[s] + Carried(s)
      BY <1>9 DEF CommitHermes
    <2>2. ASSUME NEW s \in Session
          PROVE  /\ hermesRows'[s] + Increase(total[s], hermesCur.totals[s]) <= Risen(s)
                 /\ Increase(total[s], hermesCur.totals[s]) \in Nat /\ hermesRows'[s] \in Nat /\ total[s] <= Risen(s)
                 /\ Risen(s) \in Nat
      <3>1. Increase(total[s], hermesCur.totals[s]) \in Nat
        BY <1>n, IncreaseIsNat
      <3>2. hermesRows'[s] \in Nat /\ Risen(s) \in Nat
        BY <1>t, <1>n DEF HermesTypeOK, HermesTotals, Risen
      <3> QED
        BY <2>1, <3>1, <3>2, <1>t DEF HermesRowsBounded, Due
    <2>3. ASSUME NEW s \in Session \ thrown
          PROVE  hermesCur.totals[s] <= hermesRows'[s]
      BY <2>1, <1>t DEF HermesRowsComplete
    <2>4. \A s \in Session : Risen(s)' = Risen(s) /\ hermesRows'[s] <= Risen(s)
      BY <2>1, <2>2 DEF Risen
    <2> QED
      BY <2>1, <2>2, <2>3, <2>4 DEF HermesScanFits, HermesRowsBounded, HermesRowsComplete, Due
  <1>10. CASE CrashHermes
    BY <1>10, <1>t DEF CrashHermes, HermesScanFits, HermesRowsBounded, HermesRowsComplete, Due, Risen
  <1> QED
    BY <1>1, <1>2, <1>3, <1>4, <1>5, <1>6, <1>7, <1>8, <1>9, <1>10 DEF HermesNext

LEMMA HermesStarts == HermesInit => HermesFits
  <1>1. \A s \in Session : NoTokens[s] = 0 /\ Increase(0, 0) = 0
    BY DEF NoTokens, Increase
  <1>2. NoTokens \in HermesTotals /\ NoHermesCursor \in HermesCursor
    BY DEF NoTokens, NoHermesCursor, HermesTotals, HermesCursor
  <1>3. HermesInit => HermesTypeOK
    <2> SUFFICES ASSUME HermesInit PROVE HermesTypeOK
      OBVIOUS
    <2>1. ino \in Nat \ {0} /\ hermesPhase \in {"idle", "walk", "commit"}
      BY DEF HermesInit
    <2>3. hermesFull \in BOOLEAN
      BY DEF HermesInit
    <2>2. /\ total \in HermesTotals /\ backup \in HermesTotals /\ hermesSaved \in HermesCursor /\ hermesRows \in HermesTotals
          /\ hermesCur \in HermesCursor /\ hermesDelta \in HermesTotals /\ spent \in HermesTotals /\ regained \in HermesTotals
      BY <1>2 DEF HermesInit
    <2> QED
      BY <2>1, <2>2, <2>3 DEF HermesTypeOK
  <1>4. NoHermesCursor.totals = NoTokens
    BY DEF NoHermesCursor
  <1> QED
    BY <1>1, <1>3, <1>4 DEF HermesInit, HermesFits, HermesScanFits, HermesRowsBounded, HermesRowsComplete, Due, Risen

LEMMA HermesImplies == ASSUME HermesFits PROVE NeverMoreThanSpent /\ NothingBehindTotals
  <1>1. NeverMoreThanSpent
    BY DEF HermesFits, HermesRowsBounded, NeverMoreThanSpent, Risen
  <1>2. ASSUME NEW s \in Session, hermesRows[s] < hermesSaved.totals[s] PROVE s \in thrown
    <2>1. hermesRows[s] \in Nat /\ hermesSaved.totals[s] \in Nat
      BY DEF HermesFits, HermesTypeOK, HermesTotals, HermesCursor
    <2> QED
      BY <1>2, <2>1 DEF HermesFits, HermesRowsComplete
  <1> QED
    BY <1>1, <1>2 DEF NothingBehindTotals

-----------------------------------------------------------------------------
(* Grok: turns and the models that spent them.                             *)

GrokTurn == [at : Nat, model : Model]
GrokTotals == [id : Nat, model : Model, tokens : {1, 2}]

\* A timeline that was written while the log had n entries.
TurnsFit(lists, n, lines, models) ==
    \A s \in GrokSession :
        /\ \A j \in 1..Len(lists[s]) : /\ lists[s][j].at \in 1..Len(lines)
                                       /\ models[lists[s][j].at] = lists[s][j].model
        /\ \A j, k \in 1..Len(lists[s]) : j < k => lists[s][j].at < lists[s][k].at
        /\ \A i \in 1..n : lines[i] = s => \E j \in 1..Len(lists[s]) : lists[s][j].at = i

\* The totals of a turn that is in the log, copied or not.
IsGrokTotal(u, n) == u \in GrokTotals /\ u.id \in 1..n /\ u.model = model[u.id]

GrokLogFits ==
    /\ grokLog \in Seq(GrokSession) /\ model \in Seq(Model) /\ Len(model) = Len(grokLog)
    /\ timeline \in [GrokSession -> Seq(GrokTurn)] /\ TurnsFit(timeline, Len(grokLog), grokLog, model)
    /\ \A s \in GrokSession : \A u \in updates[s] : IsGrokTotal(u, Len(grokLog))
    /\ updates \in [GrokSession -> SUBSET GrokTotals]

\* What a sync has read: the totals first, then the length of the log, and
\* the timelines last.
GrokReadsFit ==
    /\ grokPc \in {"idle", "stat", "maps", "parse"}
    /\ bound \in Nat /\ bound <= Len(grokLog)
    /\ grokPc \in {"maps", "parse"} => offset <= bound
    /\ grokPc = "parse" => maps.timeline \in [GrokSession -> Seq(GrokTurn)] /\ TurnsFit(maps.timeline, bound, grokLog, model)
    /\ \A t \in snapshots : /\ t = <<"once", t[2]>> /\ IsGrokTotal(t[2], Len(grokLog))
                            /\ grokPc \in {"maps", "parse"} => t[2].id <= bound
    /\ \A t, u \in snapshots : t[2].id = u[2].id => t = u

GrokRowsFit ==
    /\ offset \in Nat /\ offset <= Len(grokLog)
    /\ DOMAIN grokRows = 1..offset
    /\ \A i \in 1..offset : grokRows[i] = <<grokRows[i][1], Half(i)>>

GrokFits == GrokLogFits /\ GrokReadsFit /\ GrokRowsFit /\ RowsNameTheirModel /\ DetailsAreItsOwn

LEMMA GrokStarts == ASSUME GrokInit PROVE GrokFits
  <1> USE DEF GrokInit, NoMaps
  <1>1. GrokLogFits
    BY DEF GrokLogFits, TurnsFit, IsGrokTotal
  <1>2. GrokReadsFit
    BY DEF GrokReadsFit, IsGrokTotal
  <1>3. GrokRowsFit /\ RowsNameTheirModel
    BY DEF GrokRowsFit, RowsNameTheirModel
  <1>4. DetailsAreItsOwn
    BY DEF DetailsAreItsOwn, InBucket
  <1> QED
    BY <1>1, <1>2, <1>3, <1>4 DEF GrokFits

\* The log grows: what was read of it stays.
LEMMA LogGrows ==
    ASSUME NEW lists, NEW n \in Nat, NEW lines, NEW models, NEW lines2, NEW models2,
           Len(lines) \in Nat, Len(lines2) \in Nat, n <= Len(lines), Len(lines) <= Len(lines2),
           \A i \in 1..Len(lines) : lines2[i] = lines[i] /\ models2[i] = models[i],
           TurnsFit(lists, n, lines, models)
    PROVE  TurnsFit(lists, n, lines2, models2)
  <1> SUFFICES ASSUME NEW s \in GrokSession
               PROVE  /\ \A j \in 1..Len(lists[s]) : /\ lists[s][j].at \in 1..Len(lines2)
                                                     /\ models2[lists[s][j].at] = lists[s][j].model
                      /\ \A j, k \in 1..Len(lists[s]) : j < k => lists[s][j].at < lists[s][k].at
                      /\ \A i \in 1..n : lines2[i] = s => \E j \in 1..Len(lists[s]) : lists[s][j].at = i
    BY DEF TurnsFit
  <1>1. \A j \in 1..Len(lists[s]) : /\ lists[s][j].at \in 1..Len(lines)
                                   /\ models[lists[s][j].at] = lists[s][j].model
    BY DEF TurnsFit
  <1>2. \A j \in 1..Len(lists[s]) : /\ lists[s][j].at \in 1..Len(lines2)
                                   /\ models2[lists[s][j].at] = lists[s][j].model
    BY <1>1
  <1>3. \A j, k \in 1..Len(lists[s]) : j < k => lists[s][j].at < lists[s][k].at
    BY DEF TurnsFit
  <1>4. \A i \in 1..n : lines[i] = s => \E j \in 1..Len(lists[s]) : lists[s][j].at = i
    BY DEF TurnsFit
  <1>5. \A i \in 1..n : i \in 1..Len(lines) /\ lines2[i] = lines[i]
    OBVIOUS
  <1> QED
    BY <1>2, <1>3, <1>4, <1>5

LEMMA InferFits == ASSUME GrokFits, NEW s \in GrokSession, NEW m \in Model, Infer(s, m) PROVE GrokFits'
  <1> DEFINE turn == [at |-> Len(grokLog) + 1, model |-> m]
  <1>1. /\ grokLog' = Append(grokLog, s) /\ model' = Append(model, m)
        /\ timeline' = [timeline EXCEPT ![s] = Append(@, turn)]
        /\ UNCHANGED <<updates, offset, grokRows, details, grokPc, snapshots, bound, maps, misled>>
    BY DEF Infer, grokSync
  <1>2. /\ grokLog \in Seq(GrokSession) /\ model \in Seq(Model) /\ Len(model) = Len(grokLog)
        /\ timeline \in [GrokSession -> Seq(GrokTurn)] /\ TurnsFit(timeline, Len(grokLog), grokLog, model)
    BY DEF GrokFits, GrokLogFits
  <1>3. /\ grokLog' \in Seq(GrokSession) /\ model' \in Seq(Model)
        /\ Len(grokLog') = Len(grokLog) + 1 /\ Len(model') = Len(grokLog')
        /\ \A i \in 1..Len(grokLog) : model'[i] = model[i] /\ grokLog'[i] = grokLog[i]
        /\ model'[Len(grokLog')] = m /\ grokLog'[Len(grokLog')] = s
    BY <1>1, <1>2
  <1>4. turn \in GrokTurn
    BY <1>2 DEF GrokTurn
  <1>5. timeline' \in [GrokSession -> Seq(GrokTurn)]
    BY <1>1, <1>2, <1>4
  <1>6. /\ \A x \in GrokSession : x # s => timeline'[x] = timeline[x]
        /\ Len(timeline'[s]) = Len(timeline[s]) + 1
        /\ timeline'[s][Len(timeline[s]) + 1] = turn
        /\ \A j \in 1..Len(timeline[s]) : timeline'[s][j] = timeline[s][j]
    BY <1>1, <1>2, <1>4
  <1>7. TurnsFit(timeline, Len(grokLog), grokLog', model')
    <2>1. Len(grokLog) \in Nat /\ Len(grokLog') \in Nat /\ Len(grokLog) <= Len(grokLog')
          /\ Len(grokLog) <= Len(grokLog)
      BY <1>2, <1>3
    <2>2. TurnsFit(timeline, Len(grokLog), grokLog, model)
      BY <1>2
    <2>3. \A i \in 1..Len(grokLog) : grokLog'[i] = grokLog[i] /\ model'[i] = model[i]
      BY <1>3
    <2> QED
      BY <2>1, <2>2, <2>3, LogGrows
  <1>8. TurnsFit(timeline', Len(grokLog'), grokLog', model')
    <2> SUFFICES ASSUME NEW x \in GrokSession
                 PROVE  /\ \A j \in 1..Len(timeline'[x]) :
                               /\ timeline'[x][j].at \in 1..Len(grokLog')
                               /\ model'[timeline'[x][j].at] = timeline'[x][j].model
                        /\ \A j, k \in 1..Len(timeline'[x]) :
                               j < k => timeline'[x][j].at < timeline'[x][k].at
                        /\ \A i \in 1..Len(grokLog') :
                               grokLog'[i] = x => \E j \in 1..Len(timeline'[x]) : timeline'[x][j].at = i
      BY DEF TurnsFit
    <2>1. /\ \A j \in 1..Len(timeline[x]) : /\ timeline[x][j].at \in 1..Len(grokLog)
                                            /\ model'[timeline[x][j].at] = timeline[x][j].model
          /\ \A j, k \in 1..Len(timeline[x]) : j < k => timeline[x][j].at < timeline[x][k].at
          /\ \A i \in 1..Len(grokLog) :
                grokLog'[i] = x => \E j \in 1..Len(timeline[x]) : timeline[x][j].at = i
      BY <1>2, <1>7 DEF TurnsFit
    <2>2. Len(timeline[x]) \in Nat /\ Len(grokLog) \in Nat
      BY <1>2
    <2>3. CASE x # s
      <3>1. timeline'[x] = timeline[x]
        BY <1>6, <2>3
      <3>2. \A i \in 1..Len(grokLog') : grokLog'[i] = x => i \in 1..Len(grokLog)
        BY <1>3, <2>2, <2>3
      <3>3. \A i \in 1..Len(grokLog) : i \in 1..Len(grokLog')
        BY <1>3, <2>2
      <3> QED
        BY <2>1, <3>1, <3>2, <3>3
    <2>4. CASE x = s
      <3>1. turn.at = Len(grokLog') /\ turn.model = m
        BY <1>3
      <3>2. \A j \in 1..Len(timeline'[s]) : j \in 1..Len(timeline[s]) \/ j = Len(timeline[s]) + 1
        BY <1>6, <2>2, <2>4
      <3>3. \A j \in 1..Len(timeline'[s]) : /\ timeline'[s][j].at \in 1..Len(grokLog')
                                            /\ model'[timeline'[s][j].at] = timeline'[s][j].model
        <4> SUFFICES ASSUME NEW j \in 1..Len(timeline'[s])
                     PROVE  /\ timeline'[s][j].at \in 1..Len(grokLog')
                            /\ model'[timeline'[s][j].at] = timeline'[s][j].model
          OBVIOUS
        <4>1. CASE j \in 1..Len(timeline[s])
          <5>1. timeline[s][j].at \in 1..Len(grokLog) /\ model'[timeline[s][j].at] = timeline[s][j].model
            BY <2>1, <2>4, <4>1
          <5>2. timeline[s][j].at \in 1..Len(grokLog')
            BY <1>3, <2>2, <5>1
          <5> QED
            BY <1>6, <4>1, <5>1, <5>2
        <4>2. CASE j = Len(timeline[s]) + 1
          <5>1. Len(grokLog') \in 1..Len(grokLog')
            BY <1>3, <2>2
          <5> QED
            BY <1>3, <1>6, <3>1, <4>2, <5>1
        <4> QED
          BY <3>2, <4>1, <4>2
      <3>4. \A j, k \in 1..Len(timeline'[s]) : j < k => timeline'[s][j].at < timeline'[s][k].at
        <4> SUFFICES ASSUME NEW j \in 1..Len(timeline'[s]), NEW k \in 1..Len(timeline'[s]), j < k
                     PROVE  timeline'[s][j].at < timeline'[s][k].at
          OBVIOUS
        <4>1. j \in 1..Len(timeline[s])
          BY <1>6, <2>2, <2>4
        <4>2. CASE k \in 1..Len(timeline[s])
          <5>1. timeline[s][j].at < timeline[s][k].at
            BY <2>1, <2>4, <4>1, <4>2
          <5> QED
            BY <1>6, <4>1, <4>2, <5>1
        <4>3. CASE k = Len(timeline[s]) + 1
          <5>1. timeline[s][j].at \in 1..Len(grokLog)
            BY <2>1, <2>4, <4>1
          <5>2. timeline[s][j].at < Len(grokLog')
            BY <1>3, <2>2, <5>1
          <5> QED
            BY <1>6, <3>1, <4>1, <4>3, <5>2
        <4> QED
          BY <3>2, <4>2, <4>3
      <3>5. \A i \in 1..Len(grokLog') :
               grokLog'[i] = s => \E j \in 1..Len(timeline'[s]) : timeline'[s][j].at = i
        <4> SUFFICES ASSUME NEW i \in 1..Len(grokLog'), grokLog'[i] = s
                     PROVE  \E j \in 1..Len(timeline'[s]) : timeline'[s][j].at = i
          OBVIOUS
        <4>1. CASE i \in 1..Len(grokLog)
          <5>1. PICK j \in 1..Len(timeline[s]) : timeline[s][j].at = i
            BY <2>1, <2>4, <4>1
          <5> QED
            BY <1>6, <2>2, <2>4, <5>1
        <4>2. CASE i = Len(grokLog')
          <5>1. Len(timeline[s]) + 1 \in 1..Len(timeline'[s])
            BY <1>6, <2>2, <2>4
          <5> QED
            BY <1>6, <3>1, <4>2, <5>1
        <4> QED
          BY <1>3, <2>2, <4>1, <4>2
      <3> QED
        BY <2>4, <3>3, <3>4, <3>5
    <2> QED
      BY <2>3, <2>4
  <1> HIDE DEF turn
  <1>9. \A u : IsGrokTotal(u, Len(grokLog)) => IsGrokTotal(u, Len(grokLog))'
    <2> SUFFICES ASSUME NEW u, IsGrokTotal(u, Len(grokLog)) PROVE IsGrokTotal(u, Len(grokLog))'
      OBVIOUS
    <2> QED
      BY <1>2, <1>3 DEF IsGrokTotal
  <1>10. GrokLogFits'
    BY <1>1, <1>3, <1>5, <1>8, <1>9 DEF GrokFits, GrokLogFits
  <1>11. GrokReadsFit'
    <2>1. ASSUME grokPc = "parse" PROVE TurnsFit(maps.timeline, bound, grokLog', model')
      <3>1. bound \in Nat /\ bound <= Len(grokLog) /\ TurnsFit(maps.timeline, bound, grokLog, model)
        BY <2>1 DEF GrokFits, GrokReadsFit
      <3>2. Len(grokLog) \in Nat /\ Len(grokLog') \in Nat /\ Len(grokLog) <= Len(grokLog')
        BY <1>2, <1>3
      <3>3. \A i \in 1..Len(grokLog) : grokLog'[i] = grokLog[i] /\ model'[i] = model[i]
        BY <1>3
      <3> QED
        BY <3>1, <3>2, <3>3, LogGrows
    <2>2. \A t \in snapshots : t = <<"once", t[2]>> /\ IsGrokTotal(t[2], Len(grokLog))'
      BY <1>9 DEF GrokFits, GrokReadsFit
    <2>3. bound <= Len(grokLog')
      BY <1>2, <1>3 DEF GrokFits, GrokReadsFit
    <2> QED
      BY <1>1, <2>1, <2>2, <2>3 DEF GrokFits, GrokReadsFit
  <1>12. offset <= Len(grokLog')
    BY <1>2, <1>3 DEF GrokFits, GrokRowsFit
  <1>13. GrokRowsFit'
    BY <1>1, <1>12 DEF GrokFits, GrokRowsFit
  <1>14. RowsNameTheirModel'
    BY <1>1, <1>2, <1>3 DEF GrokFits, GrokRowsFit, RowsNameTheirModel
  <1>15. DetailsAreItsOwn'
    BY <1>1 DEF GrokFits, DetailsAreItsOwn, InBucket
  <1> QED
    BY <1>10, <1>11, <1>13, <1>14, <1>15 DEF GrokFits

\* The other steps of Grok leave the log and what was counted alone.
LEMMA TotalsChange ==
    ASSUME GrokFits, UNCHANGED <<grokLog, timeline, model, offset, grokRows, details, grokSync, misled>>,
           updates' \in [GrokSession -> SUBSET GrokTotals],
           \A s \in GrokSession : \A u \in updates'[s] : IsGrokTotal(u, Len(grokLog))
    PROVE  GrokFits'
  <1> USE DEF GrokFits, grokSync
  <1>1. GrokLogFits'
    BY DEF GrokLogFits, IsGrokTotal
  <1>2. GrokReadsFit'
    BY DEF GrokReadsFit, IsGrokTotal
  <1>3. GrokRowsFit' /\ RowsNameTheirModel'
    BY DEF GrokRowsFit, RowsNameTheirModel
  <1>4. DetailsAreItsOwn'
    BY DEF DetailsAreItsOwn, InBucket
  <1> QED
    BY <1>1, <1>2, <1>3, <1>4

LEMMA WriteSignalsFits == ASSUME GrokFits, NEW s \in GrokSession, WriteSignals(s) PROVE GrokFits'
  <1>1. UNCHANGED <<grokLog, timeline, model, offset, grokRows, details, grokSync, misled, updates>>
    BY DEF WriteSignals
  <1>2. updates \in [GrokSession -> SUBSET GrokTotals]
        /\ \A x \in GrokSession : \A u \in updates[x] : IsGrokTotal(u, Len(grokLog))
    BY DEF GrokFits, GrokLogFits
  <1> QED
    BY <1>1, <1>2, TotalsChange

LEMMA CompleteFits == ASSUME GrokFits, NEW i \in DOMAIN grokLog, Complete(i) PROVE GrokFits'
  <1> DEFINE turn == [id |-> i, model |-> model[i], tokens |-> 1]
  <1>1. /\ updates' = [updates EXCEPT ![grokLog[i]] = @ \cup {turn}]
        /\ UNCHANGED <<grokLog, timeline, model, offset, grokRows, details, grokSync, misled>>
    BY DEF Complete
  <1>2. updates \in [GrokSession -> SUBSET GrokTotals]
        /\ \A x \in GrokSession : \A u \in updates[x] : IsGrokTotal(u, Len(grokLog))
    BY DEF GrokFits, GrokLogFits
  <1>3. grokLog \in Seq(GrokSession) /\ model \in Seq(Model) /\ Len(model) = Len(grokLog)
    BY DEF GrokFits, GrokLogFits
  <1>4. i \in 1..Len(grokLog) /\ i \in Nat /\ model[i] \in Model /\ grokLog[i] \in GrokSession
    BY <1>3
  <1>5. turn \in GrokTotals
    BY <1>4 DEF GrokTotals
  <1>6. IsGrokTotal(turn, Len(grokLog))
    BY <1>4, <1>5 DEF IsGrokTotal
  <1> HIDE DEF turn
  <1>7. updates' \in [GrokSession -> SUBSET GrokTotals]
    BY <1>1, <1>2, <1>5
  <1>8. \A x \in GrokSession : \A u \in updates'[x] : u \in updates[x] \/ u = turn
    BY <1>1, <1>2
  <1> QED
    BY <1>1, <1>2, <1>6, <1>7, <1>8, TotalsChange

LEMMA ForkSessionFits ==
    ASSUME GrokFits, NEW s \in GrokSession, NEW x \in GrokSession, ForkSession(s, x) PROVE GrokFits'
  <1>1. PICK u \in updates[s], n \in {1, 2} :
           updates' = [updates EXCEPT ![x] = @ \cup {[u EXCEPT !.tokens = n]}]
    BY DEF ForkSession
  <1>2. updates \in [GrokSession -> SUBSET GrokTotals]
        /\ \A y \in GrokSession : \A v \in updates[y] : IsGrokTotal(v, Len(grokLog))
    BY DEF GrokFits, GrokLogFits
  <1> DEFINE turn == [u EXCEPT !.tokens = n]
  <1>3. u \in GrokTotals /\ IsGrokTotal(u, Len(grokLog))
    BY <1>2
  <1>4. turn \in GrokTotals /\ turn.id = u.id /\ turn.model = u.model
    BY <1>3 DEF GrokTotals
  <1>5. IsGrokTotal(turn, Len(grokLog))
    BY <1>3, <1>4 DEF IsGrokTotal
  <1> HIDE DEF turn
  <1>6. updates' = [updates EXCEPT ![x] = @ \cup {turn}]
    BY <1>1 DEF turn
  <1>7. updates' \in [GrokSession -> SUBSET GrokTotals]
    BY <1>2, <1>4, <1>6
  <1>8. \A y \in GrokSession : \A v \in updates'[y] : v \in updates[y] \/ v = turn
    BY <1>2, <1>6
  <1>9. UNCHANGED <<grokLog, timeline, model, offset, grokRows, details, grokSync, misled>>
    BY DEF ForkSession
  <1> QED
    BY <1>2, <1>5, <1>7, <1>8, <1>9, TotalsChange

\* Of the totals read, those that agree, one for each turn.
LEMMA TurnsAreTotals ==
    ASSUME GrokLogFits, NEW read \in SUBSET GrokSession
    PROVE  /\ \A t \in Turns(read) : t = <<"once", t[2]>> /\ IsGrokTotal(t[2], Len(grokLog))
           /\ \A t, u \in Turns(read) : t[2].id = u[2].id => t = u
  <1> DEFINE ids == {u.id : u \in UNION {updates[s] : s \in read}}
             pick(i) == CHOOSE u \in Copies(read, i) : TRUE
  <1>1. \A i \in ids : pick(i) \in Copies(read, i)
    <2> SUFFICES ASSUME NEW i \in ids PROVE \E u : u \in Copies(read, i)
      OBVIOUS
    <2> QED
      BY DEF Copies
  <1>2. \A i \in ids : pick(i).id = i /\ IsGrokTotal(pick(i), Len(grokLog))
    BY <1>1 DEF Copies, GrokLogFits
  <1>3. \A t \in Turns(read) : \E i \in ids : t = <<"once", pick(i)>>
    BY DEF Turns
  <1> HIDE DEF ids, pick
  <1> QED
    BY <1>2, <1>3

LEMMA DiscoverTotalsFits == ASSUME GrokFits, DiscoverTotals PROVE GrokFits'
  <1>1. PICK read \in SUBSET GrokSession : snapshots' = Turns(read)
    BY DEF DiscoverTotals
  <1>2. /\ grokPc' = "stat"
        /\ UNCHANGED <<grokLog, timeline, signals, updates, model, offset, grokRows, details, bound, maps, misled>>
    BY DEF DiscoverTotals, grok
  <1>3. GrokLogFits'
    BY <1>2 DEF GrokFits, GrokLogFits, IsGrokTotal
  <1>4. /\ \A t \in snapshots' : t = <<"once", t[2]>> /\ IsGrokTotal(t[2], Len(grokLog))
        /\ \A t, u \in snapshots' : t[2].id = u[2].id => t = u
    BY <1>1, TurnsAreTotals DEF GrokFits
  <1>5. GrokReadsFit'
    BY <1>2, <1>4 DEF GrokFits, GrokReadsFit, IsGrokTotal
  <1>6. GrokRowsFit' /\ RowsNameTheirModel'
    BY <1>2 DEF GrokFits, GrokRowsFit, RowsNameTheirModel
  <1>7. DetailsAreItsOwn'
    BY <1>2 DEF GrokFits, DetailsAreItsOwn, InBucket
  <1> QED
    BY <1>3, <1>5, <1>6, <1>7 DEF GrokFits

LEMMA StatFits == ASSUME GrokFits, Stat PROVE GrokFits'
  <1>1. /\ grokPc' = "maps" /\ bound' = Len(grokLog)
        /\ UNCHANGED <<grokLog, timeline, signals, updates, model, offset, grokRows, details, snapshots, maps, misled>>
    BY DEF Stat, grok
  <1>2. GrokLogFits'
    BY <1>1 DEF GrokFits, GrokLogFits, IsGrokTotal
  <1>3. bound' \in Nat /\ bound' <= Len(grokLog) /\ offset <= bound'
    BY <1>1 DEF GrokFits, GrokLogFits, GrokRowsFit
  <1>4. GrokReadsFit'
    BY <1>1, <1>3 DEF GrokFits, GrokReadsFit, IsGrokTotal
  <1>5. GrokRowsFit' /\ RowsNameTheirModel'
    BY <1>1 DEF GrokFits, GrokRowsFit, RowsNameTheirModel
  <1>6. DetailsAreItsOwn'
    BY <1>1 DEF GrokFits, DetailsAreItsOwn, InBucket
  <1> QED
    BY <1>2, <1>4, <1>5, <1>6 DEF GrokFits

LEMMA ReadMapsFits == ASSUME GrokFits, ReadMaps PROVE GrokFits'
  <1>1. /\ grokPc = "maps" /\ grokPc' = "parse" /\ maps' = [timeline |-> timeline, signals |-> signals]
        /\ UNCHANGED <<grokLog, timeline, signals, updates, model, offset, grokRows, details, snapshots, bound, misled>>
    BY DEF ReadMaps, grok
  <1>2. GrokLogFits'
    BY <1>1 DEF GrokFits, GrokLogFits, IsGrokTotal
  <1>3. maps'.timeline = timeline
    BY <1>1
  <1>4. TurnsFit(timeline, bound, grokLog, model)
    <2>1. bound \in Nat /\ bound <= Len(grokLog) /\ Len(grokLog) \in Nat
      BY DEF GrokFits, GrokReadsFit, GrokLogFits
    <2>2. \A i \in 1..bound : i \in 1..Len(grokLog)
      BY <2>1
    <2> QED
      BY <2>2 DEF GrokFits, GrokLogFits, TurnsFit
  <1>5. GrokReadsFit'
    BY <1>1, <1>3, <1>4 DEF GrokFits, GrokReadsFit, GrokLogFits, IsGrokTotal
  <1>6. GrokRowsFit' /\ RowsNameTheirModel'
    BY <1>1 DEF GrokFits, GrokRowsFit, RowsNameTheirModel
  <1>7. DetailsAreItsOwn'
    BY <1>1 DEF GrokFits, DetailsAreItsOwn, InBucket
  <1> QED
    BY <1>2, <1>5, <1>6, <1>7 DEF GrokFits

\* The turn that ran the inference is in the timelines that were read after
\* the length of the log: it is the last one that had started, and with
\* signals that are not behind their only model is its.
LEMMA ResolvedRightly ==
    ASSUME GrokFits, grokPc = "parse", NEW i \in 1..bound, ~Behind(i)
    PROVE  ResolveModel(i) = model[i]
  <1> DEFINE s == grokLog[i]
             turns == maps.timeline[s]
  <1>1. /\ grokLog \in Seq(GrokSession) /\ Len(grokLog) \in Nat
        /\ maps.timeline \in [GrokSession -> Seq(GrokTurn)]
        /\ TurnsFit(maps.timeline, bound, grokLog, model)
        /\ bound \in Nat /\ bound <= Len(grokLog)
    BY DEF GrokFits, GrokLogFits, GrokReadsFit
  <1>2. i \in Nat /\ s \in GrokSession
    BY <1>1
  <1>3. turns \in Seq(GrokTurn) /\ Len(turns) \in Nat /\ DOMAIN turns = 1..Len(turns)
    BY <1>1, <1>2
  <1>4. \A j \in 1..Len(turns) : turns[j].at \in Nat /\ model[turns[j].at] = turns[j].model
    <2>1. \A j \in 1..Len(turns) : turns[j].at \in 1..Len(grokLog) /\ model[turns[j].at] = turns[j].model
      BY <1>1, <1>2 DEF TurnsFit
    <2> QED
      BY <1>1, <2>1
  <1>5. \A j, k \in 1..Len(turns) : j < k => turns[j].at < turns[k].at
    BY <1>1, <1>2 DEF TurnsFit
  <1>6. PICK own \in 1..Len(turns) : turns[own].at = i
    BY <1>1, <1>2 DEF TurnsFit
  <1>7. {turns[j].model : j \in DOMAIN turns} = maps.signals[s]
    BY DEF Behind
  <1>8. model[i] \in maps.signals[s]
    BY <1>3, <1>4, <1>6, <1>7
  <1>9. PickModel(turns, i) = model[i]
    <2> DEFINE started == {j \in DOMAIN turns : turns[j].at <= i}
    <2>1. own \in started
      BY <1>2, <1>3, <1>6
    <2>2. \A j \in started : j \in 1..Len(turns) /\ j \in Nat /\ turns[j].at <= i
      BY <1>3
    <2>3. \A j \in started : own >= j
      <3> SUFFICES ASSUME NEW j \in started, ~(own >= j) PROVE FALSE
        OBVIOUS
      <3>1. own < j
        BY <1>6, <2>2
      <3>2. turns[own].at < turns[j].at
        BY <1>5, <1>6, <2>2, <3>1
      <3> QED
        BY <1>2, <1>4, <1>6, <2>2, <3>2
    <2>4. Max(started) \in started /\ \A j \in started : Max(started) >= j
      <3> HIDE DEF started
      <3> QED
        BY <2>1, <2>3, Zenon DEF Max
    <2>5. Max(started) = own
      <3>1. own >= Max(started) /\ Max(started) >= own
        BY <2>1, <2>3, <2>4
      <3>2. own \in Nat /\ Max(started) \in Nat
        BY <2>1, <2>2, <2>4
      <3> QED
        BY <3>1, <3>2
    <2>6. PickModel(turns, i) = turns[Max(started)].model
      BY <2>1 DEF PickModel
    <2> QED
      BY <1>4, <1>6, <2>5, <2>6
  <1>10. CASE Cardinality(maps.signals[s]) = 1
    <2>1. IsFiniteSet({turns[j].model : j \in DOMAIN turns})
      <3> DEFINE f == [j \in 1..Len(turns) |-> turns[j].model]
                 S == {turns[j].model : j \in DOMAIN turns}
      <3>1. f \in Surjection(1..Len(turns), S)
        BY <1>3 DEF Surjection
      <3>2. ExistsSurjection(1..Len(turns), S)
        BY <3>1 DEF ExistsSurjection
      <3> QED
        BY <1>3, <3>2, FS_NatSurjection
    <2>2. PICK x : maps.signals[s] = {x}
      BY <1>7, <1>10, <2>1, FS_Singleton
    <2>3. ResolveModel(i) = CHOOSE m \in maps.signals[s] : TRUE
      BY <1>10 DEF ResolveModel
    <2> QED
      BY <1>8, <2>2, <2>3
  <1>11. CASE Cardinality(maps.signals[s]) # 1
    BY <1>9, <1>11 DEF ResolveModel
  <1> QED
    BY <1>10, <1>11

\* Turns of one token each add up to their number.
LEMMA OnesAddUp ==
    ASSUME NEW turns, IsFiniteSet(turns), \A t \in turns : t[2].tokens = 1
    PROVE  TokensOf(turns) = Cardinality(turns)
  <1>1. {p \in turns \X {1, 2} : p[2] <= p[1][2].tokens} = turns \X {1}
    OBVIOUS
  <1>2. IsFiniteSet({1}) /\ Cardinality({1}) = 1
    BY FS_Singleton
  <1>3. Cardinality(turns \X {1}) = Cardinality(turns) * Cardinality({1})
    BY <1>2, FS_Product
  <1>4. Cardinality(turns) \in Nat
    BY FS_CardinalityType
  <1> QED
    <2>1. TokensOf(turns) = Cardinality(turns \X {1})
      BY <1>1, Zenon DEF TokensOf
    <2> QED
      BY <1>2, <1>3, <1>4, <2>1

\* Turns that add up to as many tokens as a bucket has inferences are those
\* inferences: each is one of them, and there are as many.
LEMMA ReplacedRightly ==
    ASSUME NEW n \in Nat, NEW bs, DOMAIN bs = 1..n, NEW b, NEW turns,
           \A t \in turns : /\ t[2].id \in 1..n /\ bs[t[2].id] = b /\ t[2].tokens = 1,
           \A t, u \in turns : t[2].id = u[2].id => t = u,
           TokensOf(turns) = Cardinality(InBucket(bs, b))
    PROVE  {t[2].id : t \in turns} = InBucket(bs, b)
  <1> DEFINE own == InBucket(bs, b)
             ids == {t[2].id : t \in turns}
             f == [t \in turns |-> t[2].id]
  <1>1. own \subseteq 1..n /\ ids \subseteq own
    BY DEF InBucket
  <1>2. IsFiniteSet(1..n)
    BY FS_Interval
  <1>3. IsFiniteSet(own)
    BY <1>1, <1>2, FS_Subset
  <1>4. IsFiniteSet(ids)
    BY <1>1, <1>3, FS_Subset
  <1>5. f \in Injection(turns, ids)
    BY DEF Injection, IsInjective
  <1>6. f \in Surjection(turns, ids)
    BY DEF Surjection
  <1>7. IsFiniteSet(turns) /\ Cardinality(turns) = Cardinality(ids)
    BY <1>4, <1>5, <1>6, FS_Injection
  <1>8. TokensOf(turns) = Cardinality(turns)
    BY <1>7, OnesAddUp
  <1>9. Cardinality(own) = Cardinality(ids)
    BY <1>7, <1>8
  <1> QED
    BY <1>1, <1>3, <1>9, FS_Subset

LEMMA ParseInferencesFits == ASSUME GrokFits, ParseInferences PROVE GrokFits'
  <1> DEFINE right(i) == <<ResolveModel(i), Half(i)>>
  <1>1. /\ grokPc = "parse" /\ grokPc' = "idle"
        /\ grokRows' = [i \in 1..bound |-> IF i <= offset THEN grokRows[i] ELSE right(i)]
        /\ misled' = (misled \cap 1..offset) \cup {i \in (offset + 1)..bound : Behind(i)}
                      \cup {t[2].id : t \in {u \in snapshots : u[2].tokens # 1}}
        /\ details' = [b \in Bucket |-> Planned(grokRows', b)]
        /\ offset' = bound /\ snapshots' = {} /\ bound' = 0
        /\ UNCHANGED <<grokLog, timeline, signals, updates, model>>
    BY DEF ParseInferences, EndBound, grok
  <1> HIDE DEF right
  <1>2. /\ offset \in Nat /\ bound \in Nat /\ offset <= bound /\ bound <= Len(grokLog)
        /\ Len(grokLog) \in Nat
    BY <1>1 DEF GrokFits, GrokLogFits, GrokRowsFit, GrokReadsFit
  <1>3. GrokLogFits'
    BY <1>1 DEF GrokFits, GrokLogFits, IsGrokTotal
  <1>4. GrokReadsFit'
    BY <1>1, <1>2 DEF GrokReadsFit
  <1>5. \A i \in 1..bound : grokRows'[i] = IF i <= offset THEN grokRows[i] ELSE right(i)
    BY <1>1
  <1>6. DOMAIN grokRows' = 1..bound
    BY <1>1
  <1>7. \A i \in 1..bound : i <= offset => i \in 1..offset
    BY <1>2
  <1>8. \A i \in 1..bound : grokRows'[i] = <<grokRows'[i][1], Half(i)>>
    <2>1. \A i \in 1..offset : grokRows[i] = <<grokRows[i][1], Half(i)>>
      BY DEF GrokFits, GrokRowsFit
    <2>2. \A i \in 1..bound : right(i) = <<right(i)[1], Half(i)>>
      BY DEF right
    <2>3. \A i \in 1..bound : IF i <= offset THEN grokRows'[i] = grokRows[i] /\ i \in 1..offset
                                              ELSE grokRows'[i] = right(i)
      BY <1>5, <1>7
    <2> QED
      BY <2>1, <2>2, <2>3
  <1>9. GrokRowsFit'
    BY <1>1, <1>2, <1>6, <1>8 DEF GrokRowsFit
  <1>10. \A i \in 1..bound : grokRows'[i][1] = model[i] \/ i \in misled'
    <2> SUFFICES ASSUME NEW i \in 1..bound, i \notin misled' PROVE grokRows'[i][1] = model[i]
      OBVIOUS
    <2>1. CASE i <= offset
      <3>1. i \in 1..offset /\ i \notin misled
        BY <1>1, <1>7, <2>1
      <3> QED
        BY <1>5, <2>1, <3>1 DEF GrokFits, GrokRowsFit, RowsNameTheirModel
    <2>2. CASE ~(i <= offset)
      <3>1. i \in (offset + 1)..bound
        BY <1>2, <2>2
      <3>2. ~Behind(i)
        BY <1>1, <3>1
      <3> QED
        BY <1>1, <1>5, <2>2, <3>2, ResolvedRightly DEF right
    <2> QED
      BY <2>1, <2>2
  <1>11. RowsNameTheirModel'
    BY <1>1, <1>6, <1>10 DEF RowsNameTheirModel
  <1>12. DetailsAreItsOwn'
    <2> SUFFICES ASSUME misled' = {}, NEW b \in Bucket PROVE details'[b] = InBucket(grokRows', b)
      BY DEF DetailsAreItsOwn, InBucket
    <2> DEFINE turns == {t \in snapshots : BucketOf(t[2]) = b}
    <2>1. details'[b] = Planned(grokRows', b)
      BY <1>1
    <2>2. \A t \in turns : /\ t[2].id \in 1..bound /\ BucketOf(t[2]) = b /\ t[2].tokens = 1
                           /\ t[2].model = model[t[2].id]
      <3>1. \A t \in snapshots : IsGrokTotal(t[2], Len(grokLog)) /\ t[2].id <= bound
        BY <1>1 DEF GrokFits, GrokReadsFit
      <3>2. \A t \in snapshots : t[2].id \in 1..bound /\ t[2].model = model[t[2].id]
        BY <1>2, <3>1 DEF IsGrokTotal
      <3>3. \A t \in snapshots : t[2].tokens = 1
        BY <1>1
      <3> QED
        BY <3>2, <3>3
    <2>3. \A t \in turns : grokRows'[t[2].id] = b
      BY <1>8, <1>10, <2>2 DEF BucketOf
    <2>4. \A t, u \in turns : t[2].id = u[2].id => t = u
      BY DEF GrokFits, GrokReadsFit
    <2> HIDE DEF turns
    <2>5. TokensOf(turns) = Cardinality(InBucket(grokRows', b))
             => {t[2].id : t \in turns} = InBucket(grokRows', b)
      BY <1>2, <1>6, <2>2, <2>3, <2>4, ReplacedRightly
    <2> QED
      BY <2>1, <2>5 DEF Planned, turns
  <1> QED
    BY <1>3, <1>4, <1>9, <1>11, <1>12 DEF GrokFits

LEMMA RescanInferencesFits == ASSUME GrokFits, RescanInferences PROVE GrokFits'
  <1>1. /\ grokPc = "idle" /\ offset' = 0 /\ grokRows' = <<>> /\ details' = [b \in Bucket |-> {}]
        /\ UNCHANGED <<grokLog, timeline, updates, model, grokPc, snapshots, bound, maps>>
    BY DEF RescanInferences, grokSync
  <1>2. GrokLogFits'
    BY <1>1 DEF GrokFits, GrokLogFits, IsGrokTotal
  <1>3. GrokReadsFit'
    BY <1>1 DEF GrokFits, GrokReadsFit, IsGrokTotal
  <1>4. Len(grokLog) \in Nat
    BY DEF GrokFits, GrokLogFits
  <1>5. GrokRowsFit' /\ RowsNameTheirModel'
    BY <1>1, <1>4 DEF GrokRowsFit, RowsNameTheirModel
  <1>6. DetailsAreItsOwn'
    BY <1>1 DEF DetailsAreItsOwn, InBucket
  <1> QED
    BY <1>2, <1>3, <1>5, <1>6 DEF GrokFits

LEMMA GrokStep == ASSUME GrokFits, [GrokNext]_grokVars PROVE GrokFits'
  <1>1. CASE UNCHANGED grokVars
    <2>1. GrokLogFits'
      BY <1>1 DEF grokVars, grok, GrokFits, GrokLogFits, IsGrokTotal
    <2>2. GrokReadsFit'
      BY <1>1 DEF grokVars, grok, grokSync, GrokFits, GrokReadsFit, IsGrokTotal
    <2>3. GrokRowsFit' /\ RowsNameTheirModel'
      BY <1>1 DEF grokVars, grok, GrokFits, GrokRowsFit, RowsNameTheirModel
    <2>4. DetailsAreItsOwn'
      BY <1>1 DEF grokVars, GrokFits, DetailsAreItsOwn, InBucket
    <2> QED
      BY <2>1, <2>2, <2>3, <2>4 DEF GrokFits
  <1> QED
    BY <1>1, InferFits, WriteSignalsFits, ForkSessionFits, CompleteFits, DiscoverTotalsFits, StatFits,
       ReadMapsFits, ParseInferencesFits, RescanInferencesFits DEF GrokNext

-----------------------------------------------------------------------------
(* What the invariants of the readers give for all of them together.       *)

LEMMA PartStays == [Next]_allVars => part' = part
  BY DEF Next, allVars

LEMMA JsonlSteps == [Next]_allVars /\ part = "jsonl" => [JsonlNext]_jsonlVars
  BY DEF Next, allVars

LEMMA ClaudeSteps == [Next]_allVars /\ part = "claude" => [ClaudeNext]_claudeVars
  BY DEF Next, allVars

LEMMA CodexSteps == [Next]_allVars /\ part = "codex" => [CodexNext]_codexVars
  BY DEF Next, allVars

LEMMA OpenCodeSteps == [Next]_allVars /\ part = "opencode" => [OpenCodeNext]_openCodeVars
  BY DEF Next, allVars

LEMMA HermesSteps == [Next]_allVars /\ part = "hermes" => [HermesNext]_hermesVars
  BY DEF Next, allVars

LEMMA GrokSteps == [Next]_allVars /\ part = "grok" => [GrokNext]_grokVars
  BY DEF Next, allVars

JsonlPart == part = "jsonl" => JsonlFits
ClaudePart == part = "claude" => ClaudeFits
CodexPart == part = "codex" => CodexFits
OpenCodePart == part = "opencode" => OpenCodeFits
HermesPart == part = "hermes" => HermesFits
GrokPart == part = "grok" => GrokFits

LEMMA JsonlHolds == Spec => []JsonlPart
  <1>1. Init => JsonlPart
    BY JsonlStarts DEF Init, JsonlPart
  <1>2. JsonlPart /\ [Next]_allVars => JsonlPart'
    BY PartStays, JsonlSteps, JsonlStep DEF JsonlPart
  <1> QED
    BY <1>1, <1>2, PTL DEF Spec

LEMMA ClaudeHolds == Spec => []ClaudePart
  <1>1. Init => ClaudePart
    BY ClaudeStarts DEF Init, ClaudePart
  <1>2. ClaudePart /\ [Next]_allVars => ClaudePart'
    BY PartStays, ClaudeSteps, ClaudeStep DEF ClaudePart
  <1> QED
    BY <1>1, <1>2, PTL DEF Spec

LEMMA CodexHolds == Spec => []CodexPart
  <1>1. Init => CodexPart
    BY CodexStarts DEF Init, CodexPart
  <1>2. CodexPart /\ [Next]_allVars => CodexPart'
    BY PartStays, CodexSteps, CodexStep DEF CodexPart
  <1> QED
    BY <1>1, <1>2, PTL DEF Spec

LEMMA OpenCodeHolds == Spec => []OpenCodePart
  <1>1. Init => OpenCodePart
    BY OpenCodeStarts DEF Init, OpenCodePart
  <1>2. OpenCodePart /\ [Next]_allVars => OpenCodePart'
    BY PartStays, OpenCodeSteps, OpenCodeStep DEF OpenCodePart
  <1> QED
    BY <1>1, <1>2, PTL DEF Spec

LEMMA HermesHolds == Spec => []HermesPart
  <1>1. Init => HermesPart
    BY HermesStarts DEF Init, HermesPart
  <1>2. HermesPart /\ [Next]_allVars => HermesPart'
    BY PartStays, HermesSteps, HermesStep DEF HermesPart
  <1> QED
    BY <1>1, <1>2, PTL DEF Spec

LEMMA GrokHolds == Spec => []GrokPart
  <1>1. Init => GrokPart
    BY GrokStarts DEF Init, GrokPart
  <1>2. GrokPart /\ [Next]_allVars => GrokPart'
    BY PartStays, GrokSteps, GrokStep DEF GrokPart
  <1> QED
    BY <1>1, <1>2, PTL DEF Spec

\* However logs grow, are trimmed, replaced, forked and read while they are
\* written, no record, message, edge or token is counted twice.
THEOREM NothingIsCountedTwice == Spec => []CountedAtMostOnce
  <1>1. JsonlPart /\ ClaudePart /\ CodexPart /\ OpenCodePart /\ HermesPart => CountedAtMostOnce
    BY JsonlImplies, CodexImplies, HermesImplies
       DEF JsonlPart, ClaudePart, CodexPart, OpenCodePart, HermesPart, ClaudeFits, OpenCodeFits, CountedAtMostOnce
  <1> QED
    BY <1>1, JsonlHolds, ClaudeHolds, CodexHolds, OpenCodeHolds, HermesHolds, PTL

\* What a reader has moved its cursor past is in the rows, except where it
\* knowingly gave a record up.
THEOREM NothingIsLost == Spec => []NothingLost
  <1>1. JsonlPart /\ ClaudePart /\ CodexPart /\ OpenCodePart /\ HermesPart => NothingLost
    BY JsonlImplies, NoneSwallowedFollows, CodexImplies, NothingMissedFollows, HermesImplies
       DEF JsonlPart, ClaudePart, CodexPart, OpenCodePart, HermesPart, NothingLost
  <1> QED
    BY <1>1, JsonlHolds, ClaudeHolds, CodexHolds, OpenCodeHolds, HermesHolds, PTL

\* The tokens of a turn are counted for the model that spent them, whatever
\* Grok writes between the reader's look at its files and its reading.
THEOREM ModelsAreRight == Spec => []CountedForItsModel
  <1>1. GrokPart => CountedForItsModel
    BY DEF GrokPart, GrokFits, CountedForItsModel
  <1> QED
    BY <1>1, GrokHolds, PTL
==============================================================================
