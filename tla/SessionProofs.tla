--------------------------- MODULE SessionProofs ---------------------------
(***************************************************************************)
(* NothingElseLost for any number of sessions, writes, kills and requests. *)
(* It is not inductive: a record that lacks its newline is read by an      *)
(* upload but swallowed by the next append, so a cursor has to stand on a  *)
(* record with its newline; and while a command runs, its memory has to    *)
(* agree with what its last step will save.                                *)
(***************************************************************************)
EXTENDS SessionPipeline, SequenceTheorems, WellFoundedInduction, TLAPS

\* A record that an upload from offset o reads whatever is appended behind it.
Solid(q, o, i) ==
    /\ i > o /\ q[i].ended
    /\ i - 1 > o => q[i - 1].ended

\* Version v of session s is in the table or on its way there.
Held(table, q, o, s, v) ==
    \/ table[s] >= v
    \/ \E i \in 1..Len(q) : Solid(q, o, i) /\ q[i].of = s /\ q[i].version >= v

Safe(s, v) == Held(server, queue, offset, s, v)

CursorsFit == \A s \in Session \ lost : Safe(s, cursors[s])

\* No cursor and no stat is ahead of its file.
StatsFit ==
    /\ \A s \in Session : cursors[s] <= file[s] /\ mem.cur[s] <= file[s]
    /\ mem.at # Null => mem.stat <= file[mem.at]

\* Each file is parsed once and its snapshot is not older than the cursors.
SnapshotsFit ==
    /\ mem.at \notin mem.todo
    /\ \A j \in DOMAIN mem.snapshots :
          LET s == mem.snapshots[j][1]
              v == mem.snapshots[j][2]
          IN  s \notin mem.todo \cup {mem.at} /\ mem.cur[s] <= v /\ cursors[s] <= v

Parsed == {mem.snapshots[j][1] : j \in DOMAIN mem.snapshots}

SyncFits ==
    /\ pc = "scan" =>
          SnapshotsFit /\ \A s \in Session \ (lost \cup Parsed) : Safe(s, mem.cur[s])
    /\ pc = "saveCursors" => \A s \in Session \ lost : Safe(s, mem.cur[s])

UploadFits ==
    /\ pc = "send" =>
          \A s \in Session : mem.rows[s] >= Pending[s] \/ server[s] >= Pending[s]
    /\ pc = "saveOffset" => \A s \in Session : server[s] >= Pending[s]

SessionFits ==
    /\ TypeOK
    /\ CursorsFit
    /\ StatsFit /\ SyncFits /\ UploadFits
    /\ pc \in {"xQueue", "xState"} => cursors = Unseen
-----------------------------------------------------------------------------
(* Operators.                                                              *)

\* A bounded set of numbers has a highest one.
LEMMA HasHighest ==
    ASSUME NEW S \in SUBSET Nat, S # {}, NEW n \in Nat, \A v \in S : v <= n
    PROVE  Highest(S) \in S /\ \A w \in S : w <= Highest(S)
  <1> DEFINE T == {n - v : v \in S}
  <1>1. T \subseteq Nat /\ T # {}
    OBVIOUS
  <1>2. PICK x \in T : \A y \in T : ~(<<y, x>> \in OpToRel(<, Nat))
    BY <1>1, WFMin, NatLessThanWellFounded, Zenon
  <1>3. \A y \in T : ~(y < x)
    BY <1>1, <1>2 DEF OpToRel
  <1>4. PICK v \in S : x = n - v
    OBVIOUS
  <1>5. \A w \in S : w <= v
    <2> SUFFICES ASSUME NEW w \in S PROVE w <= v
      OBVIOUS
    <2>1. n - w \in T
      OBVIOUS
    <2>2. ~(n - w < n - v)
      BY <1>3, <1>4, <2>1
    <2> HIDE DEF T
    <2> QED BY <2>2
  <1>6. \E m \in S : \A w \in S : w <= m
    BY <1>5
  <1> QED BY <1>6 DEF Highest

\* Versions are numbers.
LEMMA VersionIsNat == Version \subseteq Nat /\ 0 \in Version
  BY SessionAssumption DEF Version

\* An upload sends at least what any line it can read says of the session.
LEMMA PendingIsHighest ==
    ASSUME TypeOK
    PROVE  /\ Pending \in Versions
           /\ \A s \in Session, i \in 1..Len(queue) :
                 Readable(i) /\ queue[i].of = s => Pending[s] >= queue[i].version
  <1> DEFINE Of(s) == {0} \cup {queue[i].version : i \in {j \in 1..Len(queue) :
                                           Readable(j) /\ queue[j].of = s}}
  <1>1. \A s \in Session : Of(s) \in SUBSET Version /\ Of(s) # {}
    <2>1. \A i \in 1..Len(queue) : queue[i] \in Piece
      BY ElementOfSeq DEF TypeOK
    <2>2. \A i \in 1..Len(queue) : queue[i].version \in Version
      BY <2>1 DEF Piece
    <2>3. 0 \in Version
      BY VersionIsNat
    <2>4. ASSUME NEW s \in Session PROVE Of(s) \subseteq Version /\ 0 \in Of(s)
      BY <2>2, <2>3
    <2> HIDE DEF Of
    <2> QED BY <2>4
  <1>2. MaxVersion \in Nat /\ \A s \in Session : \A v \in Of(s) : v <= MaxVersion
    <2> HIDE DEF Of
    <2>1. MaxVersion \in Nat /\ \A v \in Version : v <= MaxVersion
      BY SessionAssumption DEF Version
    <2> QED BY <1>1, <2>1
  <1>3. \A s \in Session : Of(s) \in SUBSET Nat
    <2> HIDE DEF Of
    <2> QED BY <1>1, VersionIsNat
  <1>4. \A s \in Session : Highest(Of(s)) \in Of(s) /\ \A w \in Of(s) : w <= Highest(Of(s))
    <2> HIDE DEF Of
    <2> QED BY <1>1, <1>2, <1>3, HasHighest
  <1>5. Pending = [s \in Session |-> Highest(Of(s))]
    BY DEF Pending
  <1>6. Pending \in Versions
    BY <1>1, <1>4, <1>5 DEF Versions
  <1>7. ASSUME NEW s \in Session, NEW i \in 1..Len(queue), Readable(i), queue[i].of = s
        PROVE  Pending[s] >= queue[i].version
    <2>1. queue[i].version \in Of(s)
      BY <1>7
    <2> HIDE DEF Of
    <2>2. queue[i].version \in Nat /\ Highest(Of(s)) \in Nat
      BY <1>3, <1>4, <2>1
    <2> QED BY <1>4, <1>5, <2>1, <2>2
  <1> QED BY <1>6, <1>7

\* The records of the snapshots, in order.
LEMMA RecordsType ==
    ASSUME NEW q \in Seq(Session \X Version)
    PROVE  /\ Records(q) \in Seq(Piece) /\ Len(Records(q)) = Len(q)
           /\ \A i \in 1..Len(q) : Records(q)[i] = Record(q[i][1], q[i][2])
  <1>1. \A i \in 1..Len(q) : q[i][1] \in Session /\ q[i][2] \in Version
    BY ElementOfSeq
  <1>2. \A i \in 1..Len(q) : Record(q[i][1], q[i][2]) \in Piece
    BY <1>1 DEF Record, Piece
  <1>3. DOMAIN q = 1..Len(q) /\ Len(q) \in Nat
    BY LenProperties
  <1>4. Records(q) \in [1..Len(q) -> Piece]
    BY <1>2, <1>3 DEF Records
  <1>5. Records(q) \in Seq(Piece)
    BY <1>3, <1>4, SeqDef
  <1>6. DOMAIN Records(q) = 1..Len(q)
    BY <1>4
  <1>7. Len(Records(q)) = Len(q)
    BY <1>3, <1>5, <1>6, LenProperties
  <1> QED BY <1>3, <1>5, <1>7 DEF Records

-----------------------------------------------------------------------------
(* Types.                                                                  *)

\* The memory between two commands has its type.
LEMMA NoMemType == NoMem \in Mem /\ Unseen \in Versions
  <1>1. Unseen \in Versions /\ 0 \in Version
    BY VersionIsNat DEF Unseen, Versions
  <1>2. 0 \in 0..MaxRetries
    BY SessionAssumption
  <1>3. <<>> \in Seq(Session \X Version)
    OBVIOUS
  <1> QED BY <1>1, <1>2, <1>3 DEF NoMem, Mem

\* Versions of files, rows and cursors are numbers.
LEMMA TableTypes ==
    ASSUME TypeOK
    PROVE  \A s \in Session : /\ file[s] \in Nat /\ server[s] \in Nat
                             /\ cursors[s] \in Version /\ Unseen[s] = 0
  <1> SUFFICES ASSUME NEW s \in Session
               PROVE  /\ file[s] \in Nat /\ server[s] \in Nat
                      /\ cursors[s] \in Version /\ Unseen[s] = 0
    OBVIOUS
  <1>1. file[s] \in Version /\ server[s] \in Version /\ cursors[s] \in Version
    BY DEF TypeOK, Versions
  <1> QED BY <1>1, VersionIsNat DEF Unseen

\* The initial state has the types.
LEMMA InitTypes == Init => TypeOK
  <1>1. 0 \in 0..MaxWrites /\ 0 \in 0..MaxFaults /\ 0 \in Nat
    BY SessionAssumption
  <1>2. "idle" \in PC /\ <<>> \in Seq(Piece)
    BY DEF PC
  <1> QED BY <1>1, <1>2, NoMemType DEF Init, TypeOK

\* Requests and upserts are tables of versions.
LEMMA UpsertType ==
    ASSUME TypeOK, NEW b \in SUBSET Session
    PROVE  /\ Request(b) \in Versions
           /\ \A r, t \in Versions : /\ Upsert(t, r) \in Versions
                                     /\ \A s \in Session : /\ Upsert(t, r)[s] >= t[s]
                                                           /\ Upsert(t, r)[s] >= r[s]
  <1>1. mem.rows \in Versions
    BY DEF TypeOK, Mem
  <1>2. Request(b) \in Versions
    BY <1>1, VersionIsNat DEF Request, Versions
  <1>3. ASSUME NEW r \in Versions, NEW t \in Versions
        PROVE  /\ Upsert(t, r) \in Versions
               /\ \A s \in Session : Upsert(t, r)[s] >= t[s] /\ Upsert(t, r)[s] >= r[s]
    <2>1. \A s \in Session : r[s] \in Nat /\ t[s] \in Nat
      BY VersionIsNat DEF Versions
    <2>2. Upsert(t, r) \in Versions
      BY DEF Upsert, Versions
    <2>3. \A s \in Session : Upsert(t, r)[s] >= t[s] /\ Upsert(t, r)[s] >= r[s]
      BY <2>1 DEF Upsert
    <2> QED BY <2>2, <2>3
  <1> QED BY <1>2, <1>3

\* A request is about sessions.
LEMMA BatchType == ASSUME TypeOK PROVE \A b \in Batches : b \in SUBSET Session
  BY DEF TypeOK, Mem, Batches, Unsent

\* What a torn append leaves are pieces.
LEMMA TornType == ASSUME TypeOK PROVE \A torn \in TornAppends : torn \in Seq(Piece)
  <1> DEFINE all == Records(mem.snapshots)
  <1>1. all \in Seq(Piece)
    BY RecordsType DEF TypeOK, Mem
  <1>2. \A n \in DOMAIN all : SubSeq(all, 1, n - 1) \in Seq(Piece)
    BY <1>1, SubSeqProperties, LenProperties
  <1>3. \A n \in DOMAIN all : [all[n] EXCEPT !.ended = FALSE] \in Piece
    <2>1. \A r \in Piece : [r EXCEPT !.ended = FALSE] \in Piece
      BY DEF Piece
    <2>2. \A n \in DOMAIN all : all[n] \in Piece
      BY <1>1, LenProperties, ElementOfSeq
    <2> HIDE DEF all
    <2> QED BY <2>1, <2>2
  <1>4. [of |-> Null, version |-> 0, ended |-> FALSE] \in Piece
    BY VersionIsNat DEF Piece
  <1>5. TornAppends = UNION {{SubSeq(all, 1, n - 1),
                              Append(SubSeq(all, 1, n - 1), [all[n] EXCEPT !.ended = FALSE]),
                              Append(SubSeq(all, 1, n - 1),
                                     [of |-> Null, version |-> 0, ended |-> FALSE])}
                             : n \in DOMAIN all}
    BY DEF TornAppends
  <1> HIDE DEF all
  <1>6. ASSUME NEW q \in Seq(Piece), NEW r \in Piece PROVE Append(q, r) \in Seq(Piece)
    OBVIOUS
  <1>7. ASSUME NEW n \in DOMAIN all
        PROVE  {SubSeq(all, 1, n - 1),
                Append(SubSeq(all, 1, n - 1), [all[n] EXCEPT !.ended = FALSE]),
                Append(SubSeq(all, 1, n - 1),
                       [of |-> Null, version |-> 0, ended |-> FALSE])} \subseteq Seq(Piece)
    BY <1>2, <1>3, <1>4, <1>6
  <1> QED BY <1>5, <1>7, Zenon

\* Every step keeps the types.
LEMMA NextTypes == TypeOK /\ [Next]_vars => TypeOK'
  <1> SUFFICES ASSUME TypeOK, [Next]_vars PROVE TypeOK'
    OBVIOUS
  <1> USE DEF TypeOK
  <1>0. mem \in Mem /\ NoMem \in Mem /\ Unseen \in Versions
    BY NoMemType
  <1>1. ASSUME NEW s \in Session, WriteFile(s) PROVE TypeOK'
    <2>1. file' \in Versions
      BY <1>1, SessionAssumption DEF WriteFile, Versions, Version
    <2>2. writes' \in 0..MaxWrites
      BY <1>1, SessionAssumption DEF WriteFile
    <2> QED BY <1>1, <2>1, <2>2 DEF WriteFile, ToolStep, cloud
  <1>2. ASSUME NEW s \in Session, RemoveFile(s) PROVE TypeOK'
    BY <1>2 DEF RemoveFile, ToolStep, cloud
  <1>3. CASE StartSync
    <2>1. PICK found \in SUBSET present :
             mem' = [NoMem EXCEPT !.cur = cursors, !.found = found, !.todo = found]
      BY <1>3 DEF StartSync
    <2>2. mem' \in Mem
      BY <1>0, <2>1 DEF Mem
    <2> QED BY <1>3, <2>2 DEF StartSync, Goto, PC, ScanStep, tools, cloud
  <1>4. ASSUME NEW s \in Session, StatFile(s) PROVE TypeOK'
    <2>1. file[s] \in Version
      BY DEF Versions
    <2>2. mem' \in Mem
      BY <1>0, <1>4, <2>1 DEF StatFile, Mem
    <2> QED BY <1>4, <2>2 DEF StatFile, ScanStep, tools, cloud
  <1>5. CASE ParseFile \/ ParseFailed
    <2>1. mem.at \in Session
      BY <1>0, <1>5 DEF ParseFile, ParseFailed, Mem
    <2>2. [mem.cur EXCEPT ![mem.at] = mem.stat] \in Versions
      BY <1>0 DEF Mem, Versions
    <2>3. Append(mem.snapshots, <<mem.at, file[mem.at]>>) \in Seq(Session \X Version)
      <3>1. <<mem.at, file[mem.at]>> \in Session \X Version
        BY <2>1 DEF Versions
      <3> QED BY <1>0, <3>1 DEF Mem
    <2>4. mem' \in Mem
      BY <1>0, <1>5, <2>1, <2>2, <2>3 DEF ParseFile, ParseFailed, Mem
    <2>5. lost' \subseteq Session
      BY <1>5, <2>1 DEF ParseFile, ParseFailed
    <2> QED BY <1>5, <2>4, <2>5 DEF ParseFile, ParseFailed, ScanStep, tools, cloud
  <1>6. CASE AppendBatch
    <2>1. mem.snapshots \in Seq(Session \X Version)
      BY <1>0 DEF Mem
    <2>2. queue' \in Seq(Piece)
      BY <1>6, <2>1, RecordsType, ConcatProperties DEF AppendBatch
    <2>3. \A i \in DOMAIN mem.snapshots : mem.snapshots[i][1] \in Session
      BY <2>1
    <2>4. lost' \subseteq Session
      BY <1>6, <2>3 DEF AppendBatch, Skipped
    <2> QED BY <1>6, <2>2, <2>4 DEF AppendBatch, Goto, PC, ScanStep, tools, cloud
  <1>7. CASE SaveCursors
    <2>1. cursors' \in Versions
      BY <1>0, <1>7, VersionIsNat DEF SaveCursors, Versions, Mem
    <2> QED BY <1>0, <1>7, <2>1 DEF SaveCursors, Finish, PC, ScanStep, tools, cloud
  <1>8. CASE StartUpload
    <2>1. mem' \in Mem
      BY <1>0, <1>8, PendingIsHighest DEF StartUpload, Mem
    <2> QED BY <1>8, <2>1 DEF StartUpload, Goto, PC, UploadStep, tools, cloud
  <1>9. CASE SendOk
    <2>1. PICK b \in Batches :
             /\ server' = Upsert(server, Request(b))
             /\ mem' = [mem EXCEPT !.rows = [s \in Session |-> IF s \in b THEN 0 ELSE @[s]],
                                   !.batch = {}, !.attempt = 0]
             /\ Goto(IF Unsent \subseteq b THEN "saveOffset" ELSE "send")
      BY <1>9 DEF SendOk
    <2>2. server' \in Versions
      BY <2>1, BatchType, UpsertType
    <2>3. mem' \in Mem
      <3>1. [s \in Session |-> IF s \in b THEN 0 ELSE mem.rows[s]] \in Versions
        BY <1>0, VersionIsNat DEF Mem, Versions
      <3>2. 0 \in 0..MaxRetries
        BY SessionAssumption
      <3> QED BY <1>0, <2>1, <3>1, <3>2 DEF Mem
    <2> QED BY <1>9, <2>1, <2>2, <2>3 DEF SendOk, Goto, PC, UploadStep, tools
  <1>10. CASE SendFailed
    <2>1. PICK b \in Batches :
             /\ \/ UNCHANGED cloud
                \/ server' = Upsert(server, Request(b)) /\ UNCHANGED late
                \/ late' = late \cup {Request(b)} /\ UNCHANGED server
             /\ IF mem.attempt < MaxRetries
                THEN mem' = [mem EXCEPT !.batch = b, !.attempt = @ + 1] /\ UNCHANGED pc
                ELSE Finish
      BY <1>10 DEF SendFailed
    <2>2. b \in SUBSET Session
      BY BatchType
    <2>3. server' \in Versions /\ late' \subseteq Versions
      BY <2>1, <2>2, UpsertType DEF cloud
    <2>4. mem' \in Mem /\ pc' \in PC
      <3>1. CASE mem.attempt < MaxRetries
        <4>1. mem.attempt + 1 \in 0..MaxRetries
          BY <1>0, <3>1, SessionAssumption DEF Mem
        <4> QED BY <1>0, <2>1, <2>2, <3>1, <4>1 DEF Mem
      <3>2. CASE ~(mem.attempt < MaxRetries)
        BY <1>0, <2>1, <3>2 DEF Finish, PC
      <3> QED BY <3>1, <3>2
    <2> QED BY <1>10, <2>3, <2>4 DEF SendFailed, UploadStep, tools
  <1>11. CASE SendRefused
    BY <1>0, <1>11 DEF SendRefused, Finish, PC, UploadStep, tools, cloud
  <1>12. CASE SaveOffset
    BY <1>0, <1>12 DEF SaveOffset, Finish, PC, UploadStep, tools, cloud
  <1>13. CASE ApplyLate
    <2>1. PICK r \in late : server' = Upsert(server, r) /\ late' = late \ {r}
      BY <1>13 DEF ApplyLate
    <2>2. server' \in Versions
      BY <2>1, UpsertType
    <2> QED BY <1>13, <2>1, <2>2 DEF ApplyLate, UploadStep, tools
  <1>14. CASE StartReset \/ Reset
    <2>1. mem' = mem /\ lost' = lost /\ faults' = faults /\ UNCHANGED <<tools, cloud>>
      BY <1>14 DEF StartReset, Reset, ResetCursors, ResetQueue, ResetState, ResetStep
    <2>2. pc' \in PC
      BY <1>14 DEF StartReset, Reset, ResetCursors, ResetQueue, ResetState, Goto, PC
    <2>3. cursors' \in {cursors, Unseen} /\ queue' \in {queue, <<>>} /\ offset' \in {offset, 0}
      BY <1>14 DEF StartReset, Reset, ResetCursors, ResetQueue, ResetState
    <2>4. cursors' \in Versions /\ offset' \in Nat
      BY <1>0, <2>3
    <2>5. queue' \in Seq(Piece)
      BY <2>3, EmptySeq, queue \in Seq(Piece)
    <2> QED BY <2>1, <2>2, <2>4, <2>5 DEF tools, cloud
  <1>15. CASE Interrupt
    <2>1. faults' \in 0..MaxFaults
      BY <1>15, SessionAssumption DEF Interrupt
    <2>2. queue' \in Seq(Piece)
      BY <1>15, TornType, ConcatProperties DEF Interrupt
    <2>3. cursors' \in Versions /\ offset' \in Nat
      BY <1>0, <1>15 DEF Interrupt
    <2> QED BY <1>0, <1>15, <2>1, <2>2, <2>3 DEF Interrupt, Finish, PC, tools, cloud
  <1>16. CASE UNCHANGED vars
    BY <1>16 DEF vars, tools, cloud
  <1> QED BY <1>1, <1>2, <1>3, <1>4, <1>5, <1>6, <1>7, <1>8, <1>9, <1>10, <1>11, <1>12,
             <1>13, <1>14, <1>15, <1>16 DEF Next, SessionSync, SessionUpload

\* Every state of the pipeline has its type.
THEOREM TypeCorrect == Spec => []TypeOK
  BY InitTypes, NextTypes, PTL DEF Spec

-----------------------------------------------------------------------------
(* What is held stays held.                                                *)

\* What is on its way stays so when pieces are appended.
LEMMA HeldBehind ==
    ASSUME NEW table \in Versions, NEW q \in Seq(Piece), NEW t \in Seq(Piece),
           NEW o \in Nat, NEW s \in Session, NEW v \in Version,
           Held(table, q, o, s, v)
    PROVE  Held(table, q \o t, o, s, v)
  <1>1. CASE table[s] >= v
    BY <1>1 DEF Held
  <1>2. ASSUME NEW i \in 1..Len(q), Solid(q, o, i), q[i].of = s, q[i].version >= v
        PROVE  Held(table, q \o t, o, s, v)
    <2>1. i \in 1..Len(q \o t) /\ (q \o t)[i] = q[i]
      BY ConcatProperties, LenProperties
    <2>2. i - 1 > o => (q \o t)[i - 1] = q[i - 1]
      BY ConcatProperties, LenProperties
    <2>3. Solid(q \o t, o, i)
      BY <1>2, <2>1, <2>2 DEF Solid
    <2> QED BY <1>2, <2>1, <2>3 DEF Held
  <1> QED BY <1>1, <1>2 DEF Held

\* What is held stays held when the table gets better.
LEMMA HeldAbove ==
    ASSUME NEW table \in Versions, NEW above \in Versions, NEW q, NEW o,
           NEW s \in Session, NEW v \in Version, above[s] >= table[s],
           Held(table, q, o, s, v)
    PROVE  Held(above, q, o, s, v)
  <1>1. table[s] \in Nat /\ above[s] \in Nat /\ v \in Nat
    BY VersionIsNat DEF Versions
  <1>2. table[s] >= v => above[s] >= v
    BY <1>1
  <1> QED BY <1>2 DEF Held

\* Version 0 asks for nothing.
LEMMA HeldThere ==
    ASSUME NEW table \in Versions, NEW s \in Session, NEW q, NEW o
    PROVE  Held(table, q, o, s, 0)
  <1>1. table[s] \in Nat
    BY VersionIsNat DEF Versions
  <1> QED BY <1>1 DEF Held

\* An appended record that joins no fragment and lies behind the offset.
LEMMA HeldNew ==
    ASSUME TypeOK, NEW snapshots \in Seq(Session \X Version), NEW j \in 1..Len(snapshots),
           NEW v \in Version, v <= snapshots[j][2],
           snapshots[j][1] \notin Skipped(snapshots)
    PROVE  Held(server, queue \o Records(snapshots), offset, snapshots[j][1], v)
  <1> DEFINE q == queue \o Records(snapshots)
             i == Len(queue) + j
  <1>1. /\ Len(queue) \in Nat /\ offset \in Nat /\ queue \in Seq(Piece)
        /\ Len(snapshots) \in Nat /\ DOMAIN snapshots = 1..Len(snapshots)
    BY LenProperties DEF TypeOK
  <1>2. ~(j = 1 /\ Ragged) /\ ~(i <= offset)
    BY <1>1 DEF Skipped
  <1>3. /\ Len(q) = Len(queue) + Len(snapshots)
        /\ \A k \in 1..Len(snapshots) : q[Len(queue) + k] = Record(snapshots[k][1], snapshots[k][2])
        /\ \A k \in 1..Len(queue) : q[k] = queue[k]
    <2>1. /\ Records(snapshots) \in Seq(Piece) /\ Len(Records(snapshots)) = Len(snapshots)
          /\ \A k \in 1..Len(snapshots) :
                Records(snapshots)[k] = Record(snapshots[k][1], snapshots[k][2])
      BY RecordsType
    <2> HIDE DEF i
    <2>2. /\ Len(q) = Len(queue) + Len(snapshots)
          /\ \A k \in 1..(Len(queue) + Len(snapshots)) :
                q[k] = IF k <= Len(queue) THEN queue[k] ELSE Records(snapshots)[k - Len(queue)]
      <3> DEFINE records == Records(snapshots)
      <3>1. records \in Seq(Piece) /\ Len(records) = Len(snapshots)
        BY <2>1
      <3> HIDE DEF records
      <3>2. /\ Len(queue \o records) = Len(queue) + Len(records)
            /\ \A k \in 1..(Len(queue) + Len(records)) :
                  (queue \o records)[k] = IF k <= Len(queue) THEN queue[k]
                                         ELSE records[k - Len(queue)]
        BY <1>1, <3>1, ConcatProperties
      <3> QED BY <3>1, <3>2 DEF records
    <2> HIDE DEF q
    <2>3. ASSUME NEW k \in 1..Len(snapshots)
          PROVE  q[Len(queue) + k] = Record(snapshots[k][1], snapshots[k][2])
      <3>1. /\ Len(queue) + k \in 1..(Len(queue) + Len(snapshots))
            /\ ~(Len(queue) + k <= Len(queue)) /\ (Len(queue) + k) - Len(queue) = k
        BY <1>1
      <3> QED BY <2>1, <2>2, <3>1
    <2>4. ASSUME NEW k \in 1..Len(queue) PROVE q[k] = queue[k]
      BY <1>1, <2>2
    <2> QED BY <2>2, <2>3, <2>4
  <1>4. i \in 1..Len(q)
    BY <1>1, <1>3
  <1>5. q[i].ended /\ q[i].of = snapshots[j][1] /\ q[i].version >= v
    <2>1. q[i] = Record(snapshots[j][1], snapshots[j][2])
      BY <1>3
    <2>2. v \in Nat /\ snapshots[j][2] \in Nat
      <3>1. snapshots[j] \in Session \X Version
        BY ElementOfSeq
      <3> QED BY <3>1, VersionIsNat
    <2> QED BY <2>1, <2>2 DEF Record
  <1>6. i - 1 > offset => q[i - 1].ended
    <2>1. CASE j = 1
      <3>1. SUFFICES ASSUME i - 1 > offset PROVE q[i - 1].ended
        OBVIOUS
      <3>2. i - 1 = Len(queue) /\ Len(queue) \in 1..Len(queue) /\ queue # <<>>
        BY <1>1, <2>1, <3>1
      <3>3. queue[Len(queue)].ended
        BY <1>1, <1>2, <2>1, <3>1, <3>2 DEF Ragged
      <3> QED BY <1>3, <3>2, <3>3
    <2>2. CASE j # 1
      <3>1. j - 1 \in 1..Len(snapshots) /\ i - 1 = Len(queue) + (j - 1)
        BY <1>1, <2>2
      <3>2. q[i - 1] = Record(snapshots[j - 1][1], snapshots[j - 1][2])
        BY <1>3, <3>1
      <3> QED BY <3>2 DEF Record
    <2> QED BY <2>1, <2>2
  <1>7. i > offset
    BY <1>1, <1>2
  <1> QED BY <1>4, <1>5, <1>6, <1>7 DEF Held, Solid

\* The next upload sends what is on its way.
LEMMA HeldIsSent ==
    ASSUME TypeOK, NEW s \in Session, NEW v \in Version, Safe(s, v)
    PROVE  server[s] >= v \/ Pending[s] >= v
  <1>1. CASE server[s] >= v
    BY <1>1
  <1>2. ASSUME NEW i \in 1..Len(queue), Solid(queue, offset, i),
               queue[i].of = s, queue[i].version >= v
        PROVE  Pending[s] >= v
    <2>1. Readable(i)
      BY <1>2, SessionAssumption DEF Solid, Readable
    <2>2. queue[i].version \in Nat /\ v \in Nat /\ Pending[s] \in Nat
      <3>1. queue[i] \in Piece
        BY ElementOfSeq DEF TypeOK
      <3> QED BY <3>1, VersionIsNat, PendingIsHighest DEF Piece, Versions
    <2>3. Pending[s] >= queue[i].version
      BY <1>2, <2>1, PendingIsHighest
    <2> QED BY <1>2, <2>2, <2>3
  <1> QED BY <1>1, <1>2 DEF Safe, Held

\* Once the server has all that is pending, it has what is held.
LEMMA HeldArrived ==
    ASSUME TypeOK, NEW s \in Session, NEW v \in Version, Safe(s, v),
           server[s] >= Pending[s], NEW o
    PROVE  Held(server, queue, o, s, v)
  <1>1. server[s] \in Nat /\ Pending[s] \in Nat /\ v \in Nat
    BY VersionIsNat, PendingIsHighest DEF TypeOK, Versions
  <1>2. server[s] >= v
    BY <1>1, HeldIsSent
  <1> QED BY <1>2 DEF Held

-----------------------------------------------------------------------------
(* The inductive invariant.                                                *)

\* Initially no cursor claims anything.
LEMMA InitFits == Init => SessionFits
  <1> SUFFICES ASSUME Init PROVE SessionFits
    OBVIOUS
  <1>1. TypeOK
    BY InitTypes
  <1>2. \A s \in Session : Unseen[s] = 0
    BY DEF Unseen
  <1>3. CursorsFit
    BY <1>1, <1>2, HeldThere DEF Init, CursorsFit, Safe, TypeOK
  <1>4. StatsFit
    BY <1>2 DEF Init, StatsFit, NoMem
  <1> QED BY <1>1, <1>3, <1>4 DEF Init, SessionFits, SyncFits, UploadFits

\* A command that ends leaves a memory that claims nothing.
LEMMA Finished ==
    ASSUME TypeOK', Finish, \A s \in Session : cursors'[s] <= file'[s]
    PROVE  StatsFit' /\ SyncFits' /\ UploadFits' /\ ~(pc' \in {"xQueue", "xState"})
  <1>1. \A s \in Session : NoMem.cur[s] = 0 /\ 0 <= file'[s]
    <2>1. \A s \in Session : NoMem.cur[s] = 0
      BY DEF NoMem, Unseen
    <2>2. file' \in Versions
      BY DEF TypeOK
    <2>3. \A s \in Session : file'[s] \in Nat
      BY <2>2, VersionIsNat DEF Versions
    <2> QED BY <2>1, <2>3
  <1>2. NoMem.at = Null
    BY DEF NoMem
  <1> QED BY <1>1, <1>2 DEF Finish, StatsFit, SyncFits, UploadFits

\* A better server, and a queue with more behind it, lose nothing.
LEMMA StillSafe ==
    ASSUME TypeOK, TypeOK', offset' = offset, \A s \in Session : server'[s] >= server[s],
           queue' = queue \/ \E t \in Seq(Piece) : queue' = queue \o t
    PROVE  \A s \in Session, v \in Version : Safe(s, v) => Held(server', queue', offset', s, v)
  <1> SUFFICES ASSUME NEW s \in Session, NEW v \in Version, Safe(s, v)
               PROVE  Held(server', queue', offset', s, v)
    OBVIOUS
  <1>1. Held(server, queue', offset, s, v)
    <2>1. CASE queue' = queue
      BY <2>1 DEF Safe
    <2>2. ASSUME NEW t \in Seq(Piece), queue' = queue \o t
          PROVE  Held(server, queue', offset, s, v)
      BY <2>2, HeldBehind DEF Safe, TypeOK
    <2> QED BY <2>1, <2>2
  <1> QED BY <1>1, HeldAbove DEF TypeOK

\* What an upload would send depends on the queue and the offset only.
LEMMA PendingStays == queue' = queue /\ offset' = offset => Pending' = Pending
  BY DEF Pending, Readable

\* Uploads in flight: the server only gets better.
LEMMA SendFits ==
    ASSUME TypeOK, TypeOK', CursorsFit, StatsFit,
           UploadStep, offset' = offset, \A s \in Session : server'[s] >= server[s]
    PROVE  /\ CursorsFit'
           /\ \A s \in Session : cursors'[s] <= file'[s]
           /\ Pending' = Pending
  <1>1. \A s \in Session : cursors[s] \in Version
    BY DEF TypeOK, Versions
  <1>2. CursorsFit'
    BY <1>1, StillSafe DEF CursorsFit, UploadStep, Safe
  <1> QED BY <1>2, PendingStays DEF UploadStep, StatsFit, tools

\* The tools only make files newer.
LEMMA ToolFits ==
    ASSUME SessionFits, TypeOK', ToolStep, \A s \in Session : file'[s] >= file[s]
    PROVE  SessionFits'
  <1>1. UNCHANGED <<cursors, queue, offset, server, pc, mem, lost>>
    BY DEF ToolStep, cloud
  <1>2. \A s \in Session : /\ file[s] \in Nat /\ file'[s] \in Nat
                           /\ cursors[s] \in Nat /\ mem.cur[s] \in Nat
    BY VersionIsNat DEF SessionFits, TypeOK, Versions, Mem
  <1>3. mem.at # Null => mem.at \in Session /\ mem.stat \in Nat
    BY VersionIsNat DEF SessionFits, TypeOK, Mem
  <1>4. StatsFit'
    BY <1>1, <1>2, <1>3 DEF SessionFits, StatsFit
  <1>5. CursorsFit' /\ SyncFits'
    BY <1>1 DEF SessionFits, CursorsFit, SyncFits, SnapshotsFit, Parsed, Safe
  <1>6. UploadFits'
    BY <1>1, PendingStays DEF SessionFits, UploadFits
  <1> QED BY <1>1, <1>4, <1>5, <1>6 DEF SessionFits

\* The steps of a sync: what the cursors will claim is held before they are saved.
LEMMA SyncStepFits ==
    ASSUME SessionFits, TypeOK',
           \/ StartSync \/ (\E s \in Session : StatFile(s))
           \/ ParseFile \/ ParseFailed \/ AppendBatch \/ SaveCursors
    PROVE  SessionFits'
  <1>0. TypeOK /\ CursorsFit /\ StatsFit /\ SyncFits /\ UploadFits
    BY DEF SessionFits
  <1>1. \A s \in Session : /\ cursors[s] \in Version /\ cursors[s] \in Nat
                           /\ mem.cur[s] \in Version /\ mem.cur[s] \in Nat
                           /\ file[s] \in Nat
    BY <1>0, VersionIsNat DEF TypeOK, Versions, Mem
  <1>2. mem.snapshots \in Seq(Session \X Version) /\ mem.stat \in Nat /\ DOMAIN mem.cur = Session
    BY <1>0, VersionIsNat DEF TypeOK, Versions, Mem
  <1>3. UNCHANGED <<file, writes, present, offset, server>>
    BY DEF StartSync, StatFile, ParseFile, ParseFailed, AppendBatch, SaveCursors, ScanStep,
           tools, cloud
  <1>4. ASSUME UNCHANGED <<cursors, queue>>, lost \subseteq lost' PROVE CursorsFit'
    BY <1>0, <1>3, <1>4 DEF CursorsFit, Safe
  <1>5. CASE StartSync
    <2>1. PICK found \in SUBSET present :
             mem' = [NoMem EXCEPT !.cur = cursors, !.found = found, !.todo = found]
      BY <1>5 DEF StartSync
    <2>2. /\ mem'.cur = cursors /\ mem'.todo = found /\ mem'.at = Null
          /\ mem'.snapshots = <<>>
      BY <2>1 DEF NoMem
    <2>3. pc' = "scan" /\ UNCHANGED <<cursors, queue, lost>>
      BY <1>5 DEF StartSync, Goto
    <2>4. CursorsFit'
      BY <1>4, <2>3
    <2>5. StatsFit'
      BY <1>0, <1>3, <2>2, <2>3 DEF StatsFit
    <2>6. SnapshotsFit'
      BY <1>0, <2>1, <2>2, SessionAssumption DEF SnapshotsFit, TypeOK
    <2>7. SyncFits'
      BY <2>2, <2>3, <2>4, <2>6 DEF SyncFits, CursorsFit
    <2> QED BY <2>3, <2>4, <2>5, <2>7 DEF SessionFits, UploadFits
  <1>6. ASSUME NEW s \in Session, StatFile(s) PROVE SessionFits'
    <2>1. /\ pc = "scan" /\ pc' = "scan" /\ mem.at = Null /\ s \in mem.todo
          /\ UNCHANGED <<cursors, queue, lost>>
      BY <1>6 DEF StatFile
    <2>2. /\ mem'.cur = mem.cur /\ mem'.snapshots = mem.snapshots
          /\ mem'.todo = mem.todo \ {s}
          /\ mem'.at = Null \/ (mem'.at = s /\ mem'.stat = file[s])
      BY <1>0, <1>6, <2>1 DEF StatFile, TypeOK, Mem
    <2>3. CursorsFit'
      BY <1>4, <2>1
    <2>4. StatsFit'
      BY <1>0, <1>1, <1>3, <2>1, <2>2 DEF StatsFit
    <2>5. SnapshotsFit'
      BY <1>0, <2>1, <2>2, SessionAssumption DEF SyncFits, SnapshotsFit, TypeOK, Mem
    <2>6. SyncFits'
      BY <1>0, <1>3, <2>1, <2>2, <2>5 DEF SyncFits, Parsed, Safe
    <2> QED BY <2>1, <2>3, <2>4, <2>6 DEF SessionFits, UploadFits
  <1>7. CASE ParseFile \/ ParseFailed
    <2>1. /\ pc = "scan" /\ pc' = "scan" /\ mem.at \in Session
          /\ UNCHANGED <<cursors, queue>> /\ lost \subseteq lost'
          /\ ParseFile => lost' = lost
          /\ ~ParseFile => mem.at \in lost'
      BY <1>0, <1>7 DEF ParseFile, ParseFailed, TypeOK, Mem
    <2>2. /\ mem'.at = Null /\ mem'.todo = mem.todo
          /\ mem'.cur = [mem.cur EXCEPT ![mem.at] = mem.stat]
          /\ mem'.snapshots = IF ParseFile THEN Append(mem.snapshots, <<mem.at, file[mem.at]>>)
                              ELSE mem.snapshots
      BY <1>0, <1>7 DEF ParseFile, ParseFailed, TypeOK, Mem
    <2>3. CursorsFit'
      BY <1>4, <2>1
    <2>4. mem.stat <= file[mem.at] /\ mem.at # Null
      BY <1>0, <2>1, SessionAssumption DEF StatsFit
    <2>5. \A s \in Session : mem'.cur[s] = IF s = mem.at THEN mem.stat ELSE mem.cur[s]
      BY <1>2, <2>2
    <2>6. StatsFit'
      BY <1>0, <1>1, <1>3, <2>1, <2>2, <2>4, <2>5 DEF StatsFit
    <2>7. \A j \in DOMAIN mem'.snapshots :
             \/ j \in DOMAIN mem.snapshots /\ mem'.snapshots[j] = mem.snapshots[j]
             \/ ParseFile /\ mem'.snapshots[j] = <<mem.at, file[mem.at]>>
      <3>1. CASE ParseFile
        BY <1>2, <2>1, <2>2, <3>1
      <3>2. CASE ~ParseFile
        BY <2>2, <3>2
      <3> QED BY <3>1, <3>2
    <2>8. SnapshotsFit /\ mem.todo \subseteq Session
      BY <1>0, <2>1 DEF SyncFits, TypeOK, Mem
    <2>9. SnapshotsFit'
      <3>1. ASSUME NEW j \in DOMAIN mem'.snapshots
            PROVE  LET s == mem'.snapshots[j][1]
                       v == mem'.snapshots[j][2]
                   IN  s \notin mem'.todo \cup {mem'.at} /\ mem'.cur[s] <= v /\ cursors'[s] <= v
        <4>1. CASE j \in DOMAIN mem.snapshots /\ mem'.snapshots[j] = mem.snapshots[j]
          <5>1. mem.snapshots[j][1] \in Session
            BY <1>2, <4>1
          <5>2. mem.snapshots[j][1] # mem.at
            BY <2>8, <4>1 DEF SnapshotsFit
          <5> QED BY <2>1, <2>2, <2>5, <2>8, <4>1, <5>1, <5>2, SessionAssumption DEF SnapshotsFit
        <4>2. CASE mem'.snapshots[j] = <<mem.at, file[mem.at]>>
          <5>1. cursors[mem.at] <= file[mem.at]
            BY <1>0, <2>1 DEF StatsFit
          <5> QED BY <2>1, <2>2, <2>4, <2>5, <2>8, <4>2, <5>1 DEF SnapshotsFit
        <4> QED BY <2>7, <4>1, <4>2
      <3>2. mem'.at \notin mem'.todo
        BY <2>2, <2>8, SessionAssumption
      <3> QED BY <3>1, <3>2 DEF SnapshotsFit
    <2>10. ASSUME NEW s \in Session \ (lost' \cup Parsed') PROVE Safe(s, mem.cur[s])' /\ s # mem.at
      <3>1. s # mem.at
        <4>1. CASE ParseFile
          <5>1. /\ Len(mem.snapshots) + 1 \in DOMAIN mem'.snapshots
                /\ mem'.snapshots[Len(mem.snapshots) + 1] = <<mem.at, file[mem.at]>>
            BY <1>2, <2>1, <2>2, <4>1
          <5> QED BY <5>1 DEF Parsed
        <4>2. CASE ~ParseFile
          BY <2>1, <4>2
        <4> QED BY <4>1, <4>2
      <3>2. s \notin Parsed
        <4>1. \A j \in DOMAIN mem.snapshots :
                 j \in DOMAIN mem'.snapshots /\ mem'.snapshots[j] = mem.snapshots[j]
          <5>1. CASE ParseFile
            BY <1>2, <2>1, <2>2, <5>1
          <5>2. CASE ~ParseFile
            BY <2>2, <5>2
          <5> QED BY <5>1, <5>2
        <4> QED BY <4>1 DEF Parsed
      <3>3. Safe(s, mem.cur[s])
        BY <1>0, <2>1, <3>2 DEF SyncFits
      <3> QED BY <1>3, <2>1, <2>5, <3>1, <3>3 DEF Safe
    <2>11. SyncFits'
      BY <2>1, <2>9, <2>10 DEF SyncFits
    <2> QED BY <2>1, <2>3, <2>6, <2>11 DEF SessionFits, UploadFits
  <1>8. CASE AppendBatch
    <2>1. /\ pc = "scan" /\ pc' = "saveCursors" /\ mem' = mem /\ cursors' = cursors
          /\ queue' = queue \o Records(mem.snapshots)
          /\ lost' = (lost \ Parsed) \cup Skipped(mem.snapshots)
      BY <1>8 DEF AppendBatch, ScanDone, Goto, Parsed
    <2>2. SnapshotsFit
      BY <1>0, <2>1 DEF SyncFits
    <2>3. ASSUME NEW s \in Session \ lost', NEW v \in {cursors[s], mem.cur[s]}
          PROVE  Held(server, queue', offset, s, v)
      <3>1. v \in Version
        BY <1>1
      <3>2. CASE s \in Parsed
        <4>1. PICK j \in 1..Len(mem.snapshots) : s = mem.snapshots[j][1]
          BY <1>2, <3>2 DEF Parsed
        <4>2. v <= mem.snapshots[j][2]
          BY <1>2, <2>2, <4>1 DEF SnapshotsFit
        <4>3. s \notin Skipped(mem.snapshots)
          BY <2>1
        <4> QED BY <1>0, <1>2, <2>1, <3>1, <4>1, <4>2, <4>3, HeldNew
      <3>3. CASE s \notin Parsed
        <4>1. s \notin lost
          BY <2>1, <3>3
        <4>2. Safe(s, v)
          BY <1>0, <2>1, <3>3, <4>1 DEF CursorsFit, SyncFits
        <4>3. Records(mem.snapshots) \in Seq(Piece)
          BY <1>2, RecordsType
        <4> QED BY <1>0, <2>1, <3>1, <4>2, <4>3, HeldBehind DEF Safe, TypeOK
      <3> QED BY <3>2, <3>3
    <2>4. CursorsFit' /\ SyncFits'
      BY <1>3, <2>1, <2>3 DEF CursorsFit, SyncFits, Safe
    <2>5. StatsFit'
      BY <1>0, <1>3, <2>1 DEF StatsFit
    <2> QED BY <2>1, <2>4, <2>5 DEF SessionFits, UploadFits
  <1>9. CASE SaveCursors
    <2>1. /\ Finish /\ queue' = queue /\ lost' = lost
          /\ cursors' = [s \in Session |-> IF s \in mem.found \cup present THEN mem.cur[s] ELSE 0]
          /\ pc = "saveCursors" \/ (pc = "scan" /\ mem.snapshots = <<>>)
      BY <1>9 DEF SaveCursors, Saving, ScanDone
    <2>2. \A s \in Session \ lost : Safe(s, mem.cur[s])
      <3>1. mem.snapshots = <<>> => Parsed = {}
        BY DEF Parsed
      <3> QED BY <1>0, <2>1, <3>1 DEF SyncFits
    <2>3. ASSUME NEW s \in Session \ lost' PROVE Held(server', queue', offset', s, cursors'[s])
      <3>1. CASE cursors'[s] = mem.cur[s]
        BY <1>3, <2>1, <2>2, <3>1 DEF Safe
      <3>2. CASE cursors'[s] = 0
        BY <1>0, <1>3, <3>2, HeldThere DEF TypeOK
      <3> QED BY <2>1, <3>1, <3>2
    <2>4. CursorsFit'
      BY <2>3 DEF CursorsFit, Safe
    <2>5. \A s \in Session : cursors'[s] <= file'[s]
      BY <1>0, <1>1, <1>3, <2>1 DEF StatsFit
    <2> QED BY <2>1, <2>4, <2>5, Finished DEF SessionFits
  <1> QED BY <1>5, <1>6, <1>7, <1>8, <1>9

\* The steps of an upload: the offset moves over what the server has.
LEMMA UploadStepFits ==
    ASSUME SessionFits, TypeOK', StartUpload \/ SessionUpload \/ ApplyLate
    PROVE  SessionFits'
  <1>0. /\ TypeOK /\ CursorsFit /\ StatsFit /\ SyncFits /\ UploadFits
        /\ pc \in {"xQueue", "xState"} => cursors = Unseen
    BY DEF SessionFits
  <1>1. Pending \in Versions /\ \A s \in Session : Pending[s] \in Nat /\ server[s] \in Nat
    BY <1>0, PendingIsHighest, VersionIsNat DEF TypeOK, Versions
  <1>2. server' \in Versions /\ \A s \in Session : server'[s] \in Nat
    BY VersionIsNat DEF TypeOK, Versions
  <1>3. UploadStep
    BY DEF StartUpload, SessionUpload, SendOk, SendFailed, SendRefused, SaveOffset, ApplyLate
  <1>4. CASE StartUpload
    <2>1. /\ server' = server /\ offset' = offset
          /\ mem' = mem \/ mem' = [mem EXCEPT !.rows = Pending]
          /\ \/ pc' = "send" /\ mem'.rows = Pending
             \/ pc' = "saveOffset" /\ Pending = Unseen
             \/ pc' = "idle"
      BY <1>0, <1>4 DEF StartUpload, Goto, cloud, TypeOK, Mem
    <2>2. CursorsFit' /\ Pending' = Pending
      BY <1>0, <1>1, <1>3, <2>1, SendFits
    <2>3. /\ mem'.cur = mem.cur /\ mem'.at = mem.at /\ mem'.stat = mem.stat
      BY <1>0, <2>1 DEF TypeOK, Mem
    <2>4. StatsFit'
      BY <1>0, <1>3, <2>3 DEF StatsFit, UploadStep, tools
    <2>5. UploadFits'
      <3>1. \A s \in Session : Unseen[s] = 0
        BY DEF Unseen
      <3> QED BY <1>1, <2>1, <2>2, <3>1 DEF UploadFits
    <2> QED BY <2>1, <2>2, <2>4, <2>5 DEF SessionFits, SyncFits
  <1>5. CASE SendOk
    <2>1. PICK b \in Batches :
             /\ server' = Upsert(server, Request(b))
             /\ mem' = [mem EXCEPT !.rows = [s \in Session |-> IF s \in b THEN 0 ELSE @[s]],
                                   !.batch = {}, !.attempt = 0]
             /\ Goto(IF Unsent \subseteq b THEN "saveOffset" ELSE "send")
      BY <1>5 DEF SendOk
    <2>2. b \in SUBSET Session /\ Request(b) \in Versions /\ server \in Versions
      BY <1>0, BatchType, UpsertType DEF TypeOK
    <2>3. \A s \in Session : server'[s] >= server[s] /\ server'[s] >= Request(b)[s]
      BY <1>0, <2>1, <2>2, UpsertType
    <2>4. offset' = offset /\ pc = "send"
      BY <1>5 DEF SendOk
    <2>5. CursorsFit' /\ Pending' = Pending
      BY <1>0, <1>3, <2>3, <2>4, SendFits
    <2>6. /\ mem'.cur = mem.cur /\ mem'.at = mem.at /\ mem'.stat = mem.stat
          /\ mem'.rows = [s \in Session |-> IF s \in b THEN 0 ELSE mem.rows[s]]
      BY <1>0, <2>1 DEF TypeOK, Mem
    <2>7. StatsFit'
      BY <1>0, <1>3, <2>6 DEF StatsFit, UploadStep, tools
    <2>8. \A s \in Session : mem.rows[s] \in Nat
      BY <1>0, VersionIsNat DEF TypeOK, Mem, Versions
    <2>9. ASSUME NEW s \in b PROVE server'[s] >= Pending[s]
      <3>1. Request(b)[s] = mem.rows[s] /\ s \in Session
        BY <2>2 DEF Request
      <3>2. mem.rows[s] >= Pending[s] \/ server[s] >= Pending[s]
        BY <1>0, <2>4, <3>1 DEF UploadFits
      <3> QED BY <1>1, <1>2, <2>3, <2>8, <3>1, <3>2
    <2>10. ASSUME NEW s \in Session \ b
           PROVE  mem'.rows[s] >= Pending[s] \/ server'[s] >= Pending[s]
      <3>1. mem.rows[s] >= Pending[s] \/ server[s] >= Pending[s]
        BY <1>0, <2>4 DEF UploadFits
      <3> QED BY <1>1, <1>2, <2>3, <2>6, <3>1
    <2>11. ASSUME NEW s \in Session \ b, s \notin Unsent PROVE server'[s] >= Pending[s]
      <3>1. mem.rows[s] = 0 /\ mem'.rows[s] = 0
        BY <2>6, <2>8, <2>11 DEF Unsent
      <3> QED BY <1>1, <1>2, <2>10, <3>1
    <2>12. (pc' = "saveOffset" /\ Unsent \subseteq b) \/ pc' = "send"
      BY <2>1 DEF Goto
    <2>13. UploadFits'
      BY <2>5, <2>9, <2>10, <2>11, <2>12 DEF UploadFits
    <2> QED BY <2>5, <2>7, <2>12, <2>13 DEF SessionFits, SyncFits
  <1>6. CASE SendFailed \/ SendRefused
    <2>1. offset' = offset /\ pc = "send"
      BY <1>6 DEF SendFailed, SendRefused
    <2>2. \A s \in Session : server'[s] >= server[s]
      <3>1. CASE server' = server
        BY <1>1, <3>1
      <3>2. ASSUME NEW b \in Batches, server' = Upsert(server, Request(b))
            PROVE  \A s \in Session : server'[s] >= server[s]
        <4>1. b \in SUBSET Session /\ Request(b) \in Versions /\ server \in Versions
          BY <1>0, BatchType, UpsertType DEF TypeOK
        <4> QED BY <1>0, <3>2, <4>1, UpsertType
      <3> QED BY <1>6, <3>1, <3>2 DEF SendFailed, SendRefused, cloud
    <2>3. CursorsFit' /\ Pending' = Pending /\ \A s \in Session : cursors'[s] <= file'[s]
      BY <1>0, <1>3, <2>1, <2>2, SendFits
    <2>4. CASE Finish
      BY <2>3, <2>4, Finished DEF SessionFits
    <2>5. CASE /\ pc' = pc /\ mem'.cur = mem.cur /\ mem'.at = mem.at /\ mem'.stat = mem.stat
               /\ mem'.rows = mem.rows
      <3>1. StatsFit'
        BY <1>0, <1>3, <2>5 DEF StatsFit, UploadStep, tools
      <3>2. \A s \in Session : mem.rows[s] \in Nat
        BY <1>0, VersionIsNat DEF TypeOK, Mem, Versions
      <3>3. UploadFits'
        BY <1>0, <1>1, <1>2, <2>1, <2>2, <2>3, <2>5, <3>2 DEF UploadFits
      <3> QED BY <2>1, <2>3, <2>5, <3>1, <3>3 DEF SessionFits, SyncFits
    <2> QED BY <1>0, <1>6, <2>4, <2>5 DEF SendFailed, SendRefused, TypeOK, Mem
  <1>7. CASE SaveOffset
    <2>1. /\ Finish /\ server' = server /\ pc = "saveOffset"
          /\ UNCHANGED <<cursors, queue, lost, file>>
      BY <1>3, <1>7 DEF SaveOffset, cloud, UploadStep, tools
    <2>2. ASSUME NEW s \in Session \ lost
          PROVE  Held(server', queue', offset', s, cursors'[s])
      <3>1. server[s] >= Pending[s] /\ Safe(s, cursors[s]) /\ cursors[s] \in Version
        BY <1>0, <2>1 DEF UploadFits, CursorsFit, TypeOK, Versions
      <3> QED BY <1>0, <2>1, <3>1, HeldArrived
    <2>3. CursorsFit'
      BY <2>1, <2>2 DEF CursorsFit, Safe
    <2>4. \A s \in Session : cursors'[s] <= file'[s]
      BY <1>0, <2>1 DEF StatsFit
    <2> QED BY <2>1, <2>3, <2>4, Finished DEF SessionFits
  <1>8. CASE ApplyLate
    <2>1. PICK r \in late : server' = Upsert(server, r)
      BY <1>8 DEF ApplyLate
    <2>2. r \in Versions /\ server \in Versions
      BY <1>0 DEF TypeOK
    <2>3. \A s \in Session : server'[s] >= server[s]
      BY <1>0, <2>1, <2>2, UpsertType
    <2>4. UNCHANGED <<offset, pc, mem, cursors, queue, lost, file>>
      BY <1>3, <1>8 DEF ApplyLate, UploadStep, tools
    <2>5. CursorsFit' /\ Pending' = Pending
      BY <1>0, <1>3, <2>3, <2>4, SendFits
    <2>6. \A s \in Session : mem.cur[s] \in Version /\ mem.rows[s] \in Nat
      BY <1>0, VersionIsNat DEF TypeOK, Mem, Versions
    <2>7. \A s \in Session : Safe(s, mem.cur[s]) => Safe(s, mem.cur[s])'
      BY <1>0, <2>3, <2>4, <2>6, StillSafe DEF Safe
    <2>8. SyncFits'
      BY <1>0, <2>4, <2>7 DEF SyncFits, SnapshotsFit, Parsed
    <2>9. UploadFits'
      BY <1>0, <1>1, <1>2, <2>3, <2>4, <2>5, <2>6 DEF UploadFits
    <2> QED BY <1>0, <2>4, <2>5, <2>8, <2>9 DEF SessionFits, StatsFit
  <1> QED BY <1>4, <1>5, <1>6, <1>7, <1>8 DEF SessionUpload

\* A reset drops the claims before the records.
LEMMA ResetStepFits ==
    ASSUME SessionFits, TypeOK', StartReset \/ Reset
    PROVE  SessionFits'
  <1>0. /\ TypeOK /\ CursorsFit /\ StatsFit
        /\ pc \in {"xQueue", "xState"} => cursors = Unseen
    BY DEF SessionFits
  <1>1. /\ UNCHANGED <<file, server, mem, lost>>
        /\ pc' \in {"xCursors", "xQueue", "xState", "idle"}
    BY DEF StartReset, Reset, ResetCursors, ResetQueue, ResetState, ResetStep, Goto, tools, cloud
  <1>2. StatsFit'
    <2>1. \A s \in Session : Unseen[s] = 0 /\ 0 <= file[s]
      BY <1>0, TableTypes
    <2>2. cursors' \in {cursors, Unseen}
      BY DEF StartReset, Reset, ResetCursors, ResetQueue, ResetState
    <2> QED BY <1>0, <1>1, <2>1, <2>2 DEF StatsFit
  <1>3. ASSUME cursors' = Unseen PROVE CursorsFit'
    <2>1. \A s \in Session : Unseen[s] = 0
      BY DEF Unseen
    <2>2. server' \in Versions
      BY DEF TypeOK
    <2> QED BY <1>3, <2>1, <2>2, HeldThere DEF CursorsFit, Safe
  <1>4. CursorsFit' /\ (pc' \in {"xQueue", "xState"} => cursors' = Unseen)
    <2>1. CASE StartReset
      <3>1. UNCHANGED <<cursors, queue, offset>> /\ pc' = "xCursors"
        BY <2>1 DEF StartReset, Goto
      <3> QED BY <1>0, <1>1, <3>1 DEF CursorsFit, Safe
    <2>2. CASE Reset
      <3>1. cursors' = Unseen
        BY <1>0, <2>2 DEF Reset, ResetCursors, ResetQueue, ResetState
      <3> QED BY <1>3, <3>1
    <2> QED BY <2>1, <2>2
  <1> QED BY <1>1, <1>2, <1>4 DEF SessionFits, SyncFits, UploadFits

\* A kill drops the memory, at worst a file, never a claim that is not held.
LEMMA InterruptFits ==
    ASSUME SessionFits, TypeOK', Interrupt
    PROVE  SessionFits'
  <1>0. TypeOK /\ CursorsFit /\ StatsFit /\ UploadFits
    BY DEF SessionFits
  <1>1. /\ Finish /\ UNCHANGED <<file, server, lost>>
        /\ \A s \in Session : server'[s] >= server[s] /\ cursors[s] \in Version
    <2>1. Finish /\ UNCHANGED <<file, server, lost>>
      BY DEF Interrupt, tools, cloud
    <2> QED BY <1>0, <2>1, TableTypes
  <1>2. \A s \in Session : Unseen[s] = 0 /\ 0 <= file[s]
    BY <1>0, TableTypes
  <1>3. \A s \in Session : cursors'[s] <= file'[s]
    <2>1. cursors' \in {cursors, Unseen}
      BY DEF Interrupt
    <2> QED BY <1>0, <1>1, <1>2, <2>1 DEF StatsFit
  <1>4. CursorsFit'
    <2>1. CASE cursors' = Unseen
      <3>1. server' \in Versions
        BY DEF TypeOK
      <3> QED BY <1>2, <2>1, <3>1, HeldThere DEF CursorsFit, Safe
    <2>2. CASE /\ UNCHANGED <<cursors, offset>>
               /\ queue' = queue \/ \E torn \in TornAppends : queue' = queue \o torn
      <3>1. queue' = queue \/ \E torn \in Seq(Piece) : queue' = queue \o torn
        BY <1>0, <2>2, TornType
      <3> QED BY <1>0, <1>1, <2>2, <3>1, StillSafe DEF CursorsFit, Safe
    <2>3. CASE pc = "saveOffset" /\ UNCHANGED <<cursors, queue>>
      <3>1. ASSUME NEW s \in Session \ lost
            PROVE  Held(server', queue', offset', s, cursors'[s])
        <4>1. server[s] >= Pending[s] /\ Safe(s, cursors[s])
          BY <1>0, <2>3 DEF UploadFits, CursorsFit
        <4> QED BY <1>0, <1>1, <2>3, <4>1, HeldArrived
      <3> QED BY <1>1, <3>1 DEF CursorsFit, Safe
    <2> QED BY <2>1, <2>2, <2>3 DEF Interrupt
  <1> QED BY <1>1, <1>3, <1>4, Finished DEF SessionFits

\* The invariant holds in every state.
THEOREM SessionsFit == Spec => []SessionFits
  <1>1. SessionFits /\ [Next]_vars => SessionFits'
    <2> SUFFICES ASSUME SessionFits, [Next]_vars PROVE SessionFits'
      OBVIOUS
    <2>1. TypeOK /\ TypeOK'
      BY NextTypes DEF SessionFits
    <2>2. ASSUME NEW s \in Session, WriteFile(s) \/ RemoveFile(s) PROVE SessionFits'
      <3>1. DOMAIN file = Session /\ \A t \in Session : file[t] \in Nat
        BY <2>1, TableTypes DEF TypeOK, Versions
      <3>2. ToolStep /\ (file' = file \/ file' = [file EXCEPT ![s] = @ + 1])
        BY <2>2 DEF WriteFile, RemoveFile
      <3>3. \A t \in Session : file'[t] >= file[t]
        BY <3>1, <3>2
      <3> QED BY <2>1, <3>2, <3>3, ToolFits
    <2>3. CASE UNCHANGED vars
      <3>1. ToolStep /\ \A t \in Session : file'[t] >= file[t]
        BY <2>1, <2>3, TableTypes DEF vars, tools, ToolStep
      <3> QED BY <2>1, <3>1, ToolFits
    <2> QED BY <2>1, <2>2, <2>3, SyncStepFits, UploadStepFits, ResetStepFits, InterruptFits
            DEF Next, SessionSync
  <1> QED BY InitFits, <1>1, PTL DEF Spec

\* Whatever is killed, torn, repeated or late: a session whose cursor will skip
\* its file, and that is not known to be lost, has a snapshot at least as new on
\* the server or in what the next upload sends (session-sync.ts writes the queue
\* before the cursors).
THEOREM OnlyKnownLosses == Spec => []NothingElseLost
  <1>1. SessionFits => NothingElseLost
    <2> SUFFICES ASSUME SessionFits, NEW s \in Session \ lost
                 PROVE  server[s] >= cursors[s] \/ Pending[s] >= cursors[s]
      BY DEF NothingElseLost
    <2>1. TypeOK /\ Safe(s, cursors[s]) /\ cursors[s] \in Version
      BY DEF SessionFits, CursorsFit, TypeOK, Versions
    <2> QED BY <2>1, HeldIsSent
  <1> QED BY SessionsFit, <1>1, PTL

=============================================================================
