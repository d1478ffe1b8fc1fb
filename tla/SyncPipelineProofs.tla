------------------------- MODULE SyncPipelineProofs -------------------------
(***************************************************************************)
(* SyncPipeline is type correct, counts each event once on disk and never  *)
(* inflates the server, for any number of files, events, processes,        *)
(* retries and crashes: the three follow from Inductive.  While no request *)
(* that was given up is applied later, it implements UsageLedger, step by  *)
(* step, and so forgets no row: that needs MarksFit in addition.           *)
(***************************************************************************)
EXTENDS SyncPipeline, FiniteSetTheorems, TLAPS

-----------------------------------------------------------------------------
(* Types of the data. *)

\* The empty cursor file, the state read from a missing queue.state.json and
\* the memory of a fresh command are values of their types.
LEMMA Defaults == /\ NoCursors \in CursorFile /\ NoQState \in QState
                  /\ Nothing \in Counts /\ NoMem \in Mem
  <1> USE ConstantsAssumption
  <1>1. NoCursors \in CursorFile
    BY DEF NoCursors, CursorFile
  <1>2. NoQState \in QState
    BY DEF NoQState, QState
  <1>3. Nothing \in Counts
    BY DEF Nothing, Counts
  <1> QED BY <1>1, <1>2, <1>3 DEF NoMem, Mem

\* The rows of a queue have keys.
LEMMA KeysOfType == ASSUME NEW q PROVE KeysOf(q) \subseteq Key
  BY ConstantsAssumption DEF KeysOf

\* What the upload sends are keys.
LEMMA ToSendType == ASSUME qstate \in QState PROVE ToSend \subseteq Key
  BY KeysOfType DEF ToSend, QState

\* A batch is a set of the keys still to send.
LEMMA BatchesType ==
    ASSUME NEW m \in Mem, NEW b \in Batches(m) PROVE b \subseteq Key
  BY DEF Batches, Mem

\* A request leaves the server with a table.
LEMMA OverwriteType ==
    ASSUME NEW t \in Counts, NEW r \in [keys : SUBSET Key, rows : Counts]
    PROVE  Overwrite(t, r) \in Counts
  BY DEF Overwrite, Counts

\* The queue planned from a memory is a table.
LEMMA PlannedQueueType ==
    ASSUME queue \in Counts, NEW m \in Mem PROVE PlannedQueue(m) \in Counts
  BY DEF PlannedQueue, Counts

\* The commit planned at the end of a scan is a commit.
LEMMA PlannedType ==
    ASSUME TypeOK, NEW m \in Mem PROVE Planned(m) \in Commit
  <1> USE ConstantsAssumption
  <1>1. PlannedQueue(m) \in Counts
    BY PlannedQueueType DEF TypeOK
  <1>2. PlannedDirty(m) \subseteq Key
    <2>1. {KeyOf[e] : e \in m.seen} \subseteq Key
      BY DEF Mem
    <2> QED BY <2>1, KeysOfType DEF PlannedDirty, TypeOK, QState
  <1>3. Pruned(m.cur, m.found) \in CursorFile
    <2>1. m.cur \in CursorFile
      BY DEF Mem
    <2> QED BY <2>1 DEF Pruned, CursorFile
  <1> QED BY <1>1, <1>2, <1>3 DEF Planned, Commit

\* The events a scan finds are events.
LEMMA NewEventsType ==
    ASSUME TypeOK, NEW c \in CursorFile, NEW f \in File
    PROVE  NewEvents(c, f) \subseteq Event
  <1>1. log[f].size \in 0..MaxLen /\ log[f].base \in 0..MaxLen
    BY DEF TypeOK, Log
  <1>2. c.file[f] # Null => c.file[f].to \in 0..MaxLen
    BY DEF CursorFile, Cursor
  <1> QED BY <1>1, <1>2, ConstantsAssumption DEF NewEvents, Event

-----------------------------------------------------------------------------
(* The logs only grow: sizes, inodes and dropped prefixes never go back.   *)

Evolved(l, n) ==
    \A f \in File : /\ l[f].size <= n[f].size /\ l[f].ino <= n[f].ino
                    /\ l[f].base <= n[f].base

\* What the tools do to a log makes it evolve (the logs are append-only).
LEMMA ToolEvolves ==
    ASSUME log \in [File -> Log], LogFits(log), Tool
    PROVE  log' \in [File -> Log] /\ LogFits(log') /\ Evolved(log, log')
  <1> USE ConstantsAssumption
  <1>1. PICK f \in File : Create(f) \/ AppendTo(f) \/ Replace(f) \/ Delete(f)
    BY DEF Tool
  <1>2. /\ log[f].ino \in 0..MaxIno /\ log[f].base \in 0..MaxLen
        /\ log[f].size \in 0..MaxLen /\ log[f].base <= log[f].size
        /\ log[f].there => log[f].ino > 0
    BY DEF Log, LogFits
  <1>3. PICK l \in Log :
          /\ log' = [log EXCEPT ![f] = l]
          /\ l.base <= l.size /\ (~l.there => l.base = l.size)
          /\ l.there => l.ino > 0
          /\ log[f].size <= l.size /\ log[f].ino <= l.ino /\ log[f].base <= l.base
    <2>1. CASE Create(f)
      <3> DEFINE l == [log[f] EXCEPT !.there = TRUE, !.ino = log[f].ino + 1]
      <3>1. l \in Log /\ l.base = log[f].base /\ l.size = log[f].size
            /\ l.ino = log[f].ino + 1 /\ l.there
        BY <1>2, <2>1 DEF Log, Create
      <3>2. log' = [log EXCEPT ![f] = l]
        BY <2>1 DEF Create, Log
      <3> HIDE DEF l
      <3> l \in Log
        BY <3>1
      <3> WITNESS l \in Log
      <3> QED BY <1>2, <3>1, <3>2
    <2>2. CASE AppendTo(f)
      <3> DEFINE l == [log[f] EXCEPT !.size = log[f].size + 1]
      <3>1. l \in Log /\ l.base = log[f].base /\ l.size = log[f].size + 1
            /\ l.ino = log[f].ino /\ l.there /\ l.ino > 0
        BY <1>2, <2>2 DEF Log, AppendTo
      <3>2. log' = [log EXCEPT ![f] = l]
        BY <2>2 DEF AppendTo, Log
      <3> HIDE DEF l
      <3> l \in Log
        BY <3>1
      <3> WITNESS l \in Log
      <3> QED BY <1>2, <3>1, <3>2
    <2>3. CASE Replace(f)
      <3>1. PICK base \in {log[f].base, log[f].size} :
               log' = [log EXCEPT ![f].ino = @ + 1, ![f].base = base]
        BY <2>3 DEF Replace
      <3> DEFINE l == [log[f] EXCEPT !.ino = log[f].ino + 1, !.base = base]
      <3>4. log[f].there /\ log[f].ino + 1 \in 0..MaxIno /\ base \in 0..MaxLen
            /\ log[f].base <= base /\ base <= log[f].size
        BY <1>2, <2>3 DEF Replace
      <3>2. l \in Log /\ l.base = base /\ l.size = log[f].size
            /\ l.ino = log[f].ino + 1 /\ l.there
        BY <3>4 DEF Log
      <3>3. log' = [log EXCEPT ![f] = l]
        BY <3>1 DEF Log
      <3> HIDE DEF l
      <3> l \in Log
        BY <3>2
      <3> WITNESS l \in Log
      <3> QED BY <1>2, <3>2, <3>3, <3>4
    <2>4. CASE Delete(f)
      <3> DEFINE l == [log[f] EXCEPT !.there = FALSE, !.base = log[f].size]
      <3>1. l \in Log /\ l.base = log[f].size /\ l.size = log[f].size
            /\ l.ino = log[f].ino /\ ~l.there
        BY <1>2, <2>4 DEF Log, Delete
      <3>2. log' = [log EXCEPT ![f] = l]
        BY <2>4 DEF Delete, Log
      <3> HIDE DEF l
      <3> l \in Log
        BY <3>1
      <3> WITNESS l \in Log
      <3> QED BY <1>2, <3>1, <3>2
    <2> QED BY <1>1, <2>1, <2>2, <2>3, <2>4
  <1>4. \A g \in File : log'[g] = IF g = f THEN l ELSE log[g]
    BY <1>3
  <1>5. \A g \in File : /\ log[g].size \in Nat /\ log[g].ino \in Nat
                        /\ log[g].base \in Nat
    BY DEF Log
  <1> QED BY <1>3, <1>4, <1>5 DEF LogFits, Evolved, Log

\* Cursors that fit a log fit it as it grows.
LEMMA FitEvolves ==
    ASSUME NEW l \in [File -> Log], NEW n \in [File -> Log], Evolved(l, n),
           NEW c \in CursorFile, CursorsFit(l, c)
    PROVE  CursorsFit(n, c)
  BY ConstantsAssumption DEF CursorsFit, Evolved, Log, CursorFile, Cursor

\* Appending to a log, replacing it or deleting it neither makes a counted
\* event parseable again nor hides a counted one from its cursor.
LEMMA AgreeEvolves ==
    ASSUME NEW l \in [File -> Log], NEW n \in [File -> Log], Evolved(l, n),
           NEW c \in CursorFile, CursorsFit(l, c), NEW q \in Counts, Agree(l, q, c)
    PROVE  Agree(n, q, c)
  <1> SUFFICES ASSUME NEW f \in File, NEW i \in 1..MaxLen
               PROVE  /\ q[<<f, i>>] <= 1
                      /\ i > n[f].size => q[<<f, i>>] = 0
                      /\ c.file[f] # Null =>
                            /\ i > c.file[f].to => q[<<f, i>>] = 0
                            /\ c.file[f].ino = n[f].ino /\ n[f].base < i
                               /\ i <= c.file[f].to => q[<<f, i>>] = 1
                      /\ c.file[f] = Null /\ f \notin c.known /\ i > n[f].base
                            => q[<<f, i>>] = 0
    BY DEF Agree
  <1>1. /\ l[f].size \in Nat /\ l[f].ino \in Nat /\ l[f].base \in Nat
        /\ n[f].size \in Nat /\ n[f].ino \in Nat /\ n[f].base \in Nat
        /\ l[f].size <= n[f].size /\ l[f].ino <= n[f].ino /\ l[f].base <= n[f].base
    BY ConstantsAssumption DEF Log, Evolved
  <1>2. c.file[f] # Null => c.file[f].ino \in Nat /\ c.file[f].ino <= l[f].ino
    BY ConstantsAssumption DEF CursorFile, Cursor, CursorsFit
  <1>3. c.file[f] # Null => c.file[f].to \in Nat
    BY ConstantsAssumption DEF CursorFile, Cursor
  <1>4. /\ q[<<f, i>>] <= 1
        /\ i > l[f].size => q[<<f, i>>] = 0
        /\ c.file[f] # Null =>
              /\ i > c.file[f].to => q[<<f, i>>] = 0
              /\ c.file[f].ino = l[f].ino /\ l[f].base < i
                 /\ i <= c.file[f].to => q[<<f, i>>] = 1
        /\ c.file[f] = Null /\ f \notin c.known /\ i > l[f].base => q[<<f, i>>] = 0
    BY DEF Agree
  <1>5. i \in Nat /\ q[<<f, i>>] \in Nat
    BY ConstantsAssumption DEF Counts, Event
  <1> QED BY <1>1, <1>2, <1>3, <1>4, <1>5

\* The same for Sound.
LEMMA SoundEvolves ==
    ASSUME NEW l \in [File -> Log], NEW n \in [File -> Log], Evolved(l, n),
           NEW c \in CursorFile, CursorsFit(l, c), NEW q \in Counts, Sound(l, q, c)
    PROVE  Sound(n, q, c)
  BY AgreeEvolves DEF Sound

-----------------------------------------------------------------------------
(* What a scan does to Agree.                                              *)

\* Losing an entry of a known file makes no event parseable.
LEMMA LoseAgrees ==
    ASSUME NEW l, NEW q, NEW c \in CursorFile, NEW f \in File, f \in c.known,
           Sound(l, q, c)
    PROVE  Sound(l, q, [c EXCEPT !.file[f] = Null])
  <1> DEFINE d == [c EXCEPT !.file[f] = Null]
  <1>1. /\ d.known = c.known
        /\ d.file = [c.file EXCEPT ![f] = Null]
    BY DEF CursorFile
  <1>2. c.file \in [File -> {Null} \cup Cursor]
    BY DEF CursorFile
  <1> HIDE DEF d
  <1>3. CASE IsEmpty(c)
    BY <1>1, <1>2, <1>3 DEF IsEmpty, Sound
  <1>4. CASE Agree(l, q, c)
    BY <1>1, <1>2, <1>4 DEF Agree, Sound
  <1> QED BY <1>3, <1>4 DEF Sound, d

\* Forgetting the files that are gone makes no event parseable.
LEMMA PrunedAgrees ==
    ASSUME log \in [File -> Log], LogFits(log), NEW found \in SUBSET File,
           NEW q \in Counts, NEW c \in CursorFile, CursorsFit(log, c),
           Agree(log, q, c)
    PROVE  CursorsFit(log, Pruned(c, found)) /\ Agree(log, q, Pruned(c, found))
  <1> DEFINE gone == File \ (found \cup Present)
             d == Pruned(c, found)
  <1>1. /\ d.known = c.known \ gone
        /\ d.file = [f \in File |-> IF f \in gone THEN Null ELSE c.file[f]]
    BY DEF Pruned
  <1>2. \A f \in gone : log[f].base = log[f].size
    BY DEF LogFits, Present
  <1>5. gone \subseteq File
    OBVIOUS
  <1> HIDE DEF gone, d
  <1>3. CursorsFit(log, d)
    BY <1>1 DEF CursorsFit
  <1>4. Agree(log, q, d)
    <2>1. ASSUME NEW f \in gone, NEW i \in 1..MaxLen
          PROVE  /\ d.file[f] = Null /\ q[<<f, i>>] <= 1
                 /\ i > log[f].size => q[<<f, i>>] = 0
                 /\ i > log[f].base => q[<<f, i>>] = 0
      BY <1>1, <1>2, <1>5 DEF Agree
    <2>2. \A f \in File \ gone : d.file[f] = c.file[f] /\ (f \in d.known <=> f \in c.known)
      BY <1>1
    <2>3. SUFFICES ASSUME NEW f \in File, NEW i \in 1..MaxLen
                   PROVE  /\ q[<<f, i>>] <= 1
                          /\ i > log[f].size => q[<<f, i>>] = 0
                          /\ d.file[f] # Null =>
                                /\ i > d.file[f].to => q[<<f, i>>] = 0
                                /\ d.file[f].ino = log[f].ino /\ log[f].base < i
                                   /\ i <= d.file[f].to => q[<<f, i>>] = 1
                          /\ d.file[f] = Null /\ f \notin d.known /\ i > log[f].base
                                => q[<<f, i>>] = 0
      BY DEF Agree
    <2>4. CASE f \in gone
      BY <2>1, <2>4
    <2>5. CASE f \notin gone
      BY <2>2, <2>5 DEF Agree
    <2> QED BY <2>4, <2>5
  <1> QED BY <1>3, <1>4 DEF d

\* A file that needs no replay adds its new events to the plan, none of which
\* the queue counts yet, and moves its cursor past them.
LEMMA ScanFits1 ==
    ASSUME TypeOK, LogFits(log), NEW m \in Mem, ScanFits(m),
           NEW f \in m.todo, ~NeedsReplay(m.loaded, f), log[f].there,
           NEW r \in Mem, r.loaded = m.loaded, r.todo = m.todo \ {f},
           r.seen = m.seen \cup NewEvents(m.loaded, f),
           r.cur.file = [m.cur.file EXCEPT
                            ![f] = [ino |-> log[f].ino, to |-> log[f].size]],
           r.cur.known = m.cur.known \cup {f}
    PROVE  ScanFits(r)
  <1> USE ConstantsAssumption
  <1>0. f \in File /\ m.loaded \in CursorFile /\ m.cur \in CursorFile
        /\ r.cur \in CursorFile /\ queue \in Counts
    BY DEF Mem, TypeOK
  <1>1. /\ log[f].size \in 0..MaxLen /\ log[f].base \in 0..MaxLen
        /\ log[f].ino \in Nat /\ log[f].base <= log[f].size
    BY <1>0 DEF TypeOK, Log, LogFits
  <1>2. m.cur.file \in [File -> {Null} \cup Cursor]
    BY <1>0 DEF CursorFile
  <1> DEFINE new == [ino |-> log[f].ino, to |-> log[f].size]
  <1>3. /\ r.cur.file[f] = new /\ new.to = log[f].size /\ new.ino = log[f].ino
        /\ \A g \in File \ {f} : r.cur.file[g] = m.cur.file[g]
    BY <1>0, <1>2
  <1>4. r.cur.file[f] # Null
    <2>1. log[f].ino \in 1..MaxIno
      BY <1>0 DEF TypeOK, Log, LogFits
    <2>2. new \in Cursor
      BY <1>1, <2>1 DEF Cursor
    <2> HIDE DEF new
    <2> QED BY <1>3, <2>2
  <1>5. CursorsFit(log, r.cur)
    BY <1>0, <1>1, <1>3 DEF CursorsFit, ScanFits
  <1> DEFINE old(g, i) == IF IsEmpty(m.loaded) THEN 0 ELSE queue[<<g, i>>]
             from == IF m.loaded.file[f] = Null THEN log[f].base
                     ELSE m.loaded.file[f].to
  <1>6. \A g \in File, i \in 1..MaxLen :
           /\ PlannedQueue(m)[<<g, i>>] = old(g, i) + IF <<g, i>> \in m.seen THEN 1 ELSE 0
           /\ PlannedQueue(r)[<<g, i>>] = old(g, i) + IF <<g, i>> \in r.seen THEN 1 ELSE 0
    BY DEF PlannedQueue, Event
  <1>7. \A g \in File \ {f}, i \in 1..MaxLen : <<g, i>> \in r.seen <=> <<g, i>> \in m.seen
    BY DEF NewEvents
  <1>8. \A i \in 1..MaxLen : /\ <<f, i>> \notin m.seen
                             /\ <<f, i>> \in r.seen <=> i \in (from + 1)..log[f].size
    BY DEF NewEvents, ScanFits
  <1>9. from \in Nat
    BY <1>0, <1>1 DEF CursorFile, Cursor
  <1>10. ASSUME NEW i \in 1..MaxLen
         PROVE  /\ old(f, i) \in Nat /\ old(f, i) <= 1
                /\ i > log[f].size => old(f, i) = 0
                /\ i > from => old(f, i) = 0
                /\ log[f].base < i /\ i <= from => old(f, i) = 1
    <2>1. PlannedQueue(m)[<<f, i>>] = old(f, i)
      BY <1>0, <1>6, <1>8 DEF Counts, Event
    <2>2. old(f, i) \in Nat
      BY <1>0 DEF Counts, Event
    <2>3. m.cur.file[f] = m.loaded.file[f]
      BY DEF ScanFits
    <2>4. CASE m.loaded.file[f] = Null
      <3>1. IsEmpty(m.loaded) \/ f \notin m.cur.known
        BY <2>4 DEF NeedsReplay, ScanFits
      <3>2. i > log[f].base => old(f, i) = 0
        <4>1. CASE IsEmpty(m.loaded)
          BY <4>1
        <4>2. CASE f \notin m.cur.known
          <5>1. i > log[f].base => PlannedQueue(m)[<<f, i>>] = 0
            BY <1>0, <2>3, <2>4, <4>2 DEF ScanFits, Agree
          <5> QED BY <5>1, <2>1
        <4> QED BY <3>1, <4>1, <4>2
      <3>3. /\ PlannedQueue(m)[<<f, i>>] <= 1
            /\ i > log[f].size => PlannedQueue(m)[<<f, i>>] = 0
        BY <1>0 DEF ScanFits, Agree
      <3>4. from = log[f].base
        BY <2>4
      <3> HIDE DEF old, from
      <3> QED BY <1>1, <2>1, <2>2, <3>2, <3>3, <3>4
    <2>5. CASE m.loaded.file[f] # Null
      <3>1. m.loaded.file[f].ino = log[f].ino
        BY <1>0, <2>5 DEF NeedsReplay, IsEmpty
      <3>2. from = m.cur.file[f].to /\ m.cur.file[f].ino = log[f].ino
            /\ m.cur.file[f] # Null
        BY <2>3, <2>5, <3>1
      <3>3. /\ PlannedQueue(m)[<<f, i>>] <= 1
            /\ i > log[f].size => PlannedQueue(m)[<<f, i>>] = 0
            /\ i > m.cur.file[f].to => PlannedQueue(m)[<<f, i>>] = 0
            /\ log[f].base < i /\ i <= m.cur.file[f].to
                  => PlannedQueue(m)[<<f, i>>] = 1
        BY <1>0, <3>2 DEF ScanFits, Agree
      <3> HIDE DEF old, from
      <3> QED BY <2>1, <2>2, <3>2, <3>3
    <2> QED BY <2>4, <2>5
  <1> HIDE DEF old, from, new
  <1>11. Agree(log, PlannedQueue(r), r.cur)
    <2>1. ASSUME NEW i \in 1..MaxLen
          PROVE  LET v == PlannedQueue(r)[<<f, i>>]
                 IN  /\ v <= 1 /\ (i > log[f].size => v = 0)
                     /\ log[f].base < i /\ i <= log[f].size => v = 1
      <3>1. PlannedQueue(r)[<<f, i>>]
              = old(f, i) + IF <<f, i>> \in r.seen THEN 1 ELSE 0
        BY <1>0, <1>6
      <3>2. <<f, i>> \in r.seen <=> from < i /\ i <= log[f].size
        BY <1>1, <1>8, <1>9
      <3> QED BY <1>1, <1>9, <1>10, <3>1, <3>2
    <2>2. ASSUME NEW g \in File \ {f}, NEW i \in 1..MaxLen
          PROVE  PlannedQueue(r)[<<g, i>>] = PlannedQueue(m)[<<g, i>>]
      BY <1>6, <1>7
    <2>3. SUFFICES ASSUME NEW g \in File, NEW i \in 1..MaxLen
                   PROVE  LET v == PlannedQueue(r)[<<g, i>>]
                              k == r.cur.file[g]
                          IN  /\ v <= 1 /\ (i > log[g].size => v = 0)
                              /\ k # Null =>
                                    /\ i > k.to => v = 0
                                    /\ k.ino = log[g].ino /\ log[g].base < i /\ i <= k.to
                                          => v = 1
                              /\ k = Null /\ g \notin r.cur.known /\ i > log[g].base
                                    => v = 0
      BY DEF Agree
    <2>4. CASE g = f
      BY <1>3, <1>4, <2>1, <2>4
    <2>5. CASE g # f
      <3>1. g \in r.cur.known <=> g \in m.cur.known
        BY <2>5
      <3> QED BY <1>3, <2>2, <2>5, <3>1 DEF ScanFits, Agree
    <2> QED BY <2>4, <2>5
  <1>12. \A g \in r.todo :
          /\ r.cur.file[g] = r.loaded.file[g]
          /\ g \in r.cur.known => g \in r.loaded.known
          /\ \A i \in 1..MaxLen : <<g, i>> \notin r.seen
    <2>1. m.todo \subseteq File
      BY DEF Mem
    <2> QED BY <1>3, <1>7, <2>1 DEF ScanFits
  <1> QED BY <1>5, <1>11, <1>12 DEF ScanFits

-----------------------------------------------------------------------------
(* The steps.                                                              *)

\* A step of the lock's owner concerns the owner alone: every other process
\* is idle.
LEMMA OwnerStep ==
    ASSUME Inductive, NEW p \in Proc, pc[p] # "idle",
           NEW label \in PC, Goto(p, label), UNCHANGED stateLock,
           TypeOK', DiskFits', JournalFits', Tables', ProcFits(p)'
    PROVE  Inductive'
  <1>1. \A q \in Proc \ {p} : pc[q] = "idle"
    BY DEF Inductive, Owner
  <1>2. \A q \in Proc \ {p} : pc'[q] = "idle"
    BY <1>1 DEF Goto, Inductive, TypeOK
  <1>3. Owner'
    BY <1>2 DEF Inductive, Owner
  <1>4. \A q \in Proc \ {p} : ProcFits(q)'
    BY <1>2 DEF ProcFits, Redoing
  <1> QED BY <1>3, <1>4 DEF Inductive

\* A command that ends, or is killed, leaves a state with no command running.
LEMMA StopStep ==
    ASSUME Inductive, NEW p \in Proc, pc[p] # "idle", Goto(p, "idle"),
           TypeOK', DiskFits', JournalFits', Tables'
    PROVE  Inductive'
  <1>1. \A q \in Proc : pc'[q] = "idle"
    BY DEF Inductive, Owner, Goto, TypeOK
  <1> QED BY <1>1 DEF Inductive, Owner, ProcFits, Redoing

\* The tools may write at any moment, during a scan too.
LEMMA ToolPreserves == ASSUME Inductive, Tool PROVE Inductive'
  <1>1. /\ log' \in [File -> Log] /\ LogFits(log') /\ Evolved(log, log')
        /\ log \in [File -> Log]
    BY ToolEvolves DEF Inductive, DiskFits, TypeOK
  <1>2. UNCHANGED <<cursors, queue, qstate, journal, server, late, stateLock,
                    pc, mem, faults>>
    BY DEF Tool, Create, AppendTo, Replace, Delete, ToolStep, disk, cloud
  <1>3. TypeOK' /\ Owner' /\ Tables'
    BY <1>1, <1>2 DEF Inductive, TypeOK, Owner, Tables
  <1>4. DiskFits'
    <2>1. cursors \in CursorFile /\ CursorsFit(log, cursors)
      BY DEF Inductive, TypeOK, DiskFits
    <2>2. CursorsFit(log', cursors)
      BY <1>1, <2>1, FitEvolves
    <2>3. ASSUME Sound(log, queue, cursors) PROVE Sound(log', queue, cursors)
      BY <1>1, <2>1, <2>3, SoundEvolves DEF Inductive, TypeOK
    <2> QED BY <1>1, <1>2, <2>2, <2>3 DEF Inductive, DiskFits
  <1>5. JournalFits'
    <2>1. SUFFICES ASSUME journal # Null PROVE JournalFits'
      BY <1>2 DEF JournalFits
    <2>2. /\ journal.cursors \in CursorFile /\ queue \in Counts
          /\ journal.records \in {Null} \cup Counts
          /\ CursorsFit(log, journal.cursors)
      BY <2>1 DEF Inductive, TypeOK, JournalFits, Commit
    <2>3. CursorsFit(log', journal.cursors)
      BY <1>1, <2>2, FitEvolves
    <2>4. ASSUME NEW q \in Counts, Sound(log, q, journal.cursors)
          PROVE  Sound(log', q, journal.cursors)
      BY <1>1, <2>2, <2>4, SoundEvolves
    <2> QED BY <1>2, <2>1, <2>2, <2>3, <2>4 DEF Inductive, JournalFits
  <1>6. ASSUME NEW p \in Proc PROVE ProcFits(p)'
    <2>1. ProcFits(p)
      BY DEF Inductive
    <2>2. ASSUME Sound(log, queue, cursors) PROVE Sound(log', queue, cursors)
      BY <1>1, <2>2, SoundEvolves DEF Inductive, TypeOK, DiskFits
    <2>3. ASSUME NEW m \in Mem, ScanFits(m) PROVE ScanFits(m)'
      <3>1. /\ m.loaded \in CursorFile /\ m.cur \in CursorFile /\ queue \in Counts
            /\ CursorsFit(log, m.loaded) /\ CursorsFit(log, m.cur)
        BY <2>3 DEF Mem, ScanFits, Inductive, TypeOK
      <3>2. CursorsFit(log', m.loaded) /\ CursorsFit(log', m.cur)
        BY <1>1, <3>1, FitEvolves
      <3>3. Sound(log', queue, m.loaded)
        BY <1>1, <2>3, <3>1, SoundEvolves DEF ScanFits
      <3>4. Agree(log', PlannedQueue(m), m.cur)
        BY <1>1, <2>3, <3>1, AgreeEvolves, PlannedQueueType DEF ScanFits
      <3>5. PlannedQueue(m)' = PlannedQueue(m)
        BY <1>2 DEF PlannedQueue
      <3> QED BY <1>2, <2>3, <3>2, <3>3, <3>4, <3>5 DEF ScanFits
    <2>4. mem[p] \in Mem
      BY DEF Inductive, TypeOK
    <2>5. pc[p] = "scan" => ScanFits(mem[p])'
      <3>1. ASSUME pc[p] = "scan" PROVE ScanFits(mem[p])'
        <4>1. ScanFits(mem[p])
          BY <2>1, <3>1 DEF ProcFits
        <4>2. PICK m \in Mem : m = mem[p]
          BY <2>4
        <4>3. ScanFits(m)'
          BY <2>3, <4>1, <4>2
        <4>4. mem'[p] = m
          BY <1>2, <4>2
        <4> QED BY <4>3, <4>4 DEF ScanFits, PlannedQueue
      <3> QED BY <3>1
    <2> QED BY <1>2, <2>1, <2>2, <2>5 DEF ProcFits, Redoing
  <1> QED BY <1>3, <1>4, <1>5, <1>6 DEF Inductive

\* Files, tables and journal that a step leaves alone stay as they were.
LEMMA SameFiles ==
    ASSUME Inductive, UNCHANGED <<log, cursors, queue, journal, server, late>>
    PROVE  DiskFits' /\ JournalFits' /\ Tables'
  BY DEF Inductive, DiskFits, JournalFits, Tables

\* Taking state.lock, releasing it, and removing an orphan.
LEMMA LockPreserves ==
    ASSUME Inductive,
           \/ RemoveOrphan
           \/ \E p \in Proc : Release(p)
           \/ \E p \in Proc, op \in {"sync", "upload", "reset"} : Start(p, op)
    PROVE  Inductive'
  <1>1. CASE RemoveOrphan
    <2>1. \A p \in Proc : pc[p] = "idle"
      BY <1>1, ConstantsAssumption DEF RemoveOrphan, Inductive, Owner
    <2>2. UNCHANGED <<log, cursors, queue, qstate, journal, server, late, pc, mem, faults>>
      BY <1>1 DEF RemoveOrphan, disk, cloud
    <2>3. TypeOK'
      BY <1>1, <2>2 DEF RemoveOrphan, Inductive, TypeOK
    <2> QED BY <2>1, <2>2, <2>3, SameFiles DEF Inductive, Owner, ProcFits, Redoing
  <1>2. ASSUME NEW p \in Proc, Release(p) PROVE Inductive'
    <2>1. UNCHANGED <<log, cursors, queue, qstate, journal, server, late, faults>>
      BY <1>2 DEF Release, disk, cloud
    <2>2. TypeOK'
      BY <1>2, <2>1, Defaults DEF Release, Goto, Set, Inductive, TypeOK, PC
    <2> QED BY <1>2, <2>1, <2>2, SameFiles, StopStep DEF Release
  <1>3. ASSUME NEW p \in Proc, NEW op \in {"sync", "upload", "reset"}, Start(p, op)
        PROVE  Inductive'
    <2>1. UNCHANGED <<log, cursors, queue, qstate, journal, server, late, faults>>
      BY <1>3 DEF Start, disk, cloud
    <2>2. [NoMem EXCEPT !.op = op] \in Mem
      BY Defaults DEF Mem
    <2>3. TypeOK'
      BY <1>3, <2>1, <2>2 DEF Start, Goto, Set, Inductive, TypeOK, PC
    <2>4. \A q \in Proc : pc[q] = "idle"
      BY <1>3, ConstantsAssumption DEF Start, Inductive, Owner
    <2>5. Owner'
      BY <1>3, <2>4 DEF Start, Owner, Goto, Inductive, TypeOK
    <2>6. \A q \in Proc : pc'[q] \in {"idle", "recover"}
      BY <1>3, <2>4 DEF Start, Goto, Inductive, TypeOK
    <2>7. \A q \in Proc : ProcFits(q)'
      BY <2>6 DEF ProcFits, Redoing
    <2> QED BY <2>1, <2>3, <2>5, <2>7, SameFiles DEF Inductive
  <1> QED BY <1>1, <1>2, <1>3

\* Where a command goes on after recovery.
LEMMA AfterRecoveryType ==
    ASSUME NEW m \in Mem
    PROVE  AfterRecovery(m) \in {"load", "xCursors", "discover", "release"}
  BY DEF AfterRecovery, Mem

\* Redoing a journal, one write at a time, and dropping it.
LEMMA RecoveryPreserves ==
    ASSUME Inductive, NEW p \in Proc, Recovery(p) PROVE Inductive'
  <1> USE DEF RecoverStep
  <1>1. UNCHANGED <<log, server, late, stateLock, mem, faults>>
    BY DEF Recovery, ReadJournal, RedoDirty, RedoQueue, RedoOffset, RedoCursors,
           DropJournal, cloud
  <1>2. ProcFits(p) /\ TypeOK /\ mem[p] \in Mem
    BY DEF Inductive, TypeOK
  <1>3. AfterRecovery(mem[p]) \in {"load", "xCursors", "discover", "release"}
    BY <1>2, AfterRecoveryType
  <1>4. CASE ReadJournal(p)
    <2> DEFINE label == IF journal = Null THEN AfterRecovery(mem[p])
                        ELSE IF journal.records = Null THEN "rCursors" ELSE "rDirty"
    <2>1. label \in PC /\ Goto(p, label) /\ pc[p] = "recover"
      BY <1>3, <1>4 DEF ReadJournal, PC
    <2>2. UNCHANGED <<cursors, queue, qstate, journal>>
      BY <1>4 DEF ReadJournal, disk
    <2>3. pc'[p] = label
      BY <1>2, <2>1 DEF Goto, TypeOK
    <2>4. TypeOK'
      BY <1>1, <1>2, <2>1, <2>2 DEF Goto, TypeOK
    <2>5. ProcFits(p)'
      BY <1>3, <2>2, <2>3 DEF ProcFits, Redoing
    <2> HIDE DEF label
    <2> QED BY <1>1, <2>1, <2>2, <2>4, <2>5, SameFiles, OwnerStep
  <1>5. CASE RedoDirty(p)
    <2>1. pc[p] = "rDirty" /\ Goto(p, "rQueue") /\ journal # Null
          /\ journal.records # Null
      BY <1>2, <1>5 DEF RedoDirty, ProcFits, Redoing
    <2>2. UNCHANGED <<cursors, queue, journal>>
      BY <1>5 DEF RedoDirty
    <2>3. qstate' \in QState
      BY <1>2, <1>5, <2>1 DEF RedoDirty, TypeOK, QState, Commit
    <2>4. pc'[p] = "rQueue" /\ "rQueue" \in PC
      BY <1>2, <2>1 DEF Goto, TypeOK, PC
    <2>5. TypeOK'
      BY <1>1, <1>2, <2>1, <2>2, <2>3, <2>4 DEF Goto, TypeOK
    <2>6. ProcFits(p)'
      BY <2>1, <2>2, <2>4 DEF ProcFits, Redoing
    <2> QED BY <1>1, <2>1, <2>2, <2>4, <2>5, <2>6, SameFiles, OwnerStep
  <1>6. CASE RedoQueue(p)
    <2>1. pc[p] = "rQueue" /\ Goto(p, "rOffset") /\ journal # Null
          /\ journal.records # Null
      BY <1>2, <1>6 DEF RedoQueue, ProcFits, Redoing
    <2>2. UNCHANGED <<cursors, qstate, journal>> /\ queue' = journal.records
      BY <1>6 DEF RedoQueue
    <2>3. queue' \in Counts
      BY <1>2, <2>1, <2>2 DEF TypeOK, Commit
    <2>4. pc'[p] = "rOffset" /\ "rOffset" \in PC
      BY <1>2, <2>1 DEF Goto, TypeOK, PC
    <2>5. TypeOK'
      BY <1>1, <1>2, <2>1, <2>2, <2>3, <2>4 DEF Goto, TypeOK
    <2>6. ProcFits(p)'
      BY <2>1, <2>2, <2>4 DEF ProcFits, Redoing
    <2>7. DiskFits' /\ JournalFits' /\ Tables'
      BY <1>1, <2>1, <2>2 DEF Inductive, DiskFits, JournalFits, Tables
    <2> QED BY <1>1, <2>1, <2>4, <2>5, <2>6, <2>7, OwnerStep
  <1>7. CASE RedoOffset(p)
    <2>1. pc[p] = "rOffset" /\ Goto(p, "rCursors")
      BY <1>7 DEF RedoOffset
    <2>2. UNCHANGED <<cursors, queue, journal>>
      BY <1>7 DEF RedoOffset
    <2>3. qstate' \in QState
      BY <1>2, <1>7 DEF RedoOffset, TypeOK, QState
    <2>4. pc'[p] = "rCursors" /\ "rCursors" \in PC
      BY <1>2, <2>1 DEF Goto, TypeOK, PC
    <2>5. TypeOK'
      BY <1>1, <1>2, <2>1, <2>2, <2>3, <2>4 DEF Goto, TypeOK
    <2>6. ProcFits(p)'
      BY <1>2, <2>1, <2>2, <2>4 DEF ProcFits, Redoing
    <2> QED BY <1>1, <2>1, <2>2, <2>4, <2>5, <2>6, SameFiles, OwnerStep
  <1>8. CASE RedoCursors(p)
    <2>1. pc[p] = "rCursors" /\ Goto(p, "rUnlink") /\ journal # Null
      BY <1>2, <1>8 DEF RedoCursors, ProcFits, Redoing
    <2>2. UNCHANGED <<queue, qstate, journal>> /\ cursors' = journal.cursors
      BY <1>8 DEF RedoCursors
    <2>3. cursors' \in CursorFile
      BY <1>2, <2>1, <2>2 DEF TypeOK, Commit
    <2>4. pc'[p] = "rUnlink" /\ "rUnlink" \in PC
      BY <1>2, <2>1 DEF Goto, TypeOK, PC
    <2>5. TypeOK'
      BY <1>1, <1>2, <2>1, <2>2, <2>3, <2>4 DEF Goto, TypeOK
    <2>6. DiskFits' /\ JournalFits' /\ Tables'
      BY <1>1, <2>1, <2>2 DEF Inductive, DiskFits, JournalFits, Tables
    <2>7. journal.records # Null => queue = journal.records
      BY <1>2, <2>1 DEF ProcFits
    <2>8. Sound(log, queue, journal.cursors)
      BY <2>1, <2>7 DEF Inductive, JournalFits
    <2>9. ProcFits(p)'
      BY <1>1, <2>1, <2>2, <2>4, <2>7, <2>8 DEF ProcFits, Redoing
    <2> QED BY <1>1, <2>1, <2>4, <2>5, <2>6, <2>9, OwnerStep
  <1>9. CASE DropJournal(p)
    <2> DEFINE label == AfterRecovery(mem[p])
    <2>1. pc[p] = "rUnlink" /\ Goto(p, label) /\ label \in PC
      BY <1>3, <1>9 DEF DropJournal, PC
    <2>2. UNCHANGED <<cursors, queue, qstate>> /\ journal' = Null
      BY <1>9 DEF DropJournal
    <2>3. pc'[p] = label
      BY <1>2, <2>1 DEF Goto, TypeOK
    <2>4. TypeOK'
      BY <1>1, <1>2, <2>1, <2>2 DEF Goto, TypeOK
    <2>5. Sound(log, queue, cursors)
      BY <1>2, <2>1 DEF ProcFits
    <2>6. DiskFits' /\ JournalFits' /\ Tables'
      BY <1>1, <2>2, <2>5 DEF Inductive, DiskFits, JournalFits, Tables
    <2>7. ProcFits(p)'
      BY <1>3, <2>2, <2>3 DEF ProcFits, Redoing
    <2> HIDE DEF label
    <2> QED BY <1>1, <2>1, <2>4, <2>6, <2>7, OwnerStep
  <1> QED BY <1>4, <1>5, <1>6, <1>7, <1>8, <1>9 DEF Recovery

\* Discovery loads the cursors; nothing is parsed yet.
LEMMA DiscoverPreserves ==
    ASSUME Inductive, NEW p \in Proc, NEW found \in SUBSET Present,
           Discover(p, found)
    PROVE  Inductive'
  <1> DEFINE m == [NoMem EXCEPT !.loaded = cursors, !.cur = cursors,
                                !.found = found, !.todo = found]
  <1>1. /\ pc[p] = "discover" /\ Goto(p, "scan") /\ mem' = [mem EXCEPT ![p] = m]
        /\ UNCHANGED <<log, cursors, queue, qstate, journal, server, late,
                       stateLock, faults>>
    BY DEF Discover, SyncStep, disk, cloud, Set
  <1>2. ProcFits(p) /\ TypeOK
    BY DEF Inductive
  <1>3. found \subseteq File /\ cursors \in CursorFile
    BY <1>2 DEF Present, TypeOK
  <1>4. /\ m \in Mem /\ m.loaded = cursors /\ m.cur = cursors
        /\ m.todo = found /\ m.seen = {}
    BY <1>3, Defaults DEF Mem, NoMem
  <1> HIDE DEF m
  <1>5. mem'[p] = m /\ pc'[p] = "scan" /\ "scan" \in PC
    BY <1>1, <1>2 DEF TypeOK, Goto, PC
  <1>6. TypeOK'
    BY <1>1, <1>2, <1>4, <1>5 DEF TypeOK, Goto
  <1>7. journal = Null
    BY <1>1, <1>2 DEF ProcFits, Redoing
  <1>8. CursorsFit(log, cursors) /\ Sound(log, queue, cursors)
    BY <1>7 DEF Inductive, DiskFits
  <1>9. Agree(log, PlannedQueue(m), cursors)
    <2>1. \A e \in Event : PlannedQueue(m)[e] = IF IsEmpty(cursors) THEN 0 ELSE queue[e]
      BY <1>2, <1>4 DEF PlannedQueue, TypeOK, Counts
    <2>2. \A f \in File, i \in 1..MaxLen : <<f, i>> \in Event
      BY DEF Event
    <2>3. CASE IsEmpty(cursors)
      <3>1. \A f \in File, i \in 1..MaxLen : PlannedQueue(m)[<<f, i>>] = 0
        BY <2>1, <2>2, <2>3
      <3>2. \A f \in File : cursors.file[f] = Null
        BY <2>3 DEF IsEmpty
      <3>3. SUFFICES ASSUME NEW f \in File, NEW i \in 1..MaxLen
                     PROVE  /\ PlannedQueue(m)[<<f, i>>] <= 1
                            /\ PlannedQueue(m)[<<f, i>>] = 0
                            /\ cursors.file[f] = Null
        BY <3>2 DEF Agree
      <3> QED BY <3>1, <3>2
    <2>4. CASE ~IsEmpty(cursors)
      <3>1. \A f \in File, i \in 1..MaxLen :
               PlannedQueue(m)[<<f, i>>] = queue[<<f, i>>]
        BY <2>1, <2>2, <2>4
      <3> QED BY <1>8, <2>4, <3>1 DEF Agree, Sound
    <2> QED BY <2>3, <2>4
  <1>10. ScanFits(m)
    BY <1>4, <1>8, <1>9 DEF ScanFits
  <1>11. ProcFits(p)'
    BY <1>1, <1>5, <1>7, <1>10 DEF ProcFits, Redoing, ScanFits, PlannedQueue
  <1> QED BY <1>1, <1>5, <1>6, <1>11, SameFiles, OwnerStep

\* Scanning a file, or failing to.
LEMMA ScanPreserves ==
    ASSUME Inductive, NEW p \in Proc, NEW f \in File,
           ScanFile(p, f) \/ ScanFailed(p, f)
    PROVE  Inductive'
  <1> USE ConstantsAssumption
  <1> DEFINE m == mem[p]
  <1>1. /\ pc[p] = "scan" /\ f \in m.todo
        /\ UNCHANGED <<log, cursors, queue, qstate, journal, server, late,
                       stateLock, faults, pc>>
    BY DEF ScanFile, ScanFailed, SyncStep, disk, cloud
  <1>2. ProcFits(p) /\ TypeOK /\ LogFits(log) /\ m \in Mem
    BY DEF Inductive, TypeOK, DiskFits
  <1>3. ScanFits(m) /\ journal = Null
    BY <1>1, <1>2 DEF ProcFits, Redoing
  <1>4. PICK r \in Mem : mem' = [mem EXCEPT ![p] = r] /\ ScanFits(r)
    <2>1. CASE ScanFile(p, f)
      <3> DEFINE k == [ino |-> log[f].ino, to |-> log[f].size]
                 c == Advanced(m.cur, f)
                 r == [m EXCEPT !.todo = m.todo \ {f},
                                !.seen = m.seen \cup NewEvents(m.loaded, f),
                                !.cur = c]
      <3>1. k \in Cursor
        <4>1. log[f].ino \in 0..MaxIno /\ log[f].ino > 0 /\ log[f].size \in 0..MaxLen
          BY <1>2, <2>1 DEF ScanFile, LogFits, TypeOK, Log
        <4> QED BY <4>1 DEF Cursor
      <3>2. m.cur \in CursorFile /\ m.loaded \in CursorFile
        BY <1>2 DEF Mem
      <3>3. c \in CursorFile
        BY <3>1, <3>2 DEF CursorFile, Advanced
      <3>4. NewEvents(m.loaded, f) \subseteq Event
        BY <1>2, <3>2, NewEventsType
      <3>5. /\ r \in Mem /\ r.loaded = m.loaded /\ r.todo = m.todo \ {f}
            /\ r.seen = m.seen \cup NewEvents(m.loaded, f) /\ r.cur = c
        <4> HIDE DEF c
        <4> QED BY <1>2, <3>3, <3>4 DEF Mem
      <3>6. mem' = [mem EXCEPT ![p] = r]
        BY <2>1 DEF ScanFile, Set
      <3>7. ScanFits(r)
        <4> HIDE DEF r
        <4> QED BY <1>1, <1>2, <1>3, <2>1, <3>5, ScanFits1 DEF ScanFile, Advanced
      <3> HIDE DEF r
      <3> r \in Mem
        BY <3>5
      <3> WITNESS r \in Mem
      <3> QED BY <3>6, <3>7
    <2>2. CASE ScanFailed(p, f)
      <3> DEFINE r == [m EXCEPT !.todo = m.todo \ {f}]
      <3>1. /\ r \in Mem /\ r.loaded = m.loaded /\ r.cur = m.cur
            /\ r.todo = m.todo \ {f} /\ r.seen = m.seen
        BY <1>2 DEF Mem
      <3>2. mem' = [mem EXCEPT ![p] = r]
        BY <2>2 DEF ScanFailed, Set
      <3> HIDE DEF r
      <3>3. PlannedQueue(r) = PlannedQueue(m)
        BY <3>1 DEF PlannedQueue
      <3>4. ScanFits(r)
        BY <1>3, <3>1, <3>3 DEF ScanFits
      <3> r \in Mem
        BY <3>1
      <3> WITNESS r \in Mem
      <3> QED BY <3>2, <3>4
    <2> QED BY <2>1, <2>2
  <1>5. mem'[p] = r /\ pc'[p] = "scan" /\ TypeOK'
    BY <1>1, <1>2, <1>4 DEF TypeOK
  <1>6. ProcFits(p)'
    BY <1>1, <1>3, <1>4, <1>5 DEF ProcFits, Redoing, ScanFits, PlannedQueue
  <1>7. Goto(p, "scan") /\ "scan" \in PC
    BY <1>1, <1>2 DEF Goto, TypeOK, PC
  <1> QED BY <1>1, <1>5, <1>6, <1>7, SameFiles, OwnerStep

\* A replay found: the scan is given up and the cursors are wiped.
LEMMA ReplayPreserves ==
    ASSUME Inductive, NEW p \in Proc,
           Wipe(p) \/ \E f \in File : DetectReplay(p, f)
    PROVE  Inductive'
  <1>1. ProcFits(p) /\ TypeOK
    BY DEF Inductive
  <1>2. ASSUME NEW f \in File, DetectReplay(p, f) PROVE Inductive'
    <2>1. /\ pc[p] = "scan" /\ Goto(p, "wipe") /\ mem' = [mem EXCEPT ![p] = NoMem]
          /\ UNCHANGED <<log, cursors, queue, qstate, journal, server, late,
                         stateLock, faults>>
      BY <1>2 DEF DetectReplay, SyncStep, Set, disk, cloud
    <2>2. pc'[p] = "wipe" /\ "wipe" \in PC
      BY <1>1, <2>1 DEF Goto, TypeOK, PC
    <2>3. TypeOK'
      BY <1>1, <2>1, <2>2, Defaults DEF TypeOK, Goto
    <2>4. ProcFits(p)'
      BY <1>1, <2>1, <2>2 DEF ProcFits, Redoing
    <2> QED BY <2>1, <2>2, <2>3, <2>4, SameFiles, OwnerStep
  <1>3. CASE Wipe(p)
    <2>1. /\ pc[p] = "wipe" /\ Goto(p, "discover") /\ cursors' = NoCursors
          /\ UNCHANGED <<log, queue, qstate, journal, server, late, stateLock,
                         mem, faults>>
      BY <1>3 DEF Wipe, SyncStep, cloud
    <2>2. pc'[p] = "discover" /\ "discover" \in PC
      BY <1>1, <2>1 DEF Goto, TypeOK, PC
    <2>3. TypeOK'
      BY <1>1, <2>1, <2>2, Defaults DEF TypeOK, Goto
    <2>4. ProcFits(p)'
      BY <1>1, <2>1, <2>2 DEF ProcFits, Redoing
    <2>5. DiskFits' /\ JournalFits' /\ Tables'
      BY <2>1 DEF Inductive, DiskFits, JournalFits, Tables, NoCursors, CursorsFit,
                  Sound, IsEmpty
    <2> QED BY <2>1, <2>2, <2>3, <2>4, <2>5, OwnerStep
  <1> QED BY <1>2, <1>3

\* The commit a finished scan plans counts each event once.
LEMMA PlannedFits ==
    ASSUME Inductive, NEW m \in Mem, ScanFits(m)
    PROVE  LET c == Planned(m)
           IN  /\ CursorsFit(log, c.cursors)
               /\ c.records = Null => Sound(log, queue, c.cursors)
               /\ c.records # Null => /\ Single(c.records)
                                      /\ Sound(log, c.records, c.cursors)
  <1> DEFINE c == Planned(m)
             q == PlannedQueue(m)
             d == Pruned(m.cur, m.found)
  <1>1. /\ TypeOK /\ LogFits(log) /\ log \in [File -> Log] /\ queue \in Counts
        /\ m.cur \in CursorFile /\ m.found \in SUBSET File
    BY DEF Inductive, TypeOK, DiskFits, Mem
  <1>2. q \in Counts
    BY <1>1, PlannedQueueType
  <1>3. CursorsFit(log, d) /\ Agree(log, q, d)
    BY <1>1, <1>2, PrunedAgrees DEF ScanFits
  <1>4. Single(q)
    BY <1>3 DEF Agree, Single, Event
  <1>5. /\ c.cursors = d
        /\ c.records = IF IsEmpty(m.loaded) \/ m.seen # {} THEN q ELSE Null
    BY DEF Planned
  <1>6. c.records = Null => q = queue
    <2>1. q # Null
      BY <1>2, ConstantsAssumption
    <2>2. SUFFICES ASSUME ~IsEmpty(m.loaded), m.seen = {} PROVE q = queue
      BY <1>5, <2>1
    <2>3. q = [e \in Event |-> queue[e]]
      BY <1>1, <2>2 DEF PlannedQueue, Counts
    <2> QED BY <1>1, <2>3 DEF Counts
  <1>7. c.records # Null => c.records = q
    BY <1>5
  <1> HIDE DEF c, q, d
  <1> QED BY <1>3, <1>4, <1>5, <1>6, <1>7 DEF Sound, c

\* Renaming the journal into place.
LEMMA CommitPreserves ==
    ASSUME Inductive, NEW p \in Proc, WriteJournal(p) PROVE Inductive'
  <1>1. ProcFits(p) /\ TypeOK /\ mem[p] \in Mem
    BY DEF Inductive, TypeOK
  <1>2. /\ pc[p] = "scan" /\ Goto(p, "recover") /\ journal' = Planned(mem[p])
        /\ mem' = [mem EXCEPT ![p] = [NoMem EXCEPT !.committed = TRUE]]
        /\ UNCHANGED <<log, cursors, queue, qstate, server, late, stateLock, faults>>
    BY DEF WriteJournal, SyncStep, Set, cloud
  <1>3. journal' \in Commit
    BY <1>1, <1>2, PlannedType
  <1>4. [NoMem EXCEPT !.committed = TRUE] \in Mem
    BY Defaults DEF Mem
  <1>5. pc'[p] = "recover" /\ "recover" \in PC
    BY <1>1, <1>2 DEF Goto, TypeOK, PC
  <1>6. TypeOK'
    BY <1>1, <1>2, <1>3, <1>4, <1>5 DEF TypeOK, Goto
  <1>7. ScanFits(mem[p]) /\ journal = Null
    BY <1>1, <1>2 DEF ProcFits, Redoing
  <1>8. journal' # Null
    BY <1>3, ConstantsAssumption
  <1>9. JournalFits'
    <2> DEFINE c == Planned(mem[p])
    <2>1. /\ CursorsFit(log, c.cursors)
          /\ c.records = Null => Sound(log, queue, c.cursors)
          /\ c.records # Null => /\ Single(c.records)
                                 /\ Sound(log, c.records, c.cursors)
      BY <1>1, <1>7, PlannedFits
    <2> HIDE DEF c
    <2>2. journal' = c
      BY <1>2 DEF c
    <2> QED BY <1>2, <2>1, <2>2 DEF JournalFits
  <1>10. DiskFits' /\ Tables'
    BY <1>2, <1>8 DEF Inductive, DiskFits, Tables
  <1>11. ProcFits(p)'
    BY <1>5 DEF ProcFits, Redoing
  <1> QED BY <1>2, <1>5, <1>6, <1>9, <1>10, <1>11, OwnerStep

\* Overwriting rows inflates nothing.
LEMMA OverwriteSingle ==
    ASSUME NEW t \in Counts, NEW r \in [keys : SUBSET Key, rows : Counts],
           Single(t), Single(r.rows)
    PROVE  Overwrite(t, r) \in Counts /\ Single(Overwrite(t, r))
  BY OverwriteType DEF Overwrite, Single

\* A request carries a table of rows of some keys.
LEMMA RequestType ==
    ASSUME NEW m \in Mem, NEW b \in Batches(m)
    PROVE  /\ Request(m, b) \in [keys : SUBSET Key, rows : Counts]
           /\ Request(m, b).rows = m.rows
  BY BatchesType DEF Request, Mem

\* The engine's steps: reading the queue, sending, saving the upload state.
LEMMA UploadPreserves ==
    ASSUME Inductive, NEW p \in Proc, Upload(p) PROVE Inductive'
  <1> USE ConstantsAssumption
  <1> DEFINE m == mem[p]
  <1>1. ProcFits(p) /\ TypeOK /\ m \in Mem /\ Tables
    BY DEF Inductive, TypeOK
  <1>2. PC = PC \cup {"send", "rewind", "clearDirty", "release", "saveOffset"}
    BY DEF PC
  <1>3. CASE LoadUpload(p)
    <2>1. pc[p] = "load" /\ UNCHANGED <<log, cursors, queue, qstate, journal,
                                        server, late, stateLock, faults>>
      BY <1>3 DEF LoadUpload, disk, cloud
    <2>2. journal = Null
      BY <1>1, <2>1 DEF ProcFits, Redoing
    <2>3. CASE ToSend # {}
      <3> DEFINE r == [m EXCEPT !.legacy = qstate.dirty = Null, !.send = ToSend,
                                !.rows = queue]
      <3>1. Goto(p, "send") /\ mem' = [mem EXCEPT ![p] = r]
        BY <1>3, <2>3 DEF LoadUpload, Set
      <3>2. r \in Mem /\ r.rows = queue
        BY <1>1, ToSendType DEF TypeOK, Mem
      <3> HIDE DEF r
      <3>3. pc'[p] = "send" /\ mem'[p] = r
        BY <1>1, <3>1 DEF Goto, TypeOK
      <3>4. TypeOK'
        BY <1>1, <1>2, <2>1, <3>1, <3>2 DEF TypeOK, Goto
      <3>5. ProcFits(p)'
        BY <1>1, <2>1, <2>2, <3>2, <3>3 DEF ProcFits, Redoing, Tables
      <3> QED BY <1>2, <2>1, <3>1, <3>4, <3>5, SameFiles, OwnerStep
    <2>4. CASE ToSend = {}
      <3>1. PICK label \in {"rewind", "clearDirty", "release"} : Goto(p, label)
        BY <1>3, <2>4 DEF LoadUpload
      <3>2. mem' = mem
        BY <1>3, <2>4 DEF LoadUpload
      <3>3. pc'[p] = label
        BY <1>1, <3>1 DEF Goto, TypeOK
      <3>4. TypeOK'
        BY <1>1, <1>2, <2>1, <3>1, <3>2 DEF TypeOK, Goto
      <3>5. ProcFits(p)'
        BY <2>1, <2>2, <3>3 DEF ProcFits, Redoing
      <3> QED BY <1>2, <2>1, <3>1, <3>4, <3>5, SameFiles, OwnerStep
    <2> QED BY <2>3, <2>4
  <1>4. CASE RewindOffset(p) \/ SaveOffset(p) \/ ClearDirty(p)
    <2>1. /\ pc[p] \in {"rewind", "saveOffset", "clearDirty"}
          /\ UNCHANGED <<log, cursors, queue, journal, server, late, stateLock,
                         mem, faults>>
      BY <1>4 DEF RewindOffset, SaveOffset, ClearDirty, cloud
    <2>2. qstate' \in QState
      BY <1>1, <1>4 DEF RewindOffset, SaveOffset, ClearDirty, TypeOK, QState
    <2>3. PICK label \in {"release", "clearDirty"} : Goto(p, label)
      BY <1>4 DEF RewindOffset, SaveOffset, ClearDirty
    <2>4. pc'[p] = label
      BY <1>1, <2>3 DEF Goto, TypeOK
    <2>5. TypeOK'
      BY <1>1, <1>2, <2>1, <2>2, <2>3 DEF TypeOK, Goto
    <2>6. ProcFits(p)'
      BY <1>1, <2>1, <2>4 DEF ProcFits, Redoing
    <2> QED BY <1>2, <2>1, <2>3, <2>5, <2>6, SameFiles, OwnerStep
  <1>5. ASSUME SendOk(p) \/ SendFailed(p) \/ SendRefused(p) PROVE Inductive'
    <2>1. /\ pc[p] = "send"
          /\ UNCHANGED <<log, cursors, queue, qstate, journal, stateLock, faults>>
      BY <1>5 DEF SendOk, SendFailed, SendRefused, disk
    <2>2. journal = Null /\ Single(m.rows)
      BY <1>1, <2>1 DEF ProcFits, Redoing
    <2>3. /\ server' \in Counts /\ Single(server')
          /\ late' \subseteq [keys : SUBSET Key, rows : Counts]
          /\ \A r \in late' : Single(r.rows)
      <3>1. CASE UNCHANGED <<server, late>>
        BY <1>1, <3>1 DEF TypeOK, Tables
      <3>2. ASSUME NEW b \in Batches(m), server' = Overwrite(server, Request(m, b)),
                   UNCHANGED late
            PROVE  <2>3
        BY <1>1, <2>2, <3>2, RequestType, OverwriteSingle DEF TypeOK, Tables
      <3>3. ASSUME NEW b \in Batches(m), late' = late \cup {Request(m, b)},
                   UNCHANGED server
            PROVE  <2>3
        BY <1>1, <2>2, <3>3, RequestType DEF TypeOK, Tables
      <3> QED BY <1>5, <3>1, <3>2, <3>3 DEF SendOk, SendFailed, SendRefused, cloud
    <2>4. PICK label \in {"saveOffset", "send", "release"} :
             Goto(p, label) \/ (label = "send" /\ UNCHANGED pc)
      BY <1>5 DEF SendOk, SendFailed, SendRefused
    <2>5. Goto(p, label)
      BY <1>1, <2>1, <2>4 DEF Goto, TypeOK
    <2>6. PICK r \in Mem : mem' = [mem EXCEPT ![p] = r] /\ r.rows = m.rows
      <3>1. CASE SendOk(p)
        <4>1. PICK b \in Batches(m) :
                 mem' = [mem EXCEPT ![p] = [m EXCEPT !.send = @ \ b, !.batch = {},
                                                     !.attempt = 0]]
          BY <3>1 DEF SendOk, Set
        <4> DEFINE r == [m EXCEPT !.send = m.send \ b, !.batch = {}, !.attempt = 0]
        <4>2. mem' = [mem EXCEPT ![p] = r]
          BY <4>1
        <4>3. m.send \ b \subseteq Key /\ 0 \in 0..MaxRetries /\ {} \subseteq Key
          BY <1>1 DEF Mem
        <4>4. r \in Mem /\ r.rows = m.rows
          BY <1>1, <4>3 DEF Mem
        <4> HIDE DEF r
        <4> QED BY <4>2, <4>4
      <3>2. CASE SendFailed(p)
        <4>1. PICK b \in Batches(m) :
                 \/ /\ m.attempt < MaxRetries
                    /\ mem' = [mem EXCEPT ![p] =
                                 [m EXCEPT !.batch = b, !.attempt = @ + 1]]
                 \/ mem' = mem
          BY <3>2 DEF SendFailed, Set
        <4>2. CASE mem' = mem
          <5>1. mem' = [mem EXCEPT ![p] = m]
            BY <1>1, <4>2 DEF TypeOK
          <5> QED BY <1>1, <5>1
        <4>3. CASE mem' # mem
          <5> DEFINE r == [m EXCEPT !.batch = b, !.attempt = m.attempt + 1]
          <5>1. mem' = [mem EXCEPT ![p] = r] /\ m.attempt < MaxRetries
            BY <4>1, <4>3
          <5>2. m.attempt \in 0..MaxRetries
            BY <1>1 DEF Mem
          <5>3. m.attempt + 1 \in 0..MaxRetries
            BY <5>1, <5>2
          <5>4. r \in Mem /\ r.rows = m.rows
            BY <1>1, <5>3, BatchesType DEF Mem
          <5> HIDE DEF r
          <5> QED BY <5>1, <5>4
        <4> QED BY <4>2, <4>3
      <3>3. CASE SendRefused(p)
        <4>1. mem' = [mem EXCEPT ![p] = m]
          BY <1>1, <3>3 DEF SendRefused, TypeOK
        <4> QED BY <1>1, <4>1
      <3> QED BY <1>5, <3>1, <3>2, <3>3
    <2>7. pc'[p] = label /\ mem'[p] = r
      BY <1>1, <2>5, <2>6 DEF Goto, TypeOK
    <2>8. TypeOK'
      BY <1>1, <1>2, <2>1, <2>3, <2>5, <2>6 DEF TypeOK, Goto
    <2>9. ProcFits(p)'
      BY <2>1, <2>2, <2>6, <2>7 DEF ProcFits, Redoing
    <2>10. DiskFits' /\ JournalFits' /\ Tables'
      BY <2>1, <2>3 DEF Inductive, DiskFits, JournalFits, Tables
    <2> QED BY <1>2, <2>1, <2>5, <2>8, <2>9, <2>10, OwnerStep
  <1> QED BY <1>3, <1>4, <1>5 DEF Upload

\* A late request overwrites rows with rows that count each event once.
LEMMA LatePreserves == ASSUME Inductive, ApplyLate PROVE Inductive'
  <1>1. PICK r \in late : server' = Overwrite(server, r) /\ late' = late \ {r}
    BY DEF ApplyLate
  <1>2. UNCHANGED <<log, cursors, queue, qstate, journal, stateLock, pc, mem, faults>>
    BY DEF ApplyLate, disk
  <1>3. TypeOK /\ Tables
    BY DEF Inductive
  <1>4. server' \in Counts /\ Single(server')
    BY <1>1, <1>3, OverwriteSingle DEF TypeOK, Tables
  <1>5. TypeOK' /\ Tables'
    BY <1>1, <1>2, <1>3, <1>4 DEF TypeOK, Tables
  <1>6. ASSUME NEW p \in Proc PROVE ProcFits(p)'
    BY <1>2 DEF Inductive, ProcFits, Redoing, ScanFits, PlannedQueue
  <1>7. Owner' /\ DiskFits' /\ JournalFits'
    BY <1>2 DEF Inductive, Owner, DiskFits, JournalFits
  <1> QED BY <1>5, <1>6, <1>7 DEF Inductive

\* The empty cursor file fits any log and any queue: the next sync is a full scan.
LEMMA NoCursorsFit ==
    ASSUME NEW l, NEW q PROVE CursorsFit(l, NoCursors) /\ Sound(l, q, NoCursors)
  BY DEF CursorsFit, Sound, IsEmpty, NoCursors

\* Reset deletes the cursors before the queue.
LEMMA ResetPreserves ==
    ASSUME Inductive, NEW p \in Proc, Reset(p) PROVE Inductive'
  <1>1. ProcFits(p) /\ TypeOK
    BY DEF Inductive
  <1>2. UNCHANGED <<log, journal, server, late, stateLock, mem, faults>>
    BY DEF Reset, ResetCursors, ResetQueue, ResetQState, SyncStep, cloud
  <1>3. CASE ResetCursors(p)
    <2>1. /\ pc[p] = "xCursors" /\ Goto(p, "xQueue") /\ cursors' = NoCursors
          /\ UNCHANGED <<queue, qstate>>
      BY <1>3 DEF ResetCursors
    <2>2. pc'[p] = "xQueue" /\ "xQueue" \in PC
      BY <1>1, <2>1 DEF Goto, TypeOK, PC
    <2>3. TypeOK'
      BY <1>1, <1>2, <2>1, <2>2, Defaults DEF TypeOK, Goto
    <2>4. DiskFits' /\ JournalFits' /\ Tables'
      BY <1>2, <2>1, NoCursorsFit DEF Inductive, DiskFits, JournalFits, Tables
    <2>5. ProcFits(p)'
      BY <1>1, <1>2, <2>1, <2>2 DEF ProcFits, Redoing, IsEmpty, NoCursors
    <2> QED BY <1>2, <2>1, <2>2, <2>3, <2>4, <2>5, OwnerStep
  <1>4. CASE ResetQueue(p)
    <2>1. /\ pc[p] = "xQueue" /\ Goto(p, "xState") /\ queue' = Nothing
          /\ UNCHANGED <<cursors, qstate>>
      BY <1>4 DEF ResetQueue
    <2>2. pc'[p] = "xState" /\ "xState" \in PC
      BY <1>1, <2>1 DEF Goto, TypeOK, PC
    <2>3. TypeOK'
      BY <1>1, <1>2, <2>1, <2>2, Defaults DEF TypeOK, Goto
    <2>4. journal = Null /\ IsEmpty(cursors)
      BY <1>1, <2>1 DEF ProcFits, Redoing
    <2>5. Single(queue')
      BY <2>1 DEF Single, Nothing
    <2>6. DiskFits' /\ JournalFits' /\ Tables'
      BY <1>2, <2>1, <2>4, <2>5
         DEF Inductive, DiskFits, JournalFits, Tables, Sound, IsEmpty
    <2>7. ProcFits(p)'
      BY <1>2, <2>1, <2>2, <2>4 DEF ProcFits, Redoing, IsEmpty
    <2> QED BY <1>2, <2>1, <2>2, <2>3, <2>6, <2>7, OwnerStep
  <1>5. CASE ResetQState(p)
    <2>1. /\ pc[p] = "xState" /\ Goto(p, "release") /\ qstate' = NoQState
          /\ UNCHANGED <<cursors, queue>>
      BY <1>5 DEF ResetQState
    <2>2. pc'[p] = "release" /\ "release" \in PC
      BY <1>1, <2>1 DEF Goto, TypeOK, PC
    <2>3. TypeOK'
      BY <1>1, <1>2, <2>1, <2>2, Defaults DEF TypeOK, Goto
    <2>4. ProcFits(p)'
      BY <1>1, <1>2, <2>1, <2>2 DEF ProcFits, Redoing
    <2> QED BY <1>2, <2>1, <2>2, <2>3, <2>4, SameFiles, OwnerStep
  <1> QED BY <1>3, <1>4, <1>5 DEF Reset

\* A killed process or a failed write leaves the queue whole and, at worst,
\* no cursors: the journal and the full scan make up for them.
LEMMA InterruptPreserves ==
    ASSUME Inductive, NEW p \in Proc, Interrupt(p) PROVE Inductive'
  <1>1. TypeOK
    BY DEF Inductive
  <1>2. /\ pc[p] # "idle" /\ Goto(p, "idle") /\ mem' = [mem EXCEPT ![p] = NoMem]
        /\ faults < MaxFaults /\ faults' = faults + 1
        /\ stateLock' \in {Orphan, Null}
        /\ cursors' \in {cursors, NoCursors} /\ qstate' \in {qstate, NoQState}
        /\ UNCHANGED <<log, queue, journal, server, late>>
    BY DEF Interrupt, Set, cloud
  <1>3. faults' \in 0..MaxFaults
    BY <1>1, <1>2, ConstantsAssumption DEF TypeOK
  <1>4. cursors' \in CursorFile /\ qstate' \in QState /\ "idle" \in PC
    BY <1>1, <1>2, Defaults DEF TypeOK, PC
  <1>5. pc' \in [Proc -> PC] /\ mem' \in [Proc -> Mem]
    BY <1>1, <1>2, <1>4, Defaults DEF TypeOK, Goto
  <1>6. TypeOK'
    BY <1>1, <1>2, <1>3, <1>4, <1>5 DEF TypeOK
  <1>7. DiskFits' /\ JournalFits' /\ Tables'
    BY <1>2, NoCursorsFit DEF Inductive, DiskFits, JournalFits, Tables
  <1> QED BY <1>2, <1>6, <1>7, StopStep

\* Losing the entry of a known file makes none of its events parseable again.
LEMMA LosePreserves ==
    ASSUME Inductive, NEW f \in File, LoseCursor(f) PROVE Inductive'
  <1> USE ConstantsAssumption
  <1> DEFINE d == [cursors EXCEPT !.file[f] = Null]
  <1>1. /\ cursors.file[f] # Null /\ faults < MaxFaults /\ faults' = faults + 1
        /\ cursors' = d
        /\ UNCHANGED <<log, queue, qstate, journal, server, late, stateLock, pc, mem>>
    BY DEF LoseCursor, cloud
  <1>2. TypeOK /\ cursors \in CursorFile /\ CursorsFit(log, cursors)
    BY DEF Inductive, TypeOK, DiskFits
  <1>3. /\ d \in CursorFile /\ d.known = cursors.known
        /\ d.file = [cursors.file EXCEPT ![f] = Null]
    BY <1>2 DEF CursorFile
  <1>4. cursors.file \in [File -> {Null} \cup Cursor]
    BY <1>2 DEF CursorFile
  <1>5. ASSUME Sound(log, queue, cursors) PROVE Sound(log, queue, d)
    BY <1>1, <1>2, <1>5, LoseAgrees DEF CursorsFit
  <1>6. ASSUME IsEmpty(cursors) PROVE IsEmpty(d)
    BY <1>3, <1>4, <1>6 DEF IsEmpty
  <1>7. CursorsFit(log, d)
    BY <1>2, <1>3, <1>4 DEF CursorsFit
  <1> HIDE DEF d
  <1>8. TypeOK'
    <2>1. faults' \in 0..MaxFaults
      BY <1>1, <1>2 DEF TypeOK
    <2> QED BY <1>1, <1>2, <1>3, <2>1 DEF TypeOK
  <1>9. Owner' /\ DiskFits' /\ JournalFits' /\ Tables'
    BY <1>1, <1>5, <1>7 DEF Inductive, Owner, DiskFits, JournalFits, Tables
  <1>10. ASSUME NEW p \in Proc PROVE ProcFits(p)'
    <2>1. ProcFits(p)
      BY DEF Inductive
    <2> QED BY <1>1, <1>5, <1>6, <2>1 DEF ProcFits, Redoing, ScanFits, PlannedQueue
  <1> QED BY <1>8, <1>9, <1>10 DEF Inductive

-----------------------------------------------------------------------------
(* The theorems. *)

\* The initial state, with no log and no file in the state directory.
LEMMA InitInductive == Init => Inductive
  <1> SUFFICES ASSUME Init PROVE Inductive
    OBVIOUS
  <1> USE ConstantsAssumption DEF Init
  <1>1. log \in [File -> Log]
    BY DEF Log
  <1>2. TypeOK
    BY <1>1, Defaults DEF TypeOK, PC
  <1>3. DiskFits /\ JournalFits
    BY NoCursorsFit DEF DiskFits, JournalFits, LogFits
  <1>4. Tables
    BY DEF Tables, Single, Nothing
  <1>5. Owner /\ \A p \in Proc : ProcFits(p)
    BY DEF Owner, ProcFits, Redoing
  <1> QED BY <1>2, <1>3, <1>4, <1>5 DEF Inductive

\* Every step of the pipeline and of its environment preserves Inductive.
LEMMA NextInductive == Inductive /\ [Next]_vars => Inductive'
  <1> SUFFICES ASSUME Inductive, [Next]_vars PROVE Inductive'
    OBVIOUS
  <1>1. CASE Tool
    BY <1>1, ToolPreserves
  <1>2. CASE ApplyLate
    BY <1>2, LatePreserves
  <1>3. CASE RemoveOrphan
    BY <1>3, LockPreserves
  <1>4. ASSUME NEW f \in File, LoseCursor(f) PROVE Inductive'
    BY <1>4, LosePreserves
  <1>5. ASSUME NEW p \in Proc, Command(p) PROVE Inductive'
    <2>1. CASE Release(p) \/ \E op \in {"sync", "upload", "reset"} : Start(p, op)
      BY <2>1, LockPreserves
    <2>2. CASE Recovery(p)
      BY <2>2, RecoveryPreserves
    <2>3. CASE Sync(p)
      BY <2>3, DiscoverPreserves, ScanPreserves, ReplayPreserves, CommitPreserves
         DEF Sync
    <2>4. CASE Upload(p)
      BY <2>4, UploadPreserves
    <2>5. CASE Reset(p)
      BY <2>5, ResetPreserves
    <2>6. CASE Interrupt(p)
      BY <2>6, InterruptPreserves
    <2> QED BY <1>5, <2>1, <2>2, <2>3, <2>4, <2>5, <2>6 DEF Command
  <1>6. CASE UNCHANGED vars
    BY <1>6 DEF vars, disk, cloud, Inductive, TypeOK, Owner, DiskFits, JournalFits,
                Tables, ProcFits, Redoing, ScanFits, PlannedQueue
  <1> QED BY <1>1, <1>2, <1>3, <1>4, <1>5, <1>6 DEF Next

\* Inductive holds of every reachable state, whatever the number of
\* processes, files, events, retries and faults (recoverSyncCommit,
\* executeSyncInternal, createUploadEngine, resetLocked under withStateLock).
THEOREM InductiveInvariant == Spec => []Inductive
  BY InitInductive, NextInductive, PTL DEF Spec

\* The files, the server and the memory of each command keep their types; in
\* particular no command retries a request more than MaxRetries times.
THEOREM TypeCorrect == Spec => []TypeOK
  <1>1. Inductive => TypeOK
    BY DEF Inductive
  <1> QED BY <1>1, InductiveInvariant, PTL

\* Across crashes, torn writes, replays and resets, what the next command
\* finds after recovery counts every event behind a cursor exactly once and no
\* event a later scan will parse (the promise of the sync journal).
THEOREM NeverCountedTwice == Spec => []CountedOnce
  <1>1. ASSUME Inductive PROVE CountedOnce
    <2>1. CASE journal = Null
      BY <1>1, <2>1 DEF CountedOnce, Durable, Inductive, DiskFits, Sound
    <2>2. CASE journal # Null
      BY <1>1, <2>2 DEF CountedOnce, Durable, Inductive, JournalFits, Sound
    <2> QED BY <2>1, <2>2
  <1> QED BY <1>1, InductiveInvariant, PTL

\* However often requests are retried, duplicated by lost answers or applied
\* late, the server counts no event twice (the overwriting upserts).
THEOREM ServerNeverInflated == Spec => []NeverInflated
  <1>1. Inductive => NeverInflated
    <2> SUFFICES ASSUME Inductive PROVE NeverInflated
      OBVIOUS
    <2> QED BY DEF Inductive, Tables, Single, NeverInflated
  <1> QED BY <1>1, InductiveInvariant, PTL

-----------------------------------------------------------------------------
(* The refinement.  From here on no request that was given up is applied   *)
(* later (MaxLate = 0): a late answer may put an old row over a new one    *)
(* after its mark has gone.                                                *)

\* The marks that a queue, the dirty keys and an offset stand for.
MarksIn(q, d, o) ==
    IF d # Null THEN d \cap KeysOf(q) ELSE IF o = "start" THEN KeysOf(q) ELSE {}

\* The journal holds records that the recovery has still to write.
Redo == journal # Null /\ journal.records # Null

\* What the next command finds is read off the journal or off the files.
LEMMA DurableIs ==
    /\ Durable.queue = IF Redo THEN journal.records ELSE queue
    /\ Marked = IF Redo THEN MarksIn(journal.records, journal.dirty, "start")
                ELSE MarksIn(queue, qstate.dirty, qstate.offset)
  BY DEF Durable, Redo, Marked, MarksIn

\* The same of the next state.
LEMMA DurableIsNext ==
    /\ Durable.queue' = IF Redo' THEN journal'.records ELSE queue'
    /\ Marked' = IF Redo' THEN MarksIn(journal'.records, journal'.dirty, "start")
                 ELSE MarksIn(queue', qstate'.dirty, qstate'.offset)
  BY DEF Durable, Redo, Marked, MarksIn, KeysOf

\* Only keys of counted rows are marked, and the ledger's keys are the queue's.
LEMMA MarksAreKeys ==
    /\ Marked \subseteq KeysOf(Durable.queue)
    /\ \A q : Ledger!KeysIn(q) = KeysOf(q)
  <1>1. \A q, d, o : MarksIn(q, d, o) \subseteq KeysOf(q)
    BY DEF MarksIn
  <1> QED BY <1>1, DurableIs DEF Ledger!KeysIn, KeysOf

\* A step that leaves the queue, its state and the journal alone is no step
\* of the ledger.
LEMMA SameMarks ==
    ASSUME UNCHANGED <<queue, qstate, journal>>
    PROVE  Durable.queue' = Durable.queue /\ Marked' = Marked
  BY DurableIs, DurableIsNext DEF Redo

\* A step of the pipeline as it looks from the ledger.
LedgerStep == [Ledger!LedgerNext]_(Ledger!ledgerVars)

\* A step that changes neither counts, marks nor rows is a stutter.
LEMMA StutterStep ==
    ASSUME Durable.queue' = Durable.queue, Marked' = Marked, UNCHANGED server
    PROVE  LedgerStep
  BY DEF LedgerStep, Ledger!ledgerVars

\* Marks that only grow are the ledger's Remark.
LEMMA RemarkStep ==
    ASSUME Durable.queue' = Durable.queue, Marked \subseteq Marked', UNCHANGED server,
           Marked' \subseteq KeysOf(Durable.queue)
    PROVE  LedgerStep
  BY MarksAreKeys DEF LedgerStep, Ledger!LedgerNext, Ledger!Remark

\* Only the process that takes a step has anything to keep: the others are
\* idle (withStateLock).
LEMMA OthersFit ==
    ASSUME Inductive, NEW p \in Proc, pc[p] # "idle", NEW label, Goto(p, label),
           MarkFits(p)', late' = {}
    PROVE  MarksFit'
  <1>1. ASSUME NEW q \in Proc, q # p PROVE MarkFits(q)'
    <2>1. pc[q] = "idle"
      BY <1>1 DEF Inductive, Owner
    <2>2. pc'[q] = "idle"
      BY <1>1, <2>1 DEF Goto, Inductive, TypeOK
    <2> QED BY <2>2 DEF MarkFits, Redoing
  <1> QED BY <1>1 DEF MarksFit

\* A log grows, is replaced or is deleted; a lock is left behind and removed;
\* a command begins or ends; a cursor is lost: the marks stay as they are.
LEMMA QuietKeepsMarks ==
    ASSUME Inductive, MarksFit,
           \/ Tool \/ RemoveOrphan \/ UNCHANGED vars
           \/ \E f \in File : LoseCursor(f)
           \/ \E p \in Proc, op \in {"sync", "upload", "reset"} : Start(p, op)
           \/ \E p \in Proc : Release(p)
    PROVE  MarksFit' /\ LedgerStep
  <1>1. UNCHANGED <<queue, qstate, journal, server, late>>
    BY DEF Tool, Create, AppendTo, Replace, Delete, ToolStep, RemoveOrphan, vars,
           LoseCursor, Start, Release, disk, cloud
  <1>2. LedgerStep
    BY <1>1, SameMarks, StutterStep
  <1>3. ASSUME NEW q \in Proc PROVE MarkFits(q)'
    <2>1. MarkFits(q) /\ TypeOK
      BY DEF MarksFit, Inductive
    <2>2. CASE UNCHANGED <<pc, mem>>
      BY <1>1, <2>1, <2>2, SameMarks DEF MarkFits, Ledger!Equal
    <2>3. ASSUME NEW p \in Proc, NEW label \in {"recover", "idle"}, NEW m,
                 Goto(p, label), Set(p, m), m.batch = {}
          PROVE  MarkFits(q)'
      <3>1. CASE q = p
        BY <2>1, <2>3, <3>1 DEF Goto, Set, TypeOK, MarkFits, Redoing
      <3>2. CASE q # p
        <4>1. pc'[q] = pc[q] /\ mem'[q] = mem[q]
          BY <2>1, <2>3, <3>2 DEF Goto, Set, TypeOK
        <4> QED BY <1>1, <2>1, <4>1, SameMarks DEF MarkFits, Ledger!Equal
      <3> QED BY <3>1, <3>2
    <2>4. NoMem.batch = {} /\ \A op : [NoMem EXCEPT !.op = op].batch = {}
      BY DEF NoMem
    <2> QED BY <2>2, <2>3, <2>4 DEF Tool, Create, AppendTo, Replace, Delete, ToolStep,
                                    RemoveOrphan, vars, LoseCursor, Start, Release
  <1> QED BY <1>1, <1>2, <1>3 DEF MarksFit

\* Redoing the journal changes nothing of what it already stands for
\* (recoverSyncCommit): the counts took effect with its rename.
LEMMA RecoveryKeepsMarks ==
    ASSUME Inductive, MarksFit, NEW p \in Proc, Recovery(p)
    PROVE  MarksFit' /\ LedgerStep
  <1>1. MarkFits(p) /\ ProcFits(p) /\ TypeOK /\ late = {}
    BY DEF MarksFit, Inductive
  <1>2. UNCHANGED <<server, late, mem>>
    BY DEF Recovery, ReadJournal, RedoDirty, RedoQueue, RedoOffset, RedoCursors,
           DropJournal, RecoverStep, cloud
  <1>0. mem'[p].batch = {}
    BY <1>1, <1>2 DEF Recovery, ReadJournal, RedoDirty, RedoQueue, RedoOffset,
                      RedoCursors, DropJournal, RecoverStep, MarkFits, Redoing
  <1>3. CASE ReadJournal(p)
    <2> DEFINE label == IF journal = Null THEN AfterRecovery(mem[p])
                        ELSE IF journal.records = Null THEN "rCursors" ELSE "rDirty"
    <2>1. /\ pc[p] = "recover" /\ Goto(p, label)
          /\ UNCHANGED <<queue, qstate, journal>>
      BY <1>3 DEF ReadJournal, RecoverStep, disk
    <2>2. label \in {"load", "xCursors", "discover", "release", "rCursors", "rDirty"}
      BY DEF AfterRecovery
    <2>3. label = "rCursors" => journal.records = Null
      BY DEF AfterRecovery
    <2> HIDE DEF label
    <2>4. pc'[p] = label
      BY <1>1, <2>1 DEF Goto, TypeOK
    <2>5. MarkFits(p)'
      BY <1>0, <2>1, <2>2, <2>3, <2>4 DEF MarkFits, Redoing
    <2> QED BY <1>1, <1>2, <2>1, <2>5, OthersFit, SameMarks, StutterStep
  <1>4. CASE RedoDirty(p)
    <2>1. /\ pc[p] = "rDirty" /\ Goto(p, "rQueue")
          /\ qstate' = [qstate EXCEPT !.dirty = journal.dirty]
          /\ UNCHANGED <<queue, journal>>
      BY <1>4 DEF RedoDirty, RecoverStep
    <2>2. Redo /\ Redo' /\ qstate'.dirty = journal.dirty
      BY <1>1, <2>1 DEF ProcFits, Redoing, Redo, TypeOK, QState
    <2>3. pc'[p] = "rQueue"
      BY <1>1, <2>1 DEF Goto, TypeOK
    <2>4. MarkFits(p)'
      BY <1>0, <2>1, <2>2, <2>3 DEF MarkFits, Redoing
    <2>5. Durable.queue' = Durable.queue /\ Marked' = Marked
      BY <2>1, <2>2, DurableIs, DurableIsNext
    <2> QED BY <1>1, <1>2, <2>1, <2>4, <2>5, OthersFit, StutterStep
  <1>5. CASE RedoQueue(p)
    <2>1. /\ pc[p] = "rQueue" /\ Goto(p, "rOffset") /\ queue' = journal.records
          /\ UNCHANGED <<qstate, journal>>
      BY <1>5 DEF RedoQueue, RecoverStep
    <2>2. Redo /\ Redo' /\ qstate.dirty = journal.dirty
      BY <1>1, <2>1 DEF ProcFits, MarkFits, Redoing, Redo
    <2>3. pc'[p] = "rOffset"
      BY <1>1, <2>1 DEF Goto, TypeOK
    <2>4. MarkFits(p)'
      BY <1>0, <2>1, <2>2, <2>3 DEF MarkFits, Redoing
    <2>5. Durable.queue' = Durable.queue /\ Marked' = Marked
      BY <2>1, <2>2, DurableIs, DurableIsNext
    <2> QED BY <1>1, <1>2, <2>1, <2>4, <2>5, OthersFit, StutterStep
  <1>6. CASE RedoOffset(p)
    <2>1. /\ pc[p] = "rOffset" /\ Goto(p, "rCursors")
          /\ qstate' = [qstate EXCEPT !.offset = "start"]
          /\ UNCHANGED <<queue, journal>>
      BY <1>6 DEF RedoOffset, RecoverStep
    <2>2. /\ Redo /\ Redo' /\ qstate'.dirty = journal.dirty
          /\ qstate'.offset = "start"
      BY <1>1, <2>1 DEF ProcFits, MarkFits, Redoing, Redo, TypeOK, QState
    <2>3. pc'[p] = "rCursors"
      BY <1>1, <2>1 DEF Goto, TypeOK
    <2>4. MarkFits(p)'
      BY <1>0, <2>1, <2>2, <2>3 DEF MarkFits, Redoing
    <2>5. Durable.queue' = Durable.queue /\ Marked' = Marked
      BY <2>1, <2>2, DurableIs, DurableIsNext
    <2> QED BY <1>1, <1>2, <2>1, <2>4, <2>5, OthersFit, StutterStep
  <1>7. CASE RedoCursors(p)
    <2>1. /\ pc[p] = "rCursors" /\ Goto(p, "rUnlink")
          /\ UNCHANGED <<queue, qstate, journal>>
      BY <1>7 DEF RedoCursors, RecoverStep
    <2>2. pc'[p] = "rUnlink"
      BY <1>1, <2>1 DEF Goto, TypeOK
    <2>3. MarkFits(p)'
      BY <1>0, <1>1, <2>1, <2>2 DEF MarkFits, Redoing
    <2> QED BY <1>1, <1>2, <2>1, <2>3, OthersFit, SameMarks, StutterStep
  <1>8. CASE DropJournal(p)
    <2>1. /\ pc[p] = "rUnlink" /\ Goto(p, AfterRecovery(mem[p])) /\ journal' = Null
          /\ UNCHANGED <<queue, qstate>>
      BY <1>8 DEF DropJournal, RecoverStep
    <2>2. AfterRecovery(mem[p]) \in {"load", "xCursors", "discover", "release"}
      BY DEF AfterRecovery
    <2>3. pc'[p] \in {"load", "xCursors", "discover", "release"}
      BY <1>1, <2>1, <2>2 DEF Goto, TypeOK
    <2>4. MarkFits(p)'
      BY <1>0, <2>3 DEF MarkFits, Redoing
    <2>5. /\ ~Redo'
          /\ Redo => /\ queue = journal.records /\ qstate.dirty = journal.dirty
                     /\ qstate.offset = "start"
      BY <1>1, <2>1 DEF ProcFits, MarkFits, Redoing, Redo
    <2>6. Durable.queue' = Durable.queue /\ Marked' = Marked
      BY <2>1, <2>5, DurableIs, DurableIsNext
    <2> QED BY <1>1, <1>2, <2>1, <2>4, <2>6, OthersFit, StutterStep
  <1> QED BY <1>3, <1>4, <1>5, <1>6, <1>7, <1>8 DEF Recovery

\* Discovery, the scan and the wipe of the cursors leave the marks alone.
LEMMA ScanKeepsMarks ==
    ASSUME Inductive, MarksFit, NEW p \in Proc,
           \/ \E found \in SUBSET Present : Discover(p, found)
           \/ \E f \in File : ScanFile(p, f) \/ ScanFailed(p, f) \/ DetectReplay(p, f)
           \/ Wipe(p)
    PROVE  MarksFit' /\ LedgerStep
  <1>1. TypeOK /\ late = {}
    BY DEF MarksFit, Inductive
  <1>2. /\ pc[p] \in {"discover", "scan", "wipe"}
        /\ UNCHANGED <<queue, qstate, journal, server, late>>
    BY DEF Discover, ScanFile, ScanFailed, DetectReplay, Wipe, SyncStep, disk, cloud
  <1>3. PICK label \in {"discover", "scan", "wipe"} : Goto(p, label)
    <2>1. CASE pc' = pc
      BY <1>1, <1>2, <2>1 DEF Goto, TypeOK
    <2>2. CASE pc' # pc
      BY <2>2 DEF Discover, ScanFile, ScanFailed, DetectReplay, Wipe
    <2> QED BY <2>1, <2>2
  <1>4. pc'[p] = label
    BY <1>1, <1>3 DEF Goto, TypeOK
  <1>5. MarkFits(p)'
    BY <1>4 DEF MarkFits, Redoing
  <1> QED BY <1>1, <1>2, <1>3, <1>5, OthersFit, SameMarks, StutterStep

\* The keys of a queue to which a scan has added the events s.
LEMMA KeysOfSum ==
    ASSUME NEW q \in Counts, NEW s \in SUBSET Event, NEW r \in Counts,
           \A e \in Event : r[e] = q[e] + (IF e \in s THEN 1 ELSE 0)
    PROVE  KeysOf(r) = KeysOf(q) \cup {KeyOf[e] : e \in s}
  <1>1. \A e \in Event : q[e] \in Nat /\ r[e] \in Nat
    BY DEF Counts
  <1>2. \A e \in Event : r[e] > 0 <=> (q[e] > 0 \/ e \in s)
    BY <1>1
  <1> QED BY <1>2 DEF KeysOf

\* The marks a commit leaves: after a full scan the keys of what it parsed,
\* after an incremental one those in addition to the marks before
\* (executeSyncInternal: the dirty keys kept, added and inferred from the
\* offset).
LEMMA PlannedMarks ==
    ASSUME NEW m \in Mem, qstate \in QState, queue \in Counts
    PROVE  LET fresh == {KeyOf[e] : e \in m.seen}
               before == MarksIn(queue, qstate.dirty, qstate.offset)
           IN  MarksIn(PlannedQueue(m), PlannedDirty(m), "start") =
                  IF IsEmpty(m.loaded) THEN fresh ELSE before \cup fresh
  <1> USE ConstantsAssumption
  <1> DEFINE fresh == {KeyOf[e] : e \in m.seen}
             old == IF qstate.dirty # Null THEN qstate.dirty
                    ELSE IF qstate.offset = "start" THEN KeysOf(queue) ELSE {}
             before == MarksIn(queue, qstate.dirty, qstate.offset)
             r == PlannedQueue(m)
  <1>1. m.seen \in SUBSET Event /\ r \in Counts
    BY PlannedQueueType DEF Mem
  <1>2. \A e \in Event : r[e] = (IF IsEmpty(m.loaded) THEN 0 ELSE queue[e])
                                + (IF e \in m.seen THEN 1 ELSE 0)
    BY DEF PlannedQueue
  <1>3. fresh \subseteq Key /\ Null # PlannedDirty(m)
    <2>1. fresh \subseteq Key
      BY <1>1
    <2>2. PlannedDirty(m) \subseteq Key
      BY <2>1, KeysOfType DEF PlannedDirty, QState
    <2> QED BY <2>1, <2>2
  <1>4. MarksIn(r, PlannedDirty(m), "start") = PlannedDirty(m) \cap KeysOf(r)
    BY <1>3 DEF MarksIn
  <1>5. CASE IsEmpty(m.loaded)
    <2>1. \A e \in Event : r[e] = Nothing[e] + (IF e \in m.seen THEN 1 ELSE 0)
      BY <1>2, <1>5 DEF Nothing
    <2>2. KeysOf(Nothing) = {}
      BY DEF KeysOf, Nothing
    <2> HIDE DEF r
    <2>3. KeysOf(r) = fresh
      BY <1>1, <2>1, <2>2, KeysOfSum, Defaults
    <2>4. PlannedDirty(m) = fresh
      BY <1>5 DEF PlannedDirty
    <2> QED BY <1>4, <1>5, <2>3, <2>4 DEF r
  <1>6. CASE ~IsEmpty(m.loaded)
    <2>1. \A e \in Event : r[e] = queue[e] + (IF e \in m.seen THEN 1 ELSE 0)
      BY <1>2, <1>6
    <2>2. PlannedDirty(m) = (IF qstate.dirty = Null THEN {} ELSE qstate.dirty)
                            \cup fresh \cup (old \cap KeysOf(r))
      BY <1>6 DEF PlannedDirty
    <2> HIDE DEF r
    <2>3. KeysOf(r) = KeysOf(queue) \cup fresh
      BY <1>1, <2>1, KeysOfSum
    <2>4. before = old \cap KeysOf(queue)
      BY DEF MarksIn
    <2> HIDE DEF before, fresh
    <2>5. PlannedDirty(m) \cap KeysOf(r) = before \cup fresh
      BY <2>2, <2>3, <2>4
    <2> QED BY <1>4, <1>6, <2>5 DEF before, fresh, r
  <1> QED BY <1>5, <1>6

\* The commit of a sync, seen from the ledger, is one step: a collection, a
\* rebuilding, or nothing when there is nothing to write (writeSyncCommit).
LEMMA CommitKeepsMarks ==
    ASSUME Inductive, MarksFit, NEW p \in Proc, WriteJournal(p)
    PROVE  MarksFit' /\ LedgerStep
  <1> USE ConstantsAssumption
  <1> DEFINE m == mem[p]
             fresh == {KeyOf[e] : e \in m.seen}
  <1>1. /\ TypeOK /\ late = {} /\ ProcFits(p) /\ m \in Mem /\ Single(queue)
        /\ queue \in Counts /\ qstate \in QState
    BY DEF MarksFit, Inductive, TypeOK, Tables
  <1>2. /\ pc[p] = "scan" /\ Goto(p, "recover") /\ journal' = Planned(m)
        /\ UNCHANGED <<queue, qstate, server, late>>
    BY DEF WriteJournal, SyncStep, cloud
  <1>3. pc'[p] = "recover" /\ mem'[p].batch = {}
    BY <1>1, <1>2 DEF WriteJournal, Goto, Set, TypeOK, NoMem
  <1>4. MarkFits(p)'
    BY <1>3 DEF MarkFits, Redoing
  <1>5. MarksFit'
    BY <1>1, <1>2, <1>4, OthersFit
  <1>6. journal = Null /\ Agree(log, PlannedQueue(m), m.cur)
    BY <1>1, <1>2 DEF ProcFits, ScanFits, Redoing
  <1>7. /\ Durable.queue = queue
        /\ Marked = MarksIn(queue, qstate.dirty, qstate.offset)
    BY <1>6, DurableIs DEF Redo
  <1>8. PlannedQueue(m) \in Counts /\ m.seen \in SUBSET Event
    BY <1>1, PlannedQueueType DEF Mem
  <1>9. Planned(m) # Null
    BY <1>1, PlannedType DEF TypeOK
  <1>10. CASE ~IsEmpty(m.loaded) /\ m.seen = {}
    <2>1. ~Redo'
      BY <1>2, <1>10 DEF Planned, Redo
    <2> QED BY <1>2, <1>5, <1>7, <2>1, DurableIsNext, StutterStep
  <1>11. CASE IsEmpty(m.loaded) \/ m.seen # {}
    <2>1. /\ journal'.records = PlannedQueue(m)
          /\ journal'.dirty = PlannedDirty(m)
      BY <1>2, <1>11 DEF Planned
    <2>2. Redo'
      BY <1>2, <1>8, <1>9, <2>1 DEF Redo
    <2>3. /\ Durable.queue' = PlannedQueue(m)
          /\ Marked' = IF IsEmpty(m.loaded) THEN fresh ELSE Marked \cup fresh
      BY <1>1, <1>7, <2>1, <2>2, DurableIsNext, PlannedMarks
    <2>4. CASE IsEmpty(m.loaded)
      <3>1. Durable.queue' = [e \in Event |-> IF e \in m.seen THEN 1 ELSE 0]
        BY <2>3, <2>4 DEF PlannedQueue
      <3>2. Ledger!Rebuild
        BY <1>2, <1>8, <2>3, <2>4, <3>1 DEF Ledger!Rebuild
      <3> QED BY <1>5, <3>2 DEF LedgerStep, Ledger!LedgerNext
    <2>5. CASE ~IsEmpty(m.loaded)
      <3>1. \A e \in Event : PlannedQueue(m)[e] = queue[e]
                                                  + (IF e \in m.seen THEN 1 ELSE 0)
        BY <2>5 DEF PlannedQueue
      <3>2. ASSUME NEW e \in Event PROVE PlannedQueue(m)[e] <= 1 /\ queue[e] \in Nat
        BY <1>1, <1>6 DEF Agree, Event, Counts
      <3>3. \A e \in m.seen : queue[e] = 0
        BY <1>8, <3>1, <3>2
      <3>4. \A e \in Event : PlannedQueue(m)[e] = IF e \in m.seen THEN 1 ELSE queue[e]
        BY <3>1, <3>2, <3>3
      <3>5. Durable.queue' = [e \in Event |-> IF e \in m.seen THEN 1 ELSE queue[e]]
        BY <1>8, <2>3, <3>4 DEF PlannedQueue
      <3>6. m.seen \in SUBSET {e \in Event : queue[e] = 0}
        BY <1>8, <3>3
      <3>7. Ledger!Collect
        BY <1>2, <1>7, <2>3, <2>5, <3>5, <3>6 DEF Ledger!Collect
      <3> QED BY <1>5, <3>7 DEF LedgerStep, Ledger!LedgerNext
    <2> QED BY <2>4, <2>5
  <1> QED BY <1>10, <1>11

\* Reset empties the ledger with its queue; before and after, marks only grow.
LEMMA ResetKeepsMarks ==
    ASSUME Inductive, MarksFit, NEW p \in Proc, Reset(p)
    PROVE  MarksFit' /\ LedgerStep
  <1>1. TypeOK /\ late = {} /\ ProcFits(p)
    BY DEF MarksFit, Inductive
  <1>2. /\ pc[p] \in {"xCursors", "xQueue", "xState"}
        /\ UNCHANGED <<journal, server, late>>
    BY DEF Reset, ResetCursors, ResetQueue, ResetQState, SyncStep, cloud
  <1>3. PICK label \in {"xQueue", "xState", "release"} : Goto(p, label)
    BY DEF Reset, ResetCursors, ResetQueue, ResetQState
  <1>4. pc'[p] = label
    BY <1>1, <1>3 DEF Goto, TypeOK
  <1>5. MarkFits(p)'
    BY <1>4 DEF MarkFits, Redoing
  <1>6. MarksFit'
    BY <1>1, <1>2, <1>3, <1>5, OthersFit
  <1>7. ~Redo /\ ~Redo'
    BY <1>1, <1>2 DEF ProcFits, Redoing, Redo
  <1>8. CASE ResetCursors(p)
    BY <1>2, <1>6, <1>8, SameMarks, StutterStep DEF ResetCursors
  <1>9. CASE ResetQueue(p)
    <2>1. queue' = Nothing /\ KeysOf(Nothing) = {}
      BY <1>9 DEF ResetQueue, KeysOf, Nothing
    <2>2. Durable.queue' = Nothing /\ Marked' = {}
      BY <1>7, <2>1, DurableIsNext DEF MarksIn
    <2>3. Ledger!Rebuild
      BY <1>2, <2>2 DEF Ledger!Rebuild, Nothing
    <2> QED BY <1>6, <2>3 DEF LedgerStep, Ledger!LedgerNext
  <1>10. CASE ResetQState(p)
    <2>1. queue' = queue /\ qstate'.dirty = Null /\ qstate'.offset = "start"
      BY <1>10 DEF ResetQState, NoQState
    <2>2. Durable.queue' = Durable.queue /\ Marked' = KeysOf(Durable.queue)
      BY <1>7, <2>1, DurableIs, DurableIsNext DEF MarksIn
    <2> QED BY <1>2, <1>6, <2>2, MarksAreKeys, RemarkStep
  <1> QED BY <1>8, <1>9, <1>10 DEF Reset

\* A torn queue.state.json marks every row; the other interruptions change
\* nothing of what the next command finds.
LEMMA InterruptKeepsMarks ==
    ASSUME Inductive, MarksFit, NEW p \in Proc, Interrupt(p)
    PROVE  MarksFit' /\ LedgerStep
  <1>1. TypeOK /\ late = {}
    BY DEF MarksFit, Inductive
  <1>2. /\ pc[p] # "idle" /\ Goto(p, "idle") /\ qstate' \in {qstate, NoQState}
        /\ UNCHANGED <<queue, journal, server, late>>
    BY DEF Interrupt, cloud
  <1>3. pc'[p] = "idle"
    BY <1>1, <1>2 DEF Goto, TypeOK
  <1>4. MarkFits(p)'
    BY <1>3 DEF MarkFits, Redoing
  <1>5. MarksFit'
    BY <1>1, <1>2, <1>4, OthersFit
  <1>6. CASE qstate' = qstate
    BY <1>2, <1>5, <1>6, SameMarks, StutterStep
  <1>7. CASE qstate' = NoQState
    <2>1. qstate'.dirty = Null /\ qstate'.offset = "start" /\ (Redo' <=> Redo)
      BY <1>2, <1>7 DEF NoQState, Redo
    <2>2. /\ Durable.queue' = Durable.queue
          /\ Marked' = Marked \/ Marked' = KeysOf(Durable.queue)
      BY <1>2, <2>1, DurableIs, DurableIsNext DEF MarksIn
    <2> QED BY <1>2, <1>5, <2>2, MarksAreKeys, RemarkStep
  <1> QED BY <1>2, <1>6, <1>7

\* A batch, and the one that is retried, is a part of what is still to send.
LEMMA BatchOfSend ==
    ASSUME NEW m, NEW b \in Batches(m), m.batch \subseteq m.send
    PROVE  b \subseteq m.send
  BY DEF Batches

\* A request with rows of the queue leaves its keys equal on the server and
\* changes no other row.
LEMMA OverwriteEquals ==
    ASSUME NEW b, NEW t, NEW r, r.keys = b, NEW k
    PROVE  /\ k \in b => Ledger!Equal(r.rows, Overwrite(t, r), k)
           /\ k \notin b /\ Ledger!Equal(r.rows, t, k)
                 => Ledger!Equal(r.rows, Overwrite(t, r), k)
  BY DEF Overwrite, Ledger!Equal

\* A request that reaches the server copies current rows of marked keys; the
\* marks go only when every marked row is there (createUploadEngine).
LEMMA UploadKeepsMarks ==
    ASSUME MaxLate = 0, Inductive, MarksFit, NEW p \in Proc, Upload(p)
    PROVE  MarksFit' /\ LedgerStep
  <1> DEFINE m == mem[p]
  <1>1. TypeOK /\ late = {} /\ ProcFits(p) /\ MarkFits(p) /\ m \in Mem
    BY DEF MarksFit, Inductive, TypeOK
  <1>2. /\ pc[p] \in {"load", "rewind", "send", "saveOffset", "clearDirty"}
        /\ UNCHANGED <<queue, journal>>
    BY DEF Upload, LoadUpload, RewindOffset, SendOk, SendFailed, SendRefused,
           SaveOffset, ClearDirty, disk
  <1>3. ~Redo /\ ~Redo' /\ journal = Null
    BY <1>1, <1>2 DEF ProcFits, Redoing, Redo
  <1>4. /\ Durable.queue = queue /\ Durable.queue' = queue
        /\ Marked = MarksIn(queue, qstate.dirty, qstate.offset)
        /\ Marked' = MarksIn(queue, qstate'.dirty, qstate'.offset)
    BY <1>2, <1>3, DurableIs, DurableIsNext
  <1>5. ASSUME LoadUpload(p) PROVE MarksFit' /\ LedgerStep
    <2>1. /\ pc[p] = "load"
          /\ UNCHANGED <<queue, qstate, journal, server, late>>
      BY <1>5 DEF LoadUpload, disk, cloud
    <2>2. Marked' = Marked /\ LedgerStep
      BY <2>1, SameMarks, StutterStep
    <2>3. ToSend = Marked
      BY <1>4 DEF ToSend, MarksIn
    <2>4. CASE ToSend # {}
      <3> DEFINE r == [m EXCEPT !.legacy = qstate.dirty = Null, !.send = ToSend,
                                !.rows = queue]
      <3>1. Goto(p, "send") /\ mem' = [mem EXCEPT ![p] = r]
        BY <1>5, <2>4 DEF LoadUpload, Set
      <3>2. r.send = ToSend /\ r.rows = queue /\ r.batch = m.batch
        BY <1>1 DEF Mem
      <3>3. r.legacy <=> qstate.dirty = Null
        BY <1>1 DEF Mem
      <3> HIDE DEF r
      <3>4. pc'[p] = "send" /\ mem'[p] = r
        BY <1>1, <3>1 DEF Goto, TypeOK
      <3>5. m.batch = {}
        BY <1>1, <2>1 DEF MarkFits
      <3>6. MarkFits(p)'
        BY <2>1, <2>2, <2>3, <3>2, <3>3, <3>4, <3>5 DEF MarkFits, Redoing
      <3> QED BY <1>1, <2>1, <2>2, <3>1, <3>6, OthersFit
    <2>5. CASE ToSend = {}
      <3>1. PICK label \in {"rewind", "clearDirty", "release"} : Goto(p, label)
        BY <1>5, <2>5 DEF LoadUpload
      <3>2. pc'[p] = label
        BY <1>1, <3>1 DEF Goto, TypeOK
      <3>3. MarkFits(p)'
        BY <2>2, <2>3, <2>5, <3>2 DEF MarkFits, Redoing
      <3> QED BY <1>1, <2>1, <2>2, <3>1, <3>3, OthersFit
    <2> QED BY <2>4, <2>5
  <1>6. ASSUME RewindOffset(p) PROVE MarksFit' /\ LedgerStep
    <2>1. /\ pc[p] = "rewind" /\ Goto(p, "release") /\ UNCHANGED <<server, late>>
          /\ qstate' = [qstate EXCEPT !.offset = "start"]
      BY <1>6 DEF RewindOffset, cloud
    <2>2. qstate'.dirty = qstate.dirty /\ qstate'.offset = "start"
      BY <1>1, <2>1 DEF TypeOK, QState
    <2>3. Marked \subseteq Marked' /\ Marked' \subseteq KeysOf(queue)
      BY <1>4, <2>2 DEF MarksIn
    <2>4. pc'[p] = "release"
      BY <1>1, <2>1 DEF Goto, TypeOK
    <2>5. MarkFits(p)'
      BY <2>4 DEF MarkFits, Redoing
    <2> QED BY <1>1, <1>4, <2>1, <2>3, <2>5, OthersFit, RemarkStep
  <1>7. ASSUME SaveOffset(p) PROVE MarksFit' /\ LedgerStep
    <2>1. /\ pc[p] = "saveOffset" /\ UNCHANGED <<server, late>>
          /\ Goto(p, IF m.legacy THEN "release" ELSE "clearDirty")
          /\ qstate' = [qstate EXCEPT !.offset = "eof"]
      BY <1>7 DEF SaveOffset, cloud
    <2>2. /\ qstate'.dirty = qstate.dirty /\ qstate'.offset = "eof"
          /\ m.legacy <=> qstate.dirty = Null
          /\ \A k \in Marked : Ledger!Equal(queue, server, k)
      BY <1>1, <2>1 DEF TypeOK, QState, MarkFits
    <2>3. CASE qstate.dirty = Null
      <3>1. Marked' = {} /\ Goto(p, "release")
        BY <1>4, <2>1, <2>2, <2>3 DEF MarksIn
      <3>2. pc'[p] = "release"
        BY <1>1, <2>1, <3>1 DEF Goto, TypeOK
      <3>3. MarkFits(p)'
        BY <3>2 DEF MarkFits, Redoing
      <3>4. Ledger!Unmark
        BY <1>4, <2>1, <2>2, <3>1 DEF Ledger!Unmark
      <3> QED BY <1>1, <2>1, <3>1, <3>3, <3>4, OthersFit
              DEF LedgerStep, Ledger!LedgerNext
    <2>4. CASE qstate.dirty # Null
      <3>1. Marked' = Marked /\ Goto(p, "clearDirty")
        BY <1>4, <2>1, <2>2, <2>4 DEF MarksIn
      <3>2. pc'[p] = "clearDirty"
        BY <1>1, <2>1, <3>1 DEF Goto, TypeOK
      <3>3. MarkFits(p)'
        BY <1>2, <2>1, <2>2, <3>1, <3>2 DEF MarkFits, Redoing
      <3> QED BY <1>1, <1>4, <2>1, <3>1, <3>3, OthersFit, StutterStep
    <2> QED BY <2>3, <2>4
  <1>8. ASSUME ClearDirty(p) PROVE MarksFit' /\ LedgerStep
    <2>1. /\ pc[p] = "clearDirty" /\ Goto(p, "release") /\ UNCHANGED <<server, late>>
          /\ qstate' = [qstate EXCEPT !.dirty = {}]
      BY <1>8 DEF ClearDirty, cloud
    <2>2. qstate'.dirty = {} /\ \A k \in Marked : Ledger!Equal(queue, server, k)
      BY <1>1, <2>1 DEF TypeOK, QState, MarkFits
    <2>3. Marked' = {}
      BY <1>4, <2>2, ConstantsAssumption DEF MarksIn
    <2>4. pc'[p] = "release"
      BY <1>1, <2>1 DEF Goto, TypeOK
    <2>5. MarkFits(p)'
      BY <2>4 DEF MarkFits, Redoing
    <2>6. Ledger!Unmark
      BY <1>4, <2>1, <2>2, <2>3 DEF Ledger!Unmark
    <2> QED BY <1>1, <2>1, <2>5, <2>6, OthersFit DEF LedgerStep, Ledger!LedgerNext
  <1>9. ASSUME SendOk(p) \/ SendFailed(p) \/ SendRefused(p)
        PROVE  MarksFit' /\ LedgerStep
    <2>1. pc[p] = "send" /\ UNCHANGED <<queue, qstate, journal>>
      BY <1>9 DEF SendOk, SendFailed, SendRefused, disk
    <2>2. /\ m.rows = queue /\ m.batch \subseteq m.send /\ m.send \subseteq Marked
          /\ \A k \in Marked \ m.send : Ledger!Equal(queue, server, k)
          /\ m.legacy <=> qstate.dirty = Null
      BY <1>1, <2>1 DEF MarkFits
    <2>3. Marked' = Marked
      BY <2>1, SameMarks
    <2>4. ASSUME NEW b \in Batches(m), server' = Overwrite(server, Request(m, b))
          PROVE  /\ LedgerStep /\ b \subseteq m.send
                 /\ \A k \in b : Ledger!Equal(queue, server', k)
                 /\ \A k \in Marked \ m.send : Ledger!Equal(queue, server', k)
      <3>1. b \subseteq m.send
        BY <2>2, <2>4, BatchOfSend
      <3>2. Request(m, b).keys = b /\ Request(m, b).rows = queue
        BY <2>2 DEF Request
      <3>3. server' = [e \in Event |-> IF KeyOf[e] \in b THEN queue[e] ELSE server[e]]
        BY <2>4, <3>2 DEF Overwrite
      <3>4. b \in SUBSET Marked
        BY <2>2, <3>1
      <3>5. Ledger!Ingest
        BY <1>4, <2>3, <3>3, <3>4 DEF Ledger!Ingest
      <3>6. \A k \in Marked \ m.send : k \notin b
        BY <3>1
      <3> QED BY <2>2, <2>4, <3>1, <3>2, <3>5, <3>6, OverwriteEquals
              DEF LedgerStep, Ledger!LedgerNext
    <2>5. ASSUME UNCHANGED server PROVE LedgerStep
      BY <2>1, <2>5, SameMarks, StutterStep
    <2>6. CASE SendOk(p)
      <3>1. PICK b \in Batches(m) :
               /\ server' = Overwrite(server, Request(m, b))
               /\ mem' = [mem EXCEPT ![p] = [m EXCEPT !.send = @ \ b, !.batch = {},
                                                      !.attempt = 0]]
               /\ Goto(p, IF m.send \subseteq b THEN "saveOffset" ELSE "send")
               /\ late' = late
        BY <2>6 DEF SendOk, Set
      <3> DEFINE r == [m EXCEPT !.send = m.send \ b, !.batch = {}, !.attempt = 0]
      <3>2. mem' = [mem EXCEPT ![p] = r]
        BY <3>1
      <3>3. /\ r.send = m.send \ b /\ r.batch = {} /\ r.rows = m.rows
            /\ r.legacy <=> m.legacy
        BY <1>1 DEF Mem
      <3> HIDE DEF r
      <3>4. mem'[p] = r
        BY <1>1, <3>2 DEF TypeOK
      <3>5. /\ LedgerStep /\ b \subseteq m.send
            /\ \A k \in b : Ledger!Equal(queue, server', k)
            /\ \A k \in Marked \ m.send : Ledger!Equal(queue, server', k)
        BY <2>4, <3>1
      <3>6. CASE m.send \subseteq b
        <4>1. pc'[p] = "saveOffset" /\ Goto(p, "saveOffset")
          BY <1>1, <3>1, <3>6 DEF Goto, TypeOK
        <4>2. \A k \in Marked : Ledger!Equal(queue, server', k)
          BY <3>5, <3>6
        <4>3. MarkFits(p)'
          BY <2>1, <2>2, <2>3, <3>3, <3>4, <4>1, <4>2 DEF MarkFits, Redoing
        <4> QED BY <1>1, <2>1, <3>1, <3>5, <4>1, <4>3, OthersFit
      <3>7. CASE ~(m.send \subseteq b)
        <4>1. pc'[p] = "send" /\ Goto(p, "send")
          BY <1>1, <3>1, <3>7 DEF Goto, TypeOK
        <4>2. \A k \in Marked \ r.send : Ledger!Equal(queue, server', k)
          BY <3>3, <3>5
        <4>3. MarkFits(p)'
          BY <2>1, <2>2, <2>3, <3>3, <3>4, <4>1, <4>2 DEF MarkFits, Redoing
        <4> QED BY <1>1, <2>1, <3>1, <3>5, <4>1, <4>3, OthersFit
      <3> QED BY <3>6, <3>7
    <2>7. CASE SendFailed(p)
      <3>1. PICK b \in Batches(m) :
               /\ \/ UNCHANGED cloud
                  \/ server' = Overwrite(server, Request(m, b)) /\ UNCHANGED late
                  \/ /\ Cardinality(late) < MaxLate
                     /\ late' = late \cup {Request(m, b)} /\ UNCHANGED server
               /\ IF m.attempt < MaxRetries
                  THEN /\ Set(p, [m EXCEPT !.batch = b, !.attempt = @ + 1])
                       /\ UNCHANGED pc
                  ELSE Goto(p, "release") /\ UNCHANGED mem
        BY <2>7 DEF SendFailed
      <3>2. Cardinality(late) = 0
        BY <1>1, FS_EmptySet
      <3>3. /\ late' = late
            /\ UNCHANGED server \/ server' = Overwrite(server, Request(m, b))
        BY <3>1, <3>2 DEF cloud
      <3>4. LedgerStep /\ b \subseteq m.send
        BY <2>2, <2>4, <2>5, <3>3, BatchOfSend
      <3>5. \A k \in Marked \ m.send : Ledger!Equal(queue, server', k)
        BY <2>2, <2>4, <3>3
      <3>6. CASE m.attempt < MaxRetries
        <4> DEFINE r == [m EXCEPT !.batch = b, !.attempt = m.attempt + 1]
        <4>1. mem' = [mem EXCEPT ![p] = r] /\ pc' = pc
          BY <3>1, <3>6 DEF Set
        <4>2. /\ r.send = m.send /\ r.batch = b /\ r.rows = m.rows
              /\ r.legacy <=> m.legacy
          BY <1>1 DEF Mem
        <4> HIDE DEF r
        <4>3. mem'[p] = r /\ pc'[p] = "send" /\ Goto(p, "send")
          BY <1>1, <2>1, <4>1 DEF Goto, TypeOK
        <4>4. MarkFits(p)'
          BY <2>1, <2>2, <2>3, <3>4, <3>5, <4>2, <4>3 DEF MarkFits, Redoing
        <4> QED BY <1>1, <2>1, <3>3, <3>4, <4>3, <4>4, OthersFit
      <3>7. CASE ~(m.attempt < MaxRetries)
        <4>1. Goto(p, "release")
          BY <3>1, <3>7
        <4>2. pc'[p] = "release"
          BY <1>1, <4>1 DEF Goto, TypeOK
        <4>3. MarkFits(p)'
          BY <4>2 DEF MarkFits, Redoing
        <4> QED BY <1>1, <2>1, <3>3, <3>4, <4>1, <4>3, OthersFit
      <3> QED BY <3>6, <3>7
    <2>8. CASE SendRefused(p)
      <3>1. Goto(p, "release") /\ UNCHANGED <<server, late>>
        BY <2>8 DEF SendRefused, cloud
      <3>2. pc'[p] = "release"
        BY <1>1, <3>1 DEF Goto, TypeOK
      <3>3. MarkFits(p)'
        BY <3>2 DEF MarkFits, Redoing
      <3> QED BY <1>1, <2>1, <2>5, <3>1, <3>3, OthersFit
    <2> QED BY <1>9, <2>6, <2>7, <2>8
  <1> QED BY <1>5, <1>6, <1>7, <1>8, <1>9 DEF Upload

\* Every step of the pipeline is a step of the ledger or leaves it alone.
LEMMA NextKeepsMarks ==
    ASSUME MaxLate = 0
    PROVE  Inductive /\ MarksFit /\ [Next]_vars => MarksFit' /\ LedgerStep
  <1> SUFFICES ASSUME Inductive, MarksFit, [Next]_vars PROVE MarksFit' /\ LedgerStep
    OBVIOUS
  <1>1. CASE Tool \/ RemoveOrphan \/ UNCHANGED vars \/ \E f \in File : LoseCursor(f)
    BY <1>1, QuietKeepsMarks
  <1>2. ~ApplyLate
    BY DEF MarksFit, ApplyLate
  <1>3. ASSUME NEW p \in Proc, Command(p) PROVE MarksFit' /\ LedgerStep
    <2>1. CASE Release(p) \/ \E op \in {"sync", "upload", "reset"} : Start(p, op)
      BY <2>1, QuietKeepsMarks
    <2>2. CASE Recovery(p)
      BY <2>2, RecoveryKeepsMarks
    <2>3. CASE Sync(p)
      BY <2>3, ScanKeepsMarks, CommitKeepsMarks DEF Sync
    <2>4. CASE Upload(p)
      BY <2>4, UploadKeepsMarks
    <2>5. CASE Reset(p)
      BY <2>5, ResetKeepsMarks
    <2>6. CASE Interrupt(p)
      BY <2>6, InterruptKeepsMarks
    <2> QED BY <1>3, <2>1, <2>2, <2>3, <2>4, <2>5, <2>6 DEF Command
  <1> QED BY <1>1, <1>2, <1>3 DEF Next

\* The pipeline starts as the ledger does: nothing counted, marked or sent.
LEMMA InitMarks == Init => MarksFit /\ Ledger!LedgerInit
  <1> SUFFICES ASSUME Init PROVE MarksFit /\ Ledger!LedgerInit
    OBVIOUS
  <1>1. MarksFit
    BY DEF Init, MarksFit, MarkFits, Redoing
  <1>2. Durable.queue = Nothing /\ Marked \subseteq KeysOf(Nothing)
    BY DurableIs, MarksAreKeys DEF Init, Redo
  <1>3. KeysOf(Nothing) = {}
    BY DEF KeysOf, Nothing
  <1>4. Ledger!LedgerInit
    BY <1>2, <1>3 DEF Ledger!LedgerInit, Init, Nothing
  <1> QED BY <1>1, <1>4

\* While no request that was given up is applied later, an upload drops a
\* mark only when the server has the row (upload-engine.ts: the dirty keys are
\* cleared after the last batch), whatever is killed or torn in between.
THEOREM MarksAreKept == ASSUME MaxLate = 0 PROVE Spec => []MarksFit
  <1>1. Init => MarksFit
    BY InitMarks
  <1>2. Inductive /\ MarksFit /\ [Next]_vars => MarksFit'
    BY NextKeepsMarks
  <1> QED BY <1>1, <1>2, InductiveInvariant, PTL DEF Spec

\* The pipeline, with its journal, its recoveries, its batches, its crashes
\* and torn writes, implements the ledger: a sync takes effect at once, with
\* the rename of its journal (writeSyncCommit, createUploadEngine).
THEOREM LedgerImplemented == ASSUME MaxLate = 0 PROVE Spec => ImplementsLedger
  <1>1. Init => Ledger!LedgerInit
    BY InitMarks
  <1>2. Inductive /\ MarksFit /\ [Next]_vars => LedgerStep
    BY NextKeepsMarks
  <1> QED BY <1>1, <1>2, MarksAreKept, InductiveInvariant, PTL
          DEF Spec, ImplementsLedger, Ledger!LedgerSpec, LedgerStep

-----------------------------------------------------------------------------
(* The ledger forgets nothing: what the refinement brings to the pipeline.  *)

\* A sync, a rescan, a reset, a remark, a request or the end of an upload
\* leaves counts in {0, 1} and marks among the keys (the rows of queue.jsonl
\* and of the server never count an event twice).
LEMMA LedgerTypeCorrect ==
  ASSUME Ledger!KeyOfAssumption
  PROVE  Ledger!LedgerSpec => []Ledger!LedgerTypeOK
<1> USE DEF Ledger!KeyOfAssumption
<1>1. Ledger!LedgerInit => Ledger!LedgerTypeOK
  BY DEF Ledger!LedgerInit, Ledger!LedgerTypeOK
<1>2. Ledger!LedgerTypeOK /\ [Ledger!LedgerNext]_(Ledger!ledgerVars) => Ledger!LedgerTypeOK'
  <2> SUFFICES ASSUME Ledger!LedgerTypeOK, [Ledger!LedgerNext]_(Ledger!ledgerVars)
               PROVE  Ledger!LedgerTypeOK'
    OBVIOUS
  <2> USE DEF Ledger!LedgerTypeOK
  <2>1. CASE Ledger!Collect
    BY <2>1 DEF Ledger!Collect
  <2>2. CASE Ledger!Rebuild
    BY <2>2 DEF Ledger!Rebuild
  <2>3. CASE Ledger!Remark
    <3>1. Ledger!KeysIn(Durable.queue) \subseteq Key
      BY DEF Ledger!KeysIn
    <3> QED BY <2>3, <3>1 DEF Ledger!Remark
  <2>4. CASE Ledger!Ingest
    BY <2>4 DEF Ledger!Ingest
  <2>5. CASE Ledger!Unmark
    BY <2>5 DEF Ledger!Unmark
  <2>6. CASE UNCHANGED Ledger!ledgerVars
    BY <2>6 DEF Ledger!ledgerVars
  <2> QED BY <2>1, <2>2, <2>3, <2>4, <2>5, <2>6 DEF Ledger!LedgerNext
<1> QED BY <1>1, <1>2, PTL DEF Ledger!LedgerSpec

\* A row that is not marked for upload stands on the server as it stands in
\* the ledger, whatever syncs, rescans, resets and uploads have done (the
\* dirty keys of queue.state.json account for every difference).
LEMMA NothingIsForgotten ==
  ASSUME Ledger!KeyOfAssumption
  PROVE  Ledger!LedgerSpec => []Ledger!NothingForgotten
<1> USE DEF Ledger!KeyOfAssumption
<1>1. Ledger!LedgerInit => Ledger!NothingForgotten
  BY DEF Ledger!LedgerInit, Ledger!NothingForgotten, Ledger!KeysIn
<1>2. Ledger!LedgerTypeOK /\ Ledger!NothingForgotten /\ [Ledger!LedgerNext]_(Ledger!ledgerVars)
         => Ledger!NothingForgotten'
  <2> SUFFICES ASSUME Ledger!LedgerTypeOK, Ledger!NothingForgotten,
                      [Ledger!LedgerNext]_(Ledger!ledgerVars),
                      NEW k \in (Ledger!KeysIn(Durable.queue) \ Marked)'
               PROVE  Ledger!Equal(Durable.queue, server, k)'
    BY DEF Ledger!NothingForgotten
  <2>0. PICK x \in Event : (Durable.queue)'[x] > 0 /\ KeyOf[x] = k
    BY DEF Ledger!KeysIn
  <2>1. CASE Ledger!Collect
    <3>1. PICK new \in SUBSET {e \in Event : Durable.queue[e] = 0} :
             /\ (Durable.queue)' = [e \in Event |-> IF e \in new THEN 1 ELSE Durable.queue[e]]
             /\ Marked' = Marked \cup {KeyOf[e] : e \in new}
             /\ server' = server
      BY <2>1 DEF Ledger!Collect
    <3>2. \A e \in Event : KeyOf[e] = k => e \notin new
      BY <3>1
    <3>3. k \in Ledger!KeysIn(Durable.queue) \ Marked
      BY <2>0, <3>1, <3>2 DEF Ledger!KeysIn
    <3>4. Ledger!Equal(Durable.queue, server, k)
      BY <3>3 DEF Ledger!NothingForgotten
    <3> QED BY <3>1, <3>2, <3>4 DEF Ledger!Equal
  <2>2. CASE Ledger!Rebuild
    \* Every counted key is marked.
    BY <2>0, <2>2 DEF Ledger!Rebuild
  <2>3. CASE Ledger!Remark
    BY <2>3 DEF Ledger!Remark, Ledger!NothingForgotten, Ledger!Equal, Ledger!KeysIn
  <2>4. CASE Ledger!Ingest
    <3>1. PICK b \in SUBSET Marked :
             server' = [e \in Event |-> IF KeyOf[e] \in b THEN Durable.queue[e] ELSE server[e]]
      BY <2>4 DEF Ledger!Ingest
    <3>2. (Durable.queue)' = Durable.queue /\ Marked' = Marked
      BY <2>4 DEF Ledger!Ingest
    <3>3. Ledger!Equal(Durable.queue, server, k)
      BY <3>2 DEF Ledger!NothingForgotten, Ledger!KeysIn
    <3> QED BY <3>1, <3>2, <3>3 DEF Ledger!Equal
  <2>5. CASE Ledger!Unmark
    <3>1. (Durable.queue)' = Durable.queue /\ server' = server
      BY <2>5 DEF Ledger!Unmark
    <3>2. k \in Ledger!KeysIn(Durable.queue)
      BY <3>1 DEF Ledger!KeysIn
    <3>3. Ledger!Equal(Durable.queue, server, k)
      BY <2>5, <3>2 DEF Ledger!Unmark, Ledger!NothingForgotten
    <3> QED BY <3>1, <3>3 DEF Ledger!Equal
  <2>6. CASE UNCHANGED Ledger!ledgerVars
    BY <2>6 DEF Ledger!ledgerVars, Ledger!NothingForgotten, Ledger!Equal, Ledger!KeysIn
  <2> QED BY <2>1, <2>2, <2>3, <2>4, <2>5, <2>6 DEF Ledger!LedgerNext
<1> QED BY <1>1, <1>2, LedgerTypeCorrect, PTL DEF Ledger!LedgerSpec

\* No row is forgotten: one that differs from the server's is marked, after
\* any number of syncs, crashes, resets and failed uploads (the promise the
\* ledger keeps, and so the pipeline).
THEOREM NothingForgotten == ASSUME MaxLate = 0 PROVE Spec => []PendingIsMarked
  <1>1. Ledger!KeyOfAssumption
    BY ConstantsAssumption DEF Ledger!KeyOfAssumption
  <1>2. Ledger!LedgerSpec => []Ledger!NothingForgotten
    BY <1>1, NothingIsForgotten
  <1> QED BY <1>2, LedgerImplemented, PTL DEF ImplementsLedger, PendingIsMarked
=============================================================================
