------------------------- MODULE CoordinatorProofs -------------------------
(***************************************************************************)
(* What Coordinator promises for every number of workers.  LocksFit is     *)
(* inductive for all values of the constants, kills and timeouts included; *)
(* SignalFits for workers that nobody kills and that share state.lock with *)
(* no other command: with either, a cycle may empty the signal and read    *)
(* nothing.                                                                *)
(***************************************************************************)
EXTENDS Coordinator, TLAPS

\* The labels from the first attempt at sync.lock to the run log.
Run == {"acquire", "fill", "append", "poll", "unlink", "retry", "log"} \cup Holding

\* sync.lock names a worker that is filling it, holds it or was killed.
LockFits ==
    lockFile # Null =>
        pc[lockFile.by] \in Killed \cup IF lockFile.pid THEN Holding ELSE {"fill"}

\* trailing.lock names a worker that is filling it, sleeps, makes its trailing
\* run or was killed.
TrailingFits ==
    trailingLock # Null =>
        LET p == trailingLock.by
        IN  IF trailingLock.pid
            THEN pc[p] \in Killed \cup {"tSleep", "tDone"} \/ (pc[p] \in Run /\ mem[p].trailing)
            ELSE pc[p] \in Killed \cup {"tFill"}

LocksFit == TypeOK /\ LockFits /\ TrailingFits

-----------------------------------------------------------------------------
\* A run that has its outcome.
Over == {"unlock", "remove", "log", "tTry", "tFill", "tRead", "tUnlink",
         "tRetry", "tSleep", "tDone", "done"}

\* Unless the lock failed to exclude, the data of p has been read.
Read(p) == overlapped \/ p \in synced

RunFits(p) ==
    /\ pc[p] \notin Killed
    /\ pc[p] # "new" <=> p \in hooked
    /\ pc[p] = "check" => Read(p)
    /\ mem[p].outcome \in {"ran", "dedup"} => Read(p)
    /\ pc[p] \in Over => mem[p].outcome # "none"

SignalFits ==
    /\ TypeOK /\ SignalKept
    /\ overlapped \/ MutualExclusion
    /\ \A p \in Proc : RunFits(p)
-----------------------------------------------------------------------------
(* Types. *)

\* The step of a worker moves its label, and whether two workers have held
\* the lock is known.
LEMMA GotoMoves ==
    ASSUME TypeOK, NEW p \in Proc, NEW label \in PC, Goto(p, label)
    PROVE  /\ pc' \in [Proc -> PC] /\ overlapped' \in BOOLEAN
           /\ pc'[p] = label
           /\ \A q \in Proc : q # p => pc'[q] = pc[q]
  BY DEF TypeOK, Goto

\* A new run, or a trailing one, has the memory its type says.
LEMMA NewRunType == NewRun \in Mem /\ [NewRun EXCEPT !.trailing = TRUE] \in Mem
  <1>1. 0 \in 0..MaxFollowUps /\ 0 \in Nat /\ "none" \in Outcome
    BY CoordinatorAssumption DEF Outcome
  <1>2. NewRun \in Mem
    BY <1>1 DEF NewRun, Mem
  <1>3. [NewRun EXCEPT !.trailing = TRUE] \in Mem
    BY <1>1 DEF NewRun, Mem
  <1> QED BY <1>2, <1>3

\* The memory of a run after each of the ways a worker changes it.
LEMMA MemTypes ==
    ASSUME NEW m \in Mem
    PROVE  /\ [m EXCEPT !.waited = TRUE] \in Mem
           /\ [m EXCEPT !.failed = TRUE] \in Mem
           /\ \A o \in Outcome : [m EXCEPT !.outcome = o] \in Mem
           /\ \A n \in Nat : [m EXCEPT !.outcome = "cooldown", !.until = n] \in Mem
           /\ m.followUps < MaxFollowUps => [m EXCEPT !.followUps = @ + 1] \in Mem
  <1> USE CoordinatorAssumption DEF Mem
  <1>1. [m EXCEPT !.waited = TRUE] \in Mem
    OBVIOUS
  <1>2. [m EXCEPT !.failed = TRUE] \in Mem
    OBVIOUS
  <1>3. \A o \in Outcome : [m EXCEPT !.outcome = o] \in Mem
    OBVIOUS
  <1>4. \A n \in Nat : [m EXCEPT !.outcome = "cooldown", !.until = n] \in Mem
    BY DEF Outcome
  <1>5. ASSUME m.followUps < MaxFollowUps
        PROVE  [m EXCEPT !.followUps = @ + 1] \in Mem
    <2>1. m.followUps \in 0..MaxFollowUps /\ m.followUps + 1 \in 0..MaxFollowUps
      BY <1>5
    <2> QED BY <2>1
  <1> QED BY <1>1, <1>2, <1>3, <1>4, <1>5

\* A lock file as it is created, and once its pid is written.
LEMMA FileTypes ==
    /\ \A p \in Proc : Created(p) \in LockFile /\ Created(p).by = p /\ ~Created(p).pid
    /\ \A r \in LockFile : LET f == [r EXCEPT !.pid = TRUE]
                           IN  f \in LockFile /\ f.by = r.by /\ f.pid
  BY DEF Created, LockFile

\* A lock file is known by its worker and by whether its pid is written.
LEMMA FileIs ==
    ASSUME NEW r \in LockFile
    PROVE  /\ ~r.pid => r = Created(r.by)
           /\ r.pid => r = [by |-> r.by, pid |-> TRUE]
  BY DEF Created, LockFile

\* The initial state has the types.
LEMMA InitType == Init => TypeOK
  <1>1. 0 \in 0..MaxCrashes /\ 0 \in 0..0 /\ "new" \in PC
    BY CoordinatorAssumption DEF PC
  <1> SUFFICES ASSUME Init PROVE TypeOK
    OBVIOUS
  <1>2. pc \in [Proc -> PC] /\ mem \in [Proc -> Mem]
    BY <1>1, NewRunType DEF Init
  <1>3. expired \in 0..successes /\ crashes \in 0..MaxCrashes /\ successes \in Nat
    BY <1>1 DEF Init
  <1>4. hooked \subseteq Proc /\ synced \subseteq hooked
    BY DEF Init
  <1> QED BY <1>2, <1>3, <1>4 DEF Init, TypeOK

\* Every step keeps the types.
LEMMA NextType == TypeOK /\ [Next]_vars => TypeOK'
  <1> SUFFICES ASSUME TypeOK, [Next]_vars PROVE TypeOK'
    OBVIOUS
  <1> USE CoordinatorAssumption
  <1>1. CASE CooldownExpires
    BY <1>1 DEF CooldownExpires, TypeOK, files, data
  <1>2. CASE UNCHANGED vars
    BY <1>2 DEF vars, files, data, clock, TypeOK
  <1>3. ASSUME NEW p \in Proc, Hook(p) PROVE TypeOK'
    <2>1. Goto(p, "acquire") /\ "acquire" \in PC
      BY <1>3 DEF Hook, PC
    <2> QED BY <1>3, <2>1, GotoMoves DEF Hook, TypeOK, clock
  <1>4. ASSUME NEW p \in Proc, Crash(p) PROVE TypeOK'
    <2>1. PICK label \in {"orphan", "dead"} : Goto(p, label)
      BY <1>4 DEF Crash
    <2>2. label \in PC
      BY DEF PC
    <2> QED BY <1>4, <2>1, <2>2, GotoMoves DEF Crash, TypeOK, files, data, clock
  <1>5. ASSUME NEW p \in Proc, WaitForLock(p) \/ TimeOut(p) PROVE TypeOK'
    <2>1. PICK label \in PC : Goto(p, label)
      BY <1>5 DEF WaitForLock, TryLock, FillLock, AppendSignal, PollLock, UnlinkStale,
                  RetryLock, TimeOut, PC
    <2>2. PICK m \in Mem : mem' = [mem EXCEPT ![p] = m]
      <3>1. mem[p] \in Mem /\ mem = [mem EXCEPT ![p] = mem[p]]
        BY DEF TypeOK
      <3>2. CASE UNCHANGED mem
        BY <3>1, <3>2
      <3>3. CASE AppendSignal(p) \/ TimeOut(p)
        BY <3>1, <3>3, MemTypes DEF AppendSignal, TimeOut, Set, Outcome
      <3> QED BY <1>5, <3>2, <3>3 DEF WaitForLock, TryLock, FillLock, PollLock,
                                      UnlinkStale, RetryLock
    <2>3. lockFile' \in {Null} \cup LockFile /\ signal' \in BOOLEAN
      BY <1>5, FileTypes
         DEF WaitForLock, TryLock, FillLock, AppendSignal, PollLock, UnlinkStale,
             RetryLock, TimeOut, TypeOK
    <2>4. LockStep
      BY <1>5 DEF WaitForLock, TryLock, FillLock, AppendSignal, PollLock, UnlinkStale,
                  RetryLock, TimeOut
    <2> QED BY <2>1, <2>2, <2>3, <2>4, GotoMoves DEF TypeOK, LockStep, data, clock
  <1>6. ASSUME NEW p \in Proc, RunCycles(p) PROVE TypeOK'
    <2>1. PICK label \in PC : Goto(p, label)
      BY <1>6 DEF RunCycles, Dedup, CheckCooldown, TruncateSignal, EnterSync, Scan,
                  CheckSignal, ReadOwnLock, RemoveLock, WriteRunLog, PC
    <2>2. PICK m \in Mem : mem' = [mem EXCEPT ![p] = m]
      <3>1. mem[p] \in Mem /\ mem = [mem EXCEPT ![p] = mem[p]]
        BY DEF TypeOK
      <3>2. CASE UNCHANGED mem
        BY <3>1, <3>2
      <3>3. CASE Dedup(p) \/ CheckCooldown(p) \/ EnterSync(p) \/ CheckSignal(p)
        <4>1. successes \in Nat
          BY DEF TypeOK
        <4> QED BY <3>1, <3>2, <3>3, <4>1, MemTypes
                DEF Dedup, CheckCooldown, EnterSync, CheckSignal, Set, Outcome
      <3> QED BY <1>6, <3>2, <3>3 DEF RunCycles, TruncateSignal, Scan, ReadOwnLock,
                                      RemoveLock, WriteRunLog
    <2>3. lockFile' \in {Null} \cup LockFile /\ signal' \in BOOLEAN
      BY <1>6 DEF RunCycles, Dedup, CheckCooldown, TruncateSignal, EnterSync, Scan,
                  CheckSignal, ReadOwnLock, RemoveLock, WriteRunLog, CycleStep,
                  TypeOK, files
    <2>4. /\ hooked' = hooked /\ synced' \subseteq hooked
          /\ successes' \in Nat /\ expired' \in 0..successes'
          /\ UNCHANGED <<trailingLock, crashes>>
      BY <1>6 DEF RunCycles, Dedup, CheckCooldown, TruncateSignal, EnterSync, Scan,
                  CheckSignal, ReadOwnLock, RemoveLock, WriteRunLog, CycleStep,
                  LockStep, TypeOK, files, data, clock
    <2> QED BY <2>1, <2>2, <2>3, <2>4, GotoMoves DEF TypeOK
  <1>7. ASSUME NEW p \in Proc, TrailingSync(p) PROVE TypeOK'
    <2>1. PICK label \in PC : Goto(p, label)
      BY <1>7 DEF TrailingSync, TryTrailing, FillTrailing, ReadTrailing, UnlinkTrailing,
                  RetryTrailing, WakeTrailing, FinishTrailing, CreateTrailing, PC
    <2>2. PICK m \in Mem : mem' = [mem EXCEPT ![p] = m]
      <3>1. mem[p] \in Mem /\ mem = [mem EXCEPT ![p] = mem[p]]
        BY DEF TypeOK
      <3> QED BY <1>7, <3>1, NewRunType
              DEF TrailingSync, TryTrailing, FillTrailing, ReadTrailing, UnlinkTrailing,
                  RetryTrailing, WakeTrailing, FinishTrailing, Set
    <2>3. trailingLock' \in {Null} \cup LockFile
      BY <1>7, FileTypes
         DEF TrailingSync, TryTrailing, FillTrailing, ReadTrailing, UnlinkTrailing,
             RetryTrailing, WakeTrailing, FinishTrailing, CreateTrailing, TypeOK
    <2>4. TrailingStep
      BY <1>7 DEF TrailingSync, TryTrailing, FillTrailing, ReadTrailing, UnlinkTrailing,
                  RetryTrailing, WakeTrailing, FinishTrailing
    <2> QED BY <2>1, <2>2, <2>3, <2>4, GotoMoves DEF TypeOK, TrailingStep, data, clock
  <1> QED BY <1>1, <1>2, <1>3, <1>4, <1>5, <1>6, <1>7 DEF Next, Worker

\* Every state of the workers has its type.
THEOREM TypeCorrect == Spec => []TypeOK
  BY InitType, NextType, PTL DEF Spec

-----------------------------------------------------------------------------
(* The lock files.                                                         *)

\* What a step of p that is neither a hook, a kill nor a step of its trailing
\* timer does to a run: only p moves, the run stays a run or ends in the log,
\* and whether it is a trailing run does not change.
RunMoves(p) ==
    /\ \A q \in Proc \ {p} : pc'[q] = pc[q] /\ mem'[q] = mem[q]
    /\ pc[p] \in Run /\ mem'[p].trailing = mem[p].trailing
    /\ \/ pc'[p] \in Run
       \/ pc'[p] \in {"tTry", "done"} /\ ~mem[p].trailing
       \/ pc'[p] = "tDone" /\ mem[p].trailing
    /\ trailingLock' = trailingLock

\* The steps of a run are such steps.
LEMMA RunStep ==
    ASSUME TypeOK, NEW p \in Proc, WaitForLock(p) \/ RunCycles(p) \/ TimeOut(p)
    PROVE  RunMoves(p)
  <1>1. PICK label \in PC : Goto(p, label)
    BY DEF WaitForLock, TryLock, FillLock, AppendSignal, PollLock, UnlinkStale,
           RetryLock, TimeOut, RunCycles, Dedup, CheckCooldown, TruncateSignal,
           EnterSync, Scan, CheckSignal, ReadOwnLock, RemoveLock, WriteRunLog, PC
  <1>2. /\ \A q \in Proc \ {p} : pc'[q] = pc[q]
        /\ pc'[p] = label
    BY <1>1, GotoMoves
  <1>3. PICK m : /\ mem' = [mem EXCEPT ![p] = m]
                 /\ m.trailing = mem[p].trailing
    <2>1. mem[p] \in Mem /\ mem = [mem EXCEPT ![p] = mem[p]]
      BY DEF TypeOK
    <2>2. CASE UNCHANGED mem
      BY <2>1, <2>2
    <2>3. CASE AppendSignal(p) \/ TimeOut(p) \/ Dedup(p) \/ CheckCooldown(p)
               \/ EnterSync(p) \/ CheckSignal(p)
      BY <2>1, <2>3 DEF AppendSignal, TimeOut, Dedup, CheckCooldown, EnterSync,
                        CheckSignal, Set, Mem
    <2> QED BY <2>2, <2>3 DEF WaitForLock, TryLock, FillLock, PollLock, UnlinkStale,
               RetryLock, RunCycles, TruncateSignal, Scan, ReadOwnLock, RemoveLock,
               WriteRunLog
  <1>4. /\ \A q \in Proc \ {p} : mem'[q] = mem[q]
        /\ mem'[p].trailing = mem[p].trailing
    BY <1>3 DEF TypeOK
  <1>5. pc[p] \in Run /\ trailingLock' = trailingLock
    BY DEF WaitForLock, TryLock, FillLock, AppendSignal, PollLock, UnlinkStale,
           RetryLock, TimeOut, RunCycles, Dedup, CheckCooldown, TruncateSignal,
           EnterSync, Scan, CheckSignal, ReadOwnLock, RemoveLock, WriteRunLog, Run,
           Holding, LockStep, CycleStep, files
  <1>6. CASE WriteRunLog(p)
    BY <1>2, <1>4, <1>5, <1>6, GotoMoves DEF WriteRunLog, RunMoves, PC
  <1>7. CASE ~WriteRunLog(p)
    <2>1. pc'[p] \in Run
      BY <1>2, <1>7, GotoMoves
         DEF WaitForLock, TryLock, FillLock, AppendSignal, PollLock, UnlinkStale,
             RetryLock, TimeOut, RunCycles, Dedup, CheckCooldown, TruncateSignal,
             EnterSync, Scan, CheckSignal, ReadOwnLock, RemoveLock, Run, Holding, PC
    <2> QED BY <1>2, <1>4, <1>5, <2>1 DEF RunMoves
  <1> QED BY <1>6, <1>7

\* What a step of the trailing timer of p does: only p moves, sync.lock stays.
LEMMA TrailingMoves ==
    ASSUME TypeOK, NEW p \in Proc, TrailingSync(p)
    PROVE  /\ \A q \in Proc \ {p} : pc'[q] = pc[q] /\ mem'[q] = mem[q]
           /\ pc[p] \in {"tTry", "tFill", "tRead", "tUnlink", "tRetry", "tSleep", "tDone"}
           /\ pc'[p] \in PC
           /\ lockFile' = lockFile
  <1>1. PICK label \in PC : Goto(p, label)
    BY DEF TrailingSync, TryTrailing, FillTrailing, ReadTrailing, UnlinkTrailing,
           RetryTrailing, WakeTrailing, FinishTrailing, CreateTrailing, PC
  <1>2. \A q \in Proc \ {p} : mem'[q] = mem[q]
    BY DEF TrailingSync, TryTrailing, FillTrailing, ReadTrailing, UnlinkTrailing,
           RetryTrailing, WakeTrailing, FinishTrailing, Set, TypeOK
  <1> QED
    BY <1>1, <1>2, GotoMoves
       DEF TrailingSync, TryTrailing, FillTrailing, ReadTrailing, UnlinkTrailing,
           RetryTrailing, WakeTrailing, FinishTrailing, TrailingStep

\* Initially there is no lock file.
LEMMA InitLocks == Init => LocksFit
  BY InitType DEF Init, LocksFit, LockFits, TrailingFits

\* Every step keeps sync.lock in the name of a worker that will remove it.
LEMMA NextLock == LocksFit /\ [Next]_vars => LockFits'
  <1> SUFFICES ASSUME LocksFit, [Next]_vars PROVE LockFits'
    OBVIOUS
  <1>0. TypeOK /\ LockFits /\ (lockFile # Null => lockFile \in LockFile /\ lockFile.by \in Proc)
    BY DEF LocksFit, TypeOK, LockFile
  <1>1. CASE CooldownExpires \/ UNCHANGED vars
    BY <1>0, <1>1 DEF CooldownExpires, LockFits, vars, files
  <1>2. ASSUME NEW p \in Proc, UNCHANGED lockFile,
               \A q \in Proc \ {p} : pc'[q] = pc[q],
               \/ pc[p] \notin Holding \cup {"fill"} \cup Killed
               \/ pc'[p] \in Killed
               \/ pc[p] \in Holding /\ pc'[p] \in Holding
        PROVE  LockFits'
    BY <1>0, <1>2 DEF LockFits, Holding, Killed
  <1>3. ASSUME NEW p \in Proc, Hook(p) PROVE LockFits'
    BY <1>0, <1>2, <1>3, GotoMoves DEF Hook, Holding, Killed, PC
  <1>4. ASSUME NEW p \in Proc, Crash(p) PROVE LockFits'
    <2>1. PICK label \in Killed : Goto(p, label)
      BY <1>4 DEF Crash, Killed
    <2>2. label \in PC
      BY DEF PC, Killed
    <2> QED BY <1>0, <1>2, <1>4, <2>1, <2>2, GotoMoves DEF Crash, files
  <1>5. ASSUME NEW p \in Proc, TrailingSync(p) PROVE LockFits'
    BY <1>0, <1>2, <1>5, TrailingMoves DEF Holding, Killed
  <1>6. ASSUME NEW p \in Proc, WaitForLock(p) \/ RunCycles(p) \/ TimeOut(p) PROVE LockFits'
    <2>1. /\ \A q \in Proc \ {p} : pc'[q] = pc[q]
      BY <1>0, <1>6, RunStep DEF RunMoves
    <2>2. CASE TimeOut(p) \/ AppendSignal(p) \/ PollLock(p) \/ WriteRunLog(p)
      BY <1>2, <2>1, <2>2
         DEF TimeOut, AppendSignal, PollLock, WriteRunLog, Holding, Killed, files
    <2>3. CASE UnlinkStale(p) \/ RemoveLock(p)
      BY <2>3 DEF UnlinkStale, RemoveLock, LockFits
    <2>4. CASE TryLock(p) \/ RetryLock(p)
      <3>1. CASE lockFile = Null
        <4>1. lockFile' = Created(p) /\ pc'[p] = "fill"
          BY <1>0, <2>4, <3>1, GotoMoves DEF TryLock, RetryLock, PC
        <4> QED BY <4>1, FileTypes DEF LockFits
      <3>2. CASE lockFile # Null
        BY <1>2, <2>1, <2>4, <3>2 DEF TryLock, RetryLock, Holding, Killed
      <3> QED BY <3>1, <3>2
    <2>5. CASE FillLock(p)
      <3>1. pc[p] = "fill" /\ pc'[p] \in Holding
        BY <1>0, <2>5, GotoMoves DEF FillLock, Holding, PC
      <3>2. CASE lockFile = Created(p)
        <4>1. lockFile' = [lockFile EXCEPT !.pid = TRUE] /\ lockFile \in LockFile
          BY <2>5, <3>2, FileTypes DEF FillLock
        <4>2. lockFile'.by = p /\ lockFile'.pid
          BY <3>2, <4>1, FileTypes
        <4> QED BY <3>1, <4>2 DEF LockFits
      <3>3. CASE lockFile # Created(p)
        <4>1. lockFile' = lockFile
          BY <2>5, <3>3 DEF FillLock
        <4>2. lockFile # Null => lockFile.by # p
          BY <1>0, <3>1, <3>3, FileIs DEF LockFits, Holding, Killed
        <4> QED BY <1>0, <2>1, <4>1, <4>2 DEF LockFits
      <3> QED BY <3>2, <3>3
    <2>6. CASE \/ Dedup(p) \/ CheckCooldown(p) \/ TruncateSignal(p) \/ EnterSync(p)
               \/ Scan(p) \/ CheckSignal(p)
      <3>1. pc[p] \in Holding /\ pc'[p] \in Holding
        BY <1>0, <2>6, GotoMoves
           DEF Dedup, CheckCooldown, TruncateSignal, EnterSync, Scan, CheckSignal,
               Holding, PC
      <3>2. lockFile' = lockFile
        BY <2>6 DEF Dedup, CheckCooldown, TruncateSignal, EnterSync, Scan,
                    CheckSignal, CycleStep
      <3> QED BY <1>2, <2>1, <3>1, <3>2
    <2>7. CASE ReadOwnLock(p)
      <3>1. CASE lockFile = [by |-> p, pid |-> TRUE]
        <4>1. pc[p] \in Holding /\ pc'[p] \in Holding /\ lockFile' = lockFile
          BY <1>0, <2>7, <3>1, GotoMoves DEF ReadOwnLock, Holding, PC
        <4> QED BY <1>2, <2>1, <4>1
      <3>2. CASE lockFile # [by |-> p, pid |-> TRUE]
        <4>1. pc[p] = "unlock" /\ lockFile' = lockFile
          BY <2>7 DEF ReadOwnLock
        <4>2. lockFile # Null => lockFile.by # p
          BY <1>0, <3>2, <4>1, FileIs DEF LockFits, Killed
        <4> QED BY <1>0, <2>1, <4>1, <4>2 DEF LockFits
      <3> QED BY <3>1, <3>2
    <2> QED BY <1>6, <2>2, <2>3, <2>4, <2>5, <2>6, <2>7 DEF WaitForLock, RunCycles
  <1> QED BY <1>1, <1>3, <1>4, <1>5, <1>6 DEF Next, Worker

\* Every step keeps trailing.lock in the name of a worker that will remove it.
LEMMA NextTrailing == LocksFit /\ [Next]_vars => TrailingFits'
  <1> SUFFICES ASSUME LocksFit, [Next]_vars PROVE TrailingFits'
    OBVIOUS
  <1>0. /\ TypeOK /\ TrailingFits
        /\ trailingLock # Null => trailingLock \in LockFile /\ trailingLock.by \in Proc
    BY DEF LocksFit, TypeOK, LockFile
  <1>1. CASE CooldownExpires \/ UNCHANGED vars
    BY <1>0, <1>1 DEF CooldownExpires, TrailingFits, vars, files
  <1>2. ASSUME NEW p \in Proc, trailingLock' = trailingLock,
               \A q \in Proc \ {p} : pc'[q] = pc[q] /\ mem'[q] = mem[q],
               trailingLock # Null => trailingLock.by # p
        PROVE  TrailingFits'
    BY <1>0, <1>2 DEF TrailingFits
  <1>3. ASSUME NEW p \in Proc, Hook(p) PROVE TrailingFits'
    <2>1. \A q \in Proc \ {p} : pc'[q] = pc[q] /\ mem'[q] = mem[q]
      BY <1>0, <1>3, GotoMoves DEF Hook, PC
    <2>2. trailingLock # Null => trailingLock.by # p
      BY <1>0, <1>3 DEF Hook, TrailingFits, Killed, Run, Holding
    <2> QED BY <1>2, <1>3, <2>1, <2>2 DEF Hook
  <1>4. ASSUME NEW p \in Proc, Crash(p) PROVE TrailingFits'
    <2>1. PICK label \in Killed : Goto(p, label)
      BY <1>4 DEF Crash, Killed
    <2>2. label \in PC
      BY DEF PC, Killed
    <2>3. pc'[p] \in Killed /\ \A q \in Proc \ {p} : pc'[q] = pc[q]
      BY <1>0, <2>1, <2>2, GotoMoves
    <2> QED BY <1>0, <1>4, <2>3 DEF Crash, files, TrailingFits
  <1>5. ASSUME NEW p \in Proc, WaitForLock(p) \/ RunCycles(p) \/ TimeOut(p)
        PROVE  TrailingFits'
    <2>1. RunMoves(p)
      BY <1>0, <1>5, RunStep
    <2> QED BY <1>0, <2>1 DEF RunMoves, TrailingFits, Run, Holding, Killed
  <1>6. ASSUME NEW p \in Proc, TrailingSync(p) PROVE TrailingFits'
    <2>1. \A q \in Proc \ {p} : pc'[q] = pc[q] /\ mem'[q] = mem[q]
      BY <1>0, <1>6, TrailingMoves
    <2>2. CASE TryTrailing(p) \/ RetryTrailing(p)
      <3>1. CASE trailingLock = Null
        <4>1. trailingLock' = Created(p) /\ pc'[p] = "tFill"
          BY <1>0, <2>2, <3>1, GotoMoves DEF TryTrailing, RetryTrailing, CreateTrailing, PC
        <4> QED BY <4>1, FileTypes DEF TrailingFits
      <3>2. CASE trailingLock # Null
        <4>1. trailingLock' = trailingLock
          BY <2>2, <3>2 DEF TryTrailing, RetryTrailing, CreateTrailing
        <4>2. trailingLock.by # p
          BY <1>0, <2>2, <3>2
             DEF TryTrailing, RetryTrailing, TrailingFits, Killed, Run, Holding
        <4> QED BY <1>2, <2>1, <4>1, <4>2
      <3> QED BY <3>1, <3>2
    <2>3. CASE FillTrailing(p)
      <3>1. pc[p] = "tFill" /\ pc'[p] = "tSleep"
        BY <1>0, <2>3, GotoMoves DEF FillTrailing, PC
      <3>2. CASE trailingLock = Created(p)
        <4>1. trailingLock' = [trailingLock EXCEPT !.pid = TRUE] /\ trailingLock \in LockFile
          BY <2>3, <3>2, FileTypes DEF FillTrailing
        <4>2. trailingLock'.by = p /\ trailingLock'.pid
          BY <3>2, <4>1, FileTypes
        <4> QED BY <3>1, <4>2 DEF TrailingFits
      <3>3. CASE trailingLock # Created(p)
        <4>1. trailingLock' = trailingLock
          BY <2>3, <3>3 DEF FillTrailing
        <4>2. trailingLock # Null => trailingLock.by # p
          BY <1>0, <3>1, <3>3, FileIs DEF TrailingFits, Killed, Run, Holding
        <4> QED BY <1>2, <2>1, <4>1, <4>2
      <3> QED BY <3>2, <3>3
    <2>4. CASE ReadTrailing(p)
      <3>1. trailingLock # Null => trailingLock.by # p
        BY <1>0, <2>4 DEF ReadTrailing, TrailingFits, Killed, Run, Holding
      <3> QED BY <1>2, <2>1, <2>4, <3>1 DEF ReadTrailing
    <2>5. CASE UnlinkTrailing(p) \/ FinishTrailing(p)
      BY <2>5 DEF UnlinkTrailing, FinishTrailing, TrailingFits
    <2>6. CASE WakeTrailing(p)
      <3>1. pc'[p] = "acquire" /\ mem'[p].trailing /\ trailingLock' = trailingLock
        BY <1>0, <2>6, GotoMoves DEF WakeTrailing, Set, NewRun, PC, TypeOK
      <3>2. pc[p] = "tSleep"
        BY <2>6 DEF WakeTrailing
      <3> QED BY <1>0, <2>1, <3>1, <3>2 DEF TrailingFits, Run, Killed
    <2> QED BY <1>6, <2>2, <2>3, <2>4, <2>5, <2>6 DEF TrailingSync
  <1> QED BY <1>1, <1>3, <1>4, <1>5, <1>6 DEF Next, Worker

\* The lock files always name workers that will remove them or were killed.
THEOREM LockFilesFit == Spec => []LocksFit
  <1>1. LocksFit /\ [Next]_vars => LocksFit'
    BY NextType, NextLock, NextTrailing DEF LocksFit
  <1> QED BY InitLocks, <1>1, PTL DEF Spec

\* With any number of workers, kills, timeouts and cooldowns, a worker that has
\* exited by itself has left neither lock file in its name, whatever the others
\* unlinked and created meanwhile (releaseLock, scheduleTrailingSync).
THEOREM ExitsClean == Spec => []NoLockLeftBehind
  <1>1. LocksFit => NoLockLeftBehind
    BY DEF LocksFit, LockFits, TrailingFits, NoLockLeftBehind, Run, Holding, Killed
  <1> QED BY LockFilesFit, <1>1, PTL

-----------------------------------------------------------------------------
(* The signal: no other command holds state.lock and no worker is killed.  *)

\* What a step of p leaves alone: everybody else, and what is known to be
\* synced or overlapped stays so.
Mine(p) ==
    /\ \A q \in Proc \ {p} : pc'[q] = pc[q] /\ mem'[q] = mem[q]
    /\ \A q \in Proc \ {p} : q \in hooked' <=> q \in hooked
    /\ synced \subseteq synced'
    /\ overlapped => overlapped'

\* A step that leaves the signal and the data alone, from another label than
\* those of a worker about to scan, keeps the signal's promise.
LEMMA SignalStays ==
    ASSUME TypeOK, SignalKept, NEW p \in Proc, Mine(p),
           signal' = signal, hooked' = hooked, pc[p] \notin {"enter", "scan"}
    PROVE  SignalKept'
  BY DEF TypeOK, SignalKept, Mine

\* The runs of the others stay as they were.
LEMMA OthersFit ==
    ASSUME NEW p \in Proc, Mine(p), NEW q \in Proc \ {p}, RunFits(q)
    PROVE  RunFits(q)'
  BY DEF RunFits, Mine, Read

\* Two workers with the lock overlap.
LEMMA Alone ==
    ASSUME overlapped \/ MutualExclusion, NEW p \in Proc, NEW q \in Proc,
           {pc[p], pc[q]} \subseteq Holding, p # q
    PROVE  overlapped
  BY DEF MutualExclusion, Exclusive

\* Initially nothing is hooked and nobody runs.
LEMMA InitSignal == Init => SignalFits
  BY InitType
     DEF Init, SignalFits, SignalKept, MutualExclusion, Exclusive, RunFits, Over,
         NewRun, Killed, Holding

\* A step keeps the promise of the signal, and its own run fits.
LEMMA NextSignal ==
    ASSUME Busy = FALSE, MaxCrashes = 0, SignalFits,
           NEW p \in Proc, Hook(p) \/ Worker(p) \/ TimeOut(p) \/ Crash(p)
    PROVE  Mine(p) /\ SignalKept' /\ RunFits(p)' /\ (overlapped' \/ MutualExclusion')
  <1>0. /\ TypeOK /\ SignalKept /\ (overlapped \/ MutualExclusion)
        /\ \A q \in Proc : RunFits(q)
    BY DEF SignalFits
  <1>1. ~Crash(p)
    BY <1>0 DEF Crash, TypeOK
  <1>2. PICK label \in PC : Goto(p, label)
    BY <1>1 DEF Hook, Worker, WaitForLock, TryLock, FillLock, AppendSignal, PollLock,
        UnlinkStale, RetryLock, TimeOut, RunCycles, Dedup, CheckCooldown,
        TruncateSignal, EnterSync, Scan, CheckSignal, ReadOwnLock, RemoveLock,
        WriteRunLog, TrailingSync, TryTrailing, FillTrailing, ReadTrailing,
        UnlinkTrailing, RetryTrailing, WakeTrailing, FinishTrailing, CreateTrailing, PC
  <1>3. /\ pc'[p] = label /\ \A q \in Proc \ {p} : pc'[q] = pc[q]
        /\ overlapped => overlapped'
        /\ overlapped' \/ MutualExclusion'
    BY <1>0, <1>2, GotoMoves DEF Goto, MutualExclusion
  <1>4. /\ \A q \in Proc \ {p} : mem'[q] = mem[q]
    <2>1. CASE Hook(p)
      BY <2>1 DEF Hook
    <2>2. CASE WaitForLock(p) \/ RunCycles(p) \/ TimeOut(p)
      BY <1>0, <2>2, RunStep DEF RunMoves
    <2>3. CASE TrailingSync(p)
      BY <1>0, <2>3, TrailingMoves
    <2> QED BY <1>1, <2>1, <2>2, <2>3 DEF Worker
  <1>5. CASE Hook(p)
    <2>1. Mine(p)
      BY <1>3, <1>4, <1>5 DEF Hook, Mine
    <2>2. SignalKept'
      BY <1>5 DEF Hook, SignalKept
    <2>3. pc'[p] = "acquire" /\ p \in hooked' /\ mem' = mem
      BY <1>0, <1>5, GotoMoves DEF Hook, PC
    <2>4. RunFits(p)'
      BY <1>0, <2>1, <2>3 DEF RunFits, Mine, Read, Over, Killed
    <2> QED BY <1>3, <2>1, <2>2, <2>4
  <1>6. CASE TrailingSync(p)
    <2>1. hooked' = hooked /\ synced' = synced /\ signal' = signal
      BY <1>6 DEF TrailingSync, TryTrailing, FillTrailing, ReadTrailing, UnlinkTrailing,
                  RetryTrailing, WakeTrailing, FinishTrailing, TrailingStep, data
    <2>2. Mine(p)
      BY <1>3, <1>4, <2>1 DEF Mine
    <2>3. SignalKept'
      BY <1>0, <1>6, <2>1, <2>2, SignalStays, TrailingMoves
    <2>4. RunFits(p)'
      <3>1. CASE WakeTrailing(p)
        <4>1. pc[p] = "tSleep" /\ pc'[p] = "acquire" /\ mem'[p].outcome = "none"
          BY <1>0, <3>1, GotoMoves DEF WakeTrailing, Set, NewRun, PC, TypeOK
        <4> QED BY <1>0, <2>1, <2>2, <4>1 DEF RunFits, Mine, Over, Killed
      <3>2. CASE ~WakeTrailing(p)
        <4>1. mem' = mem /\ pc[p] \in Over /\ pc'[p] \in Over
          BY <1>0, <1>6, <3>2, GotoMoves
             DEF TrailingSync, TryTrailing, FillTrailing, ReadTrailing, UnlinkTrailing,
                 RetryTrailing, FinishTrailing, CreateTrailing, Over, PC
        <4> QED BY <1>0, <2>1, <2>2, <4>1 DEF RunFits, Mine, Read, Over, Killed
      <3> QED BY <3>1, <3>2
    <2> QED BY <1>3, <2>2, <2>3, <2>4
  <1>7. CASE \/ TryLock(p) \/ FillLock(p) \/ PollLock(p) \/ UnlinkStale(p) \/ RetryLock(p)
             \/ CheckSignal(p) \/ ReadOwnLock(p) \/ RemoveLock(p) \/ WriteRunLog(p)
             \/ TimeOut(p) \/ CheckCooldown(p)
    <2>1. hooked' = hooked /\ synced' = synced /\ signal' = signal
      BY <1>7 DEF TryLock, FillLock, PollLock, UnlinkStale, RetryLock, TimeOut,
                  CheckCooldown, CheckSignal, ReadOwnLock, RemoveLock, WriteRunLog,
                  LockStep, CycleStep, data, files
    <2>2. Mine(p)
      BY <1>3, <1>4, <2>1 DEF Mine
    <2>3. pc[p] \notin {"new", "enter", "scan"} \cup Killed
      BY <1>7 DEF TryLock, FillLock, PollLock, UnlinkStale, RetryLock, TimeOut,
                  CheckCooldown, CheckSignal, ReadOwnLock, RemoveLock, WriteRunLog, Killed
    <2>4. SignalKept'
      BY <1>0, <2>1, <2>2, <2>3, SignalStays
    <2>5. RunFits(p)'
      <3>1. CASE \/ TryLock(p) \/ FillLock(p) \/ PollLock(p) \/ UnlinkStale(p)
                 \/ RetryLock(p) \/ ReadOwnLock(p) \/ RemoveLock(p) \/ WriteRunLog(p)
        <4>1. /\ mem' = mem
              /\ pc'[p] \notin Killed \cup {"new", "check"}
              /\ pc'[p] \in Over => pc[p] \in Over
          BY <1>0, <3>1, GotoMoves
             DEF TryLock, FillLock, PollLock, UnlinkStale, RetryLock, ReadOwnLock,
                 RemoveLock, WriteRunLog, Killed, Over, PC
        <4> QED BY <1>0, <2>1, <2>2, <2>3, <4>1 DEF RunFits, Mine, Read
      <3>2. CASE TimeOut(p)
        <4>1. pc'[p] = "log" /\ mem'[p].outcome = "error"
          BY <1>0, <3>2, GotoMoves DEF TimeOut, Set, TypeOK, Mem, PC
        <4> QED BY <1>0, <2>1, <2>3, <4>1 DEF RunFits, Killed
      <3>3. CASE CheckCooldown(p)
        <4>1. \/ pc'[p] = "unlock" /\ mem'[p].outcome = "cooldown"
              \/ pc'[p] = "truncate" /\ mem' = mem
          <5>1. mem[p] \in Mem /\ DOMAIN mem = Proc
            BY <1>0 DEF TypeOK
          <5>2. [mem[p] EXCEPT !.outcome = "cooldown", !.until = successes].outcome = "cooldown"
            BY <5>1 DEF Mem
          <5> QED BY <1>0, <3>3, <5>1, <5>2, GotoMoves DEF CheckCooldown, Set, PC
        <4> QED BY <1>0, <2>1, <2>2, <2>3, <4>1 DEF RunFits, Mine, Read, Killed, Over
      <3>4. CASE CheckSignal(p)
        <4>1. pc[p] = "check" /\ Read(p)
          BY <1>0, <3>4 DEF CheckSignal, RunFits
        <4>2. \/ pc'[p] = "unlock" /\ mem'[p].outcome = "ran"
              \/ pc'[p] = "truncate" /\ mem'[p].outcome = mem[p].outcome
          BY <1>0, <3>4, GotoMoves DEF CheckSignal, Set, TypeOK, Mem, PC
        <4>3. Read(p)'
          BY <2>1, <2>2, <4>1 DEF Read, Mine
        <4> QED BY <1>0, <2>1, <2>3, <4>2, <4>3 DEF RunFits, Killed, Over
      <3> QED BY <1>7, <3>1, <3>2, <3>3, <3>4
    <2> QED BY <1>3, <2>2, <2>4, <2>5
  <1>8. CASE AppendSignal(p)
    <2>1. Mine(p) /\ SignalKept' /\ hooked' = hooked
      BY <1>3, <1>4, <1>8 DEF AppendSignal, LockStep, data, Mine, SignalKept
    <2>2. /\ pc[p] = "append" /\ pc'[p] = "poll"
          /\ mem'[p].outcome = mem[p].outcome
      BY <1>0, <1>8, GotoMoves DEF AppendSignal, Set, TypeOK, Mem, PC
    <2>3. RunFits(p)'
      BY <1>0, <2>1, <2>2 DEF RunFits, Mine, Read, Over, Killed
    <2> QED BY <1>3, <2>1, <2>3
  <1>9. CASE Dedup(p)
    <2>1. hooked' = hooked /\ synced' = synced /\ signal' = signal
      BY <1>9 DEF Dedup, CycleStep
    <2>2. Mine(p)
      BY <1>3, <1>4, <2>1 DEF Mine
    <2>3. SignalKept'
      BY <1>0, <1>9, <2>1, <2>2, SignalStays DEF Dedup
    <2>4. CASE signal
      <3>1. pc[p] = "dedup" /\ pc'[p] = "cooldown" /\ mem' = mem
        BY <1>0, <1>9, <2>4, GotoMoves DEF Dedup, PC
      <3> QED BY <1>0, <1>3, <2>1, <2>2, <2>3, <3>1 DEF RunFits, Mine, Read, Over, Killed
    <2>5. CASE ~signal
      <3>1. pc[p] = "dedup" /\ pc'[p] = "unlock" /\ mem'[p].outcome = "dedup"
        BY <1>0, <1>9, <2>5, GotoMoves DEF Dedup, Set, TypeOK, Mem, PC
      <3>2. p \in hooked
        BY <1>0, <3>1 DEF RunFits
      <3>3. ASSUME NEW q \in Proc, pc[q] \in {"enter", "scan"} PROVE overlapped
        BY <1>0, <3>1, <3>3, Alone DEF Holding
      <3>4. Read(p)
        BY <1>0, <2>5, <3>2, <3>3 DEF SignalKept, Read
      <3>5. Read(p)'
        BY <2>1, <2>2, <3>4 DEF Read, Mine
      <3> QED BY <1>3, <2>1, <2>2, <2>3, <3>1, <3>2, <3>5 DEF RunFits, Killed
    <2> QED BY <2>4, <2>5
  <1>10. CASE TruncateSignal(p)
    <2>1. /\ pc[p] = "truncate" /\ pc'[p] = "enter" /\ mem' = mem
          /\ hooked' = hooked
      BY <1>0, <1>10, GotoMoves DEF TruncateSignal, CycleStep, PC
    <2>2. Mine(p)
      BY <1>3, <1>4, <1>10 DEF TruncateSignal, CycleStep, Mine
    <2>3. SignalKept'
      BY <2>1 DEF SignalKept
    <2>4. RunFits(p)'
      BY <1>0, <2>1, <2>2 DEF RunFits, Mine, Read, Over, Killed
    <2> QED BY <1>3, <2>2, <2>3, <2>4
  <1>11. CASE EnterSync(p)
    <2>1. hooked' = hooked /\ synced' = synced /\ signal' = signal /\ pc[p] = "enter"
      BY <1>11 DEF EnterSync, CycleStep
    <2>2. Mine(p)
      BY <1>3, <1>4, <2>1 DEF Mine
    <2>3. CASE pc'[p] = "scan" /\ mem' = mem
      <3>1. SignalKept'
        BY <2>3 DEF SignalKept
      <3> QED BY <1>0, <1>3, <2>1, <2>2, <2>3, <3>1 DEF RunFits, Mine, Read, Over, Killed
    <2>4. CASE /\ \E q \in Proc : pc[q] \in {"scan", "orphan"}
               /\ pc'[p] = "check" /\ mem'[p].outcome = mem[p].outcome
      <3>1. PICK q \in Proc : pc[q] = "scan"
        BY <1>0, <2>4 DEF RunFits, Killed
      <3>2. overlapped
        BY <1>0, <2>1, <3>1, Alone DEF Holding
      <3> QED BY <1>0, <1>3, <2>1, <2>2, <2>4, <3>2
              DEF RunFits, Mine, Read, SignalKept, Over, Killed
    <2> QED BY <1>0, <1>11, <2>3, <2>4, GotoMoves DEF EnterSync, Set, TypeOK, Mem, PC
  <1>12. CASE Scan(p)
    <2>1. /\ pc[p] = "scan" /\ pc'[p] = "check" /\ mem' = mem
          /\ hooked' = hooked /\ synced' = hooked
      BY <1>0, <1>12, GotoMoves DEF Scan, CycleStep, PC
    <2>2. Mine(p)
      BY <1>0, <1>3, <1>4, <2>1 DEF Mine, TypeOK
    <2>3. SignalKept' /\ p \in synced'
      BY <1>0, <2>1 DEF SignalKept, RunFits
    <2> QED BY <1>0, <1>3, <2>1, <2>2, <2>3 DEF RunFits, Read, Over, Killed
  <1> QED BY <1>1, <1>5, <1>6, <1>7, <1>8, <1>9, <1>10, <1>11, <1>12
          DEF Worker, WaitForLock, RunCycles

\* As long as nothing else holds state.lock and no worker is killed, the signal
\* keeps its promise and every run its outcome.
THEOREM SignalHolds ==
    ASSUME Busy = FALSE, MaxCrashes = 0
    PROVE  Spec => []SignalFits
  <1>1. SignalFits /\ [Next]_vars => SignalFits'
    <2> SUFFICES ASSUME SignalFits, [Next]_vars PROVE SignalFits'
      OBVIOUS
    <2>1. TypeOK'
      BY NextType DEF SignalFits
    <2>2. CASE CooldownExpires \/ UNCHANGED vars
      <3>1. UNCHANGED <<signal, hooked, synced, pc, mem, overlapped>>
        BY <2>2 DEF CooldownExpires, vars, files, data
      <3> QED BY <2>1, <3>1
              DEF SignalFits, SignalKept, MutualExclusion, Exclusive, RunFits, Read
    <2>3. ASSUME NEW p \in Proc, Hook(p) \/ Worker(p) \/ TimeOut(p) \/ Crash(p)
          PROVE  SignalFits'
      <3>1. Mine(p) /\ SignalKept' /\ RunFits(p)' /\ (overlapped' \/ MutualExclusion')
        BY <2>3, NextSignal
      <3>2. \A q \in Proc : RunFits(q)'
        BY <3>1, OthersFit DEF SignalFits
      <3> QED BY <2>1, <3>1, <3>2 DEF SignalFits
    <2> QED BY <2>2, <2>3 DEF Next
  <1> QED BY InitSignal, <1>1, PTL DEF Spec

\* While the lock excludes, data that no scan has read leaves the signal set or
\* a worker that is about to scan (notify.signal, coordinator.ts).
THEOREM SignalNeverLost ==
    ASSUME Busy = FALSE, MaxCrashes = 0
    PROVE  Spec => []SignalKept
  <1>1. SignalFits => SignalKept
    BY DEF SignalFits
  <1> QED BY SignalHolds, <1>1, PTL

\* While the lock excludes, a waiter that leaves its data to others because the
\* signal is empty finds it synced.
THEOREM DedupLosesNothing ==
    ASSUME Busy = FALSE, MaxCrashes = 0
    PROVE  Spec => []DedupIsSafe
  <1>1. SignalFits => DedupIsSafe
    BY DEF SignalFits, DedupIsSafe, RunFits, Read
  <1> QED BY SignalHolds, <1>1, PTL

\* While the lock excludes, when all workers are gone and none was turned away
\* by the cooldown or its timeout, all data has been synced.
THEOREM QuietMeansSynced ==
    ASSUME Busy = FALSE, MaxCrashes = 0
    PROVE  Spec => []SyncedUnlessTurnedAway
  <1>1. SignalFits => SyncedUnlessTurnedAway
    <2> SUFFICES ASSUME SignalFits, Quiet, ~overlapped, ~TurnedAway
                 PROVE  hooked \subseteq synced
      BY DEF SyncedUnlessTurnedAway
    <2> SUFFICES ASSUME NEW p \in hooked PROVE p \in synced
      OBVIOUS
    <2>1. p \in Proc /\ mem[p].outcome \in Outcome
      BY DEF SignalFits, TypeOK, Mem
    <2> QED BY <2>1 DEF SignalFits, RunFits, Quiet, TurnedAway, Outcome, Over, Read
  <1> QED BY SignalHolds, <1>1, PTL

=============================================================================
