----------------------------- MODULE Coordinator -----------------------------
(***************************************************************************)
(* The notify workers of the pew CLI.  Every hook of an AI tool appends a  *)
(* byte to notify.signal and starts a worker process; the workers agree    *)
(* through sync.lock and the signal on who scans the logs, skip the scan   *)
(* during the cooldown after a success, and leave one sleeper behind       *)
(* trailing.lock to scan once the cooldown is over.                        *)
(*                                                                         *)
(* A hook stands for the data its tool wrote before calling it: hooked is  *)
(* the set of hooks fired, synced the set whose data some scan has read.   *)
(***************************************************************************)
EXTENDS Integers, FiniteSets

CONSTANTS
    Proc,          \* worker processes; each is started by one hook
    MaxFollowUps,  \* follow-up cycles of one lock holder
    Cooldown,      \* whether workers pass a cooldown (cooldownMs > 0)
    Busy,          \* whether another command may hold state.lock
    Slow,          \* whether a run may outlast lockTimeoutMs or cooldownMs
    MaxCrashes,    \* bound: workers killed
    Null           \* an absent lock file

ASSUME CoordinatorAssumption ==
    /\ MaxFollowUps \in Nat /\ MaxCrashes \in Nat
    /\ {Cooldown, Busy, Slow} \subseteq BOOLEAN

VARIABLES
    lockFile,      \* sync.lock
    trailingLock,  \* trailing.lock
    signal,        \* notify.signal is not empty
    hooked, synced,
    successes,     \* how often last-success.json has been written
    expired,       \* how many of these successes are older than the cooldown
    crashes,
    pc, mem,
    overlapped     \* history: two workers have held sync.lock at once

files == <<lockFile, trailingLock, signal>>
data == <<hooked, synced>>
clock == <<successes, expired>>
vars == <<files, data, clock, crashes, pc, mem, overlapped>>

\* A lock file is created empty (O_EXCL) and gets its pid with the write
\* that follows; until then a reader finds no pid in it.
LockFile == [by : Proc, pid : BOOLEAN]
Created(p) == [by |-> p, pid |-> FALSE]

Outcome == {"none", "ran", "dedup", "cooldown", "error"}
Mem == [waited : BOOLEAN, followUps : 0..MaxFollowUps, failed : BOOLEAN,
        outcome : Outcome, trailing : BOOLEAN, until : Nat]
NewRun == [waited |-> FALSE, followUps |-> 0, failed |-> FALSE,
           outcome |-> "none", trailing |-> FALSE, until |-> 0]

PC == {"new", "acquire", "fill", "append", "poll", "unlink", "retry", "dedup",
       "cooldown", "truncate", "enter", "scan", "check", "unlock", "remove",
       "log", "tTry", "tFill", "tRead", "tUnlink", "tRetry", "tSleep", "tDone",
       "done", "dead", "orphan"}

\* "orphan": killed while it held state.lock, which stays behind.
Killed == {"dead", "orphan"}
\* process.kill(pid, 0) finds the process.
Alive(p) == pc[p] \notin {"new", "done"} \cup Killed

\* acquireLock has returned true and the lock is not yet released.
Holding == {"dedup", "cooldown", "truncate", "enter", "scan", "check", "unlock",
            "remove"}
Exclusive(at) == \A p, q \in Proc : {at[p], at[q]} \subseteq Holding => p = q

Goto(p, label) ==
    /\ pc' = [pc EXCEPT ![p] = label]
    /\ overlapped' = (overlapped \/ ~Exclusive(pc'))
Set(p, m) == mem' = [mem EXCEPT ![p] = m]

Init ==
    /\ lockFile = Null /\ trailingLock = Null /\ signal = FALSE
    /\ hooked = {} /\ synced = {}
    /\ successes = 0 /\ expired = 0 /\ crashes = 0
    /\ pc = [p \in Proc |-> "new"] /\ mem = [p \in Proc |-> NewRun]
    /\ overlapped = FALSE

-----------------------------------------------------------------------------
(* The hook: the tool has written its data, the handler appends to the     *)
(* signal and starts a worker.                                             *)

Hook(p) ==
    /\ pc[p] = "new" /\ Goto(p, "acquire")
    /\ hooked' = hooked \cup {p} /\ signal' = TRUE
    /\ UNCHANGED <<lockFile, trailingLock, synced, clock, crashes, mem>>

-----------------------------------------------------------------------------
(* sync.lock: acquireLock, waitForLock.                                    *)

LockStep == UNCHANGED <<trailingLock, data, clock, crashes>>

TryLock(p) ==
    /\ pc[p] = "acquire"
    /\ IF lockFile = Null
       THEN lockFile' = Created(p) /\ Goto(p, "fill")
       ELSE Goto(p, "append") /\ UNCHANGED lockFile
    /\ UNCHANGED <<signal, mem>> /\ LockStep

FillLock(p) ==
    /\ pc[p] = "fill"
    /\ lockFile' = IF lockFile = Created(p) THEN [lockFile EXCEPT !.pid = TRUE]
                   ELSE lockFile
    /\ Goto(p, IF mem[p].waited THEN "dedup" ELSE "cooldown")
    /\ UNCHANGED <<signal, mem>> /\ LockStep

AppendSignal(p) ==
    /\ pc[p] = "append" /\ Goto(p, "poll")
    /\ signal' = TRUE /\ Set(p, [mem[p] EXCEPT !.waited = TRUE])
    /\ UNCHANGED lockFile /\ LockStep

\* Mutant: a dead owner's lock is respected.
IsStaleNoPid(lock) == lock = Null \/ ~lock.pid

\* No file, no pid in it, or the pid of a process that is gone.
IsStale(lock) == lock = Null \/ ~lock.pid \/ ~Alive(lock.by)

PollLock(p) ==
    /\ pc[p] = "poll"
    /\ Goto(p, IF IsStale(lockFile) THEN "unlink" ELSE "retry")
    /\ UNCHANGED <<lockFile, signal, mem>> /\ LockStep

\* Removes whatever file is at the path by now.
UnlinkStale(p) ==
    /\ pc[p] = "unlink" /\ Goto(p, "retry")
    /\ lockFile' = Null
    /\ UNCHANGED <<signal, mem>> /\ LockStep

RetryLock(p) ==
    /\ pc[p] = "retry"
    /\ IF lockFile = Null
       THEN lockFile' = Created(p) /\ Goto(p, "fill")
       ELSE Goto(p, "poll") /\ UNCHANGED lockFile
    /\ UNCHANGED <<signal, mem>> /\ LockStep

TimeOut(p) ==
    /\ Slow
    /\ pc[p] = "retry" /\ lockFile # Null
    /\ Goto(p, "log") /\ Set(p, [mem[p] EXCEPT !.outcome = "error"])
    /\ UNCHANGED <<lockFile, signal>> /\ LockStep

-----------------------------------------------------------------------------
(* With the lock: waiter dedup, cooldown, the cycles.                      *)

CycleStep == UNCHANGED <<lockFile, trailingLock, hooked, clock, crashes>>

\* Mutant: a waiter leaves its data to whoever held the lock.
DedupAlways(p) ==
    /\ pc[p] = "dedup"
    /\ Goto(p, "unlock") /\ Set(p, [mem[p] EXCEPT !.outcome = "dedup"])
    /\ UNCHANGED <<signal, synced>> /\ CycleStep

Dedup(p) ==
    /\ pc[p] = "dedup"
    /\ IF signal THEN Goto(p, "cooldown") /\ UNCHANGED mem
       ELSE Goto(p, "unlock") /\ Set(p, [mem[p] EXCEPT !.outcome = "dedup"])
    /\ UNCHANGED <<signal, synced>> /\ CycleStep

CheckCooldown(p) ==
    /\ pc[p] = "cooldown"
    /\ IF Cooldown /\ expired < successes
       THEN /\ Goto(p, "unlock")
            /\ Set(p, [mem[p] EXCEPT !.outcome = "cooldown", !.until = successes])
       ELSE Goto(p, "truncate") /\ UNCHANGED mem
    /\ UNCHANGED <<signal, synced>> /\ CycleStep

TruncateSignal(p) ==
    /\ pc[p] = "truncate" /\ Goto(p, "enter")
    /\ signal' = FALSE
    /\ UNCHANGED <<synced, mem>> /\ CycleStep

\* executeSync takes state.lock or throws; the cycle records the error.  An
\* operator may have removed the state.lock of a killed worker, or not yet.
EnterSync(p) ==
    /\ pc[p] = "enter"
    /\ \/ /\ \A q \in Proc : pc[q] # "scan"
          /\ Goto(p, "scan") /\ UNCHANGED mem
       \/ /\ Busy \/ \E q \in Proc : pc[q] \in {"scan", "orphan"}
          /\ Goto(p, "check") /\ Set(p, [mem[p] EXCEPT !.failed = TRUE])
    /\ UNCHANGED <<signal, synced>> /\ CycleStep

Scan(p) ==
    /\ pc[p] = "scan" /\ Goto(p, "check")
    /\ synced' = hooked
    /\ UNCHANGED <<signal, mem>> /\ CycleStep

\* Mutant: the signal is truncated again when the last cycle is over.
CheckSignalTruncating(p) ==
    /\ pc[p] = "check" /\ Goto(p, "unlock")
    /\ Set(p, [mem[p] EXCEPT !.outcome = "ran"])
    /\ signal' = FALSE
    /\ UNCHANGED synced /\ CycleStep

\* Mutant: no bound on the follow-ups.
CheckSignalUnbounded(p) ==
    /\ pc[p] = "check"
    /\ IF signal
       THEN Goto(p, "truncate") /\ Set(p, [mem[p] EXCEPT !.followUps = @ + 1])
       ELSE Goto(p, "unlock") /\ Set(p, [mem[p] EXCEPT !.outcome = "ran"])
    /\ UNCHANGED <<signal, synced>> /\ CycleStep

CheckSignal(p) ==
    /\ pc[p] = "check"
    /\ IF signal /\ mem[p].followUps < MaxFollowUps
       THEN Goto(p, "truncate") /\ Set(p, [mem[p] EXCEPT !.followUps = @ + 1])
       ELSE Goto(p, "unlock") /\ Set(p, [mem[p] EXCEPT !.outcome = "ran"])
    /\ UNCHANGED <<signal, synced>> /\ CycleStep

\* Mutant: a worker that skipped its sync returns without releaseLock.
ReadOwnLockIfRan(p) ==
    /\ pc[p] = "unlock"
    /\ Goto(p, IF mem[p].outcome = "ran" /\ lockFile = [by |-> p, pid |-> TRUE]
               THEN "remove" ELSE "log")
    /\ UNCHANGED <<lockFile, signal, mem>> /\ LockStep

\* releaseLock reads the file and unlinks the path if the pid is its own.
ReadOwnLock(p) ==
    /\ pc[p] = "unlock"
    /\ Goto(p, IF lockFile = [by |-> p, pid |-> TRUE] THEN "remove" ELSE "log")
    /\ UNCHANGED <<lockFile, signal, mem>> /\ LockStep

RemoveLock(p) ==
    /\ pc[p] = "remove" /\ Goto(p, "log")
    /\ lockFile' = Null
    /\ UNCHANGED <<signal, mem>> /\ LockStep

\* The run log is written after the lock is gone.
WriteRunLog(p) ==
    /\ pc[p] = "log"
    /\ successes' = IF mem[p].outcome = "ran" /\ ~mem[p].failed
                    THEN successes + 1 ELSE successes
    /\ Goto(p, IF mem[p].trailing THEN "tDone"
               ELSE IF mem[p].outcome = "cooldown" THEN "tTry" ELSE "done")
    /\ UNCHANGED <<files, data, expired, crashes, mem>>

-----------------------------------------------------------------------------
(* scheduleTrailingSync, tryAcquireTrailingLock.                           *)

TrailingStep == UNCHANGED <<lockFile, signal, data, clock, crashes>>

CreateTrailing(p, otherwise) ==
    IF trailingLock = Null
    THEN trailingLock' = Created(p) /\ Goto(p, "tFill")
    ELSE Goto(p, otherwise) /\ UNCHANGED trailingLock

TryTrailing(p) ==
    /\ pc[p] = "tTry" /\ CreateTrailing(p, "tRead")
    /\ UNCHANGED mem /\ TrailingStep

FillTrailing(p) ==
    /\ pc[p] = "tFill" /\ Goto(p, "tSleep")
    /\ trailingLock' = IF trailingLock = Created(p)
                       THEN [trailingLock EXCEPT !.pid = TRUE] ELSE trailingLock
    /\ UNCHANGED mem /\ TrailingStep

ReadTrailing(p) ==
    /\ pc[p] = "tRead"
    /\ Goto(p, IF IsStale(trailingLock) THEN "tUnlink" ELSE "done")
    /\ UNCHANGED <<trailingLock, mem>> /\ TrailingStep

\* Unlinking a file that is gone already gives up.
UnlinkTrailing(p) ==
    /\ pc[p] = "tUnlink"
    /\ Goto(p, IF trailingLock = Null THEN "done" ELSE "tRetry")
    /\ trailingLock' = Null
    /\ UNCHANGED mem /\ TrailingStep

RetryTrailing(p) ==
    /\ pc[p] = "tRetry" /\ CreateTrailing(p, "done")
    /\ UNCHANGED mem /\ TrailingStep

\* The timer fires when the cooldown the worker met is over.
WakeTrailing(p) ==
    /\ pc[p] = "tSleep" /\ mem[p].until <= expired
    /\ Goto(p, "acquire") /\ Set(p, [NewRun EXCEPT !.trailing = TRUE])
    /\ UNCHANGED trailingLock /\ TrailingStep

FinishTrailing(p) ==
    /\ pc[p] = "tDone" /\ Goto(p, "done")
    /\ trailingLock' = Null
    /\ UNCHANGED mem /\ TrailingStep

-----------------------------------------------------------------------------
CooldownExpires ==
    /\ expired < successes
    /\ Slow \/ \A p \in Proc : ~Alive(p) \/ pc[p] = "tSleep"
    /\ expired' = expired + 1
    /\ UNCHANGED <<files, data, successes, crashes, pc, mem, overlapped>>

Crash(p) ==
    /\ crashes < MaxCrashes /\ Alive(p)
    /\ crashes' = crashes + 1
    /\ Goto(p, IF pc[p] = "scan" THEN "orphan" ELSE "dead")
    /\ UNCHANGED <<files, data, clock, mem>>

WaitForLock(p) ==
    \/ TryLock(p) \/ FillLock(p) \/ AppendSignal(p) \/ PollLock(p)
    \/ UnlinkStale(p) \/ RetryLock(p)

RunCycles(p) ==
    \/ Dedup(p) \/ CheckCooldown(p) \/ TruncateSignal(p) \/ EnterSync(p)
    \/ Scan(p) \/ CheckSignal(p) \/ ReadOwnLock(p) \/ RemoveLock(p)
    \/ WriteRunLog(p)

TrailingSync(p) ==
    \/ TryTrailing(p) \/ FillTrailing(p) \/ ReadTrailing(p) \/ UnlinkTrailing(p)
    \/ RetryTrailing(p) \/ WakeTrailing(p) \/ FinishTrailing(p)

Worker(p) == WaitForLock(p) \/ RunCycles(p) \/ TrailingSync(p)

Next ==
    \/ CooldownExpires
    \/ \E p \in Proc : Hook(p) \/ Worker(p) \/ TimeOut(p) \/ Crash(p)

Spec == Init /\ [][Next]_vars

\* A started worker keeps running and time passes; hooks and crashes need not
\* happen.
FairSpec ==
    /\ Spec
    /\ WF_vars(CooldownExpires)
    /\ \A p \in Proc : WF_vars(Worker(p))

-----------------------------------------------------------------------------
TypeOK ==
    /\ lockFile \in {Null} \cup LockFile /\ trailingLock \in {Null} \cup LockFile
    /\ signal \in BOOLEAN
    /\ hooked \subseteq Proc /\ synced \subseteq hooked
    /\ successes \in Nat /\ expired \in 0..successes
    /\ crashes \in 0..MaxCrashes
    /\ pc \in [Proc -> PC] /\ mem \in [Proc -> Mem]
    /\ overlapped \in BOOLEAN

\* At most one worker is between acquiring and releasing sync.lock (lockfile.ts:
\* "provides cross-process mutual exclusion").
MutualExclusion == Exclusive(pc)

\* As long as the lock did exclude: data no scan has read leaves the signal
\* set, or a worker that has emptied it and is about to scan.
SignalKept ==
    \/ overlapped
    \/ hooked \subseteq synced
    \/ signal
    \/ \E p \in Proc : pc[p] \in {"enter", "scan"}

\* As long as the lock did exclude: a waiter that skips its sync because the
\* signal is empty has its data synced (waiter dedup).
DedupIsSafe ==
    \A p \in Proc : mem[p].outcome = "dedup" => overlapped \/ p \in synced

Quiet == \A p \in Proc : pc[p] \in {"new", "done"} \cup Killed

\* Skipped by the cooldown without a trailing run of its own, or timed out.
TurnedAway == \E p \in Proc : mem[p].outcome \in {"cooldown", "error"}

\* As long as the lock did exclude: when no worker is left and none of them was
\* turned away, every hook's data has been synced (docs/28: follow-ups and
\* waiters together leave no notification behind).
SyncedUnlessTurnedAway == Quiet => overlapped \/ TurnedAway \/ hooked \subseteq synced

\* A worker that has exited by itself never leaves sync.lock or trailing.lock
\* in its name, whatever others unlinked and created meanwhile.
NoLockLeftBehind ==
    \A lock \in {lockFile, trailingLock} \ {Null} : pc[lock.by] # "done"

\* Every worker exits: nobody waits for a lock for ever, not even for one a
\* dead worker left, and no trailing sleeper is forgotten.
EveryWorkerExits == <>[]Quiet
=============================================================================
