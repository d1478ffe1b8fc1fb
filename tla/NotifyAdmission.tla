--------------------------- MODULE NotifyAdmission ---------------------------
(***************************************************************************)
(* The generated hook handler (notify.cjs) and the start of the worker it  *)
(* spawns.  A handler appends to the signal, samples the clock, and races  *)
(* by exclusive creation for two gate files of its time bucket: the owner  *)
(* of the sync gate spawns a worker that waits until the bucket is over,   *)
(* the owner of the forward gate calls the notifier that was configured    *)
(* before pew, which may be a wrapper that calls pew again.  What a worker *)
(* does after that is the module Coordinator; here it reads, in one step,  *)
(* the data of every hook fired so far.                                    *)
(***************************************************************************)
EXTENDS Integers, FiniteSets

CONSTANTS
    Handler,      \* handler processes
    Window,       \* ADMISSION_WINDOW_MS in ticks of the clock
    MaxAdmissionNow,       \* bound: ticks
    MaxKills      \* bound: gates that cannot be created, children not started or killed

Grace == 2        \* GATE_GRACE_BUCKETS

VARIABLES
    admissionNow,
    gates,        \* notify-admission/: <<kind, bucket>>
    hpc, handler, \* control point and local variables of each handler
    worker,       \* one record per spawned worker, keyed by the handler that spawned it
    calling,      \* handlers whose forwarded command is running
    scanned,      \* handlers whose tool's data some worker has read
    kills

admissionVars == <<admissionNow, gates, hpc, handler, worker, calling, scanned, kills>>

Bucket(t) == t \div Window
NoBucket == -1
GateKind == {"sync", "forward"}

NewHandler == [codex |-> FALSE, chain |-> FALSE, bucket |-> NoBucket, forwarded |-> FALSE,
               parent |-> FALSE, gate |-> "none"]
NoWorker == [at |-> "none", bucket |-> NoBucket, cutoff |-> NoBucket, seen |-> {}]

AdmissionInit ==
    /\ admissionNow = 0 /\ gates = {} /\ calling = {} /\ scanned = {} /\ kills = 0
    /\ hpc = [h \in Handler |-> "idle"]
    /\ handler = [h \in Handler |-> NewHandler]
    /\ worker = [h \in Handler |-> NoWorker]

Fired == {h \in Handler : hpc[h] # "idle"}
HandlerStep(h, from, to) == hpc[h] = from /\ hpc' = [hpc EXCEPT ![h] = to]
AdmissionFault == kills < MaxKills /\ kills' = kills + 1

-----------------------------------------------------------------------------
(* What starts a handler.                                                  *)

\* A tool calls its hook; only Codex has a saved original to forward to.
Fire(h) ==
    /\ HandlerStep(h, "idle", "sample")
    /\ \E codex \in BOOLEAN : handler' = [handler EXCEPT ![h].codex = codex]
    /\ UNCHANGED <<admissionNow, gates, worker, calling, scanned, kills>>

\* The chain guard comes before anything else: no signal, no child.
Guard(chain) == IF chain THEN "done" ELSE "sample"

\* The forwarded command calls pew again, as a Codex hook, with the
\* environment it was given or without it.
CallBack(g, h) ==
    /\ g \in calling /\ calling' = calling \ {g}
    /\ \E keeps \in BOOLEAN :
       /\ HandlerStep(h, "idle", Guard(keeps))
       /\ handler' = [handler EXCEPT ![h] = [@ EXCEPT !.codex = TRUE, !.parent = TRUE,
                                                      !.chain = keeps]]
    /\ UNCHANGED <<admissionNow, gates, worker, scanned, kills>>

Tick ==
    /\ admissionNow < MaxAdmissionNow /\ admissionNow' = admissionNow + 1
    /\ UNCHANGED <<gates, hpc, handler, worker, calling, scanned, kills>>

-----------------------------------------------------------------------------
(* The handler.                                                            *)

Sample(h) ==
    /\ HandlerStep(h, "sample", "sync")
    /\ handler' = [handler EXCEPT ![h].bucket = Bucket(admissionNow)]
    /\ UNCHANGED <<admissionNow, gates, worker, calling, scanned, kills>>

AfterSync(h) == IF handler[h].codex THEN "forward" ELSE "done"
Gate(h) == <<hpc[h], handler[h].bucket>>

\* tryAcquire up to the exclusive creation: EEXIST makes a loser, any other
\* error closes the gate for this handler, and so far no child is started.
CreateGate(h) ==
    /\ hpc[h] \in GateKind
    /\ \/ /\ Gate(h) \notin gates
          /\ gates' = gates \cup {Gate(h)}
          /\ hpc' = [hpc EXCEPT ![h] = IF @ = "sync" THEN "recheckSync" ELSE "recheckForward"]
          /\ UNCHANGED <<handler, kills>>
       \/ /\ Gate(h) \in gates
          /\ hpc' = [hpc EXCEPT ![h] = IF @ = "sync" THEN AfterSync(h) ELSE "done"]
          /\ handler' = [handler EXCEPT ![h].gate = IF hpc[h] = "sync" THEN "loser" ELSE @]
          /\ UNCHANGED <<gates, kills>>
       \/ /\ AdmissionFault
          /\ hpc' = [hpc EXCEPT ![h] = IF @ = "sync" THEN AfterSync(h) ELSE "done"]
          /\ handler' = [handler EXCEPT ![h].gate = IF hpc[h] = "sync" THEN "error" ELSE @]
          /\ UNCHANGED gates
    /\ UNCHANGED <<admissionNow, worker, calling, scanned>>

\* Mutant: the clock is not sampled again after the gate was created.
InTimeAlways(h) == TRUE

\* The post-create expiry check.
InTime(h) == Bucket(admissionNow) = handler[h].bucket

\* The owner spawns its worker, unless the binary is gone or spawn throws.
SpawnWorker(h) ==
    /\ HandlerStep(h, "recheckSync", AfterSync(h))
    /\ \/ /\ InTime(h)
          /\ worker' = [worker EXCEPT ![h] = [@ EXCEPT !.at = "wait", !.bucket = handler[h].bucket]]
          /\ handler' = [handler EXCEPT ![h].gate = "owner"]
          /\ UNCHANGED kills
       \/ /\ InTime(h) /\ AdmissionFault
          /\ handler' = [handler EXCEPT ![h].gate = "error"]
          /\ UNCHANGED worker
       \/ /\ ~InTime(h)
          /\ handler' = [handler EXCEPT ![h].gate = "expired"]
          /\ UNCHANGED <<worker, kills>>
    /\ UNCHANGED <<admissionNow, gates, calling, scanned>>

\* The backup is read only now; missing, malformed or pew itself: no child.
ForwardOriginal(h) ==
    /\ HandlerStep(h, "recheckForward", "done")
    /\ \/ /\ InTime(h)
          /\ calling' = calling \cup {h}
          /\ handler' = [handler EXCEPT ![h].forwarded = TRUE]
       \/ UNCHANGED <<calling, handler>>
    /\ UNCHANGED <<admissionNow, gates, worker, scanned, kills>>

-----------------------------------------------------------------------------
(* The worker: executeNotify until it enters coordinatedSync.              *)

\* Mutant: the worker does not wait for the end of the bucket.
NotBeforeNow(b) == 0

NotBefore(b) == (b + 1) * Window

\* The delay is over: sample the clock and list the gates.
Wake(h) ==
    /\ worker[h].at = "wait" /\ admissionNow >= NotBefore(worker[h].bucket)
    /\ worker' = [worker EXCEPT ![h] =
         [@ EXCEPT !.at = "clean",
                   !.cutoff = Bucket(admissionNow) - Grace,
                   !.seen = {g \in gates : g[2] <= Bucket(admissionNow) - Grace}]]
    /\ UNCHANGED <<admissionNow, gates, hpc, handler, calling, scanned, kills>>

\* The unlinks run concurrently, in any order, each by path.
UnlinkGate(h, g) ==
    /\ worker[h].at = "clean" /\ g \in worker[h].seen
    /\ gates' = gates \ {g}
    /\ worker' = [worker EXCEPT ![h].seen = @ \ {g}]
    /\ UNCHANGED <<admissionNow, hpc, handler, calling, scanned, kills>>

\* coordinatedSync: some scan that starts after this moment.
Scan(h) ==
    /\ worker[h].at = "clean" /\ worker[h].seen = {}
    /\ worker' = [worker EXCEPT ![h].at = "done"]
    /\ scanned' = scanned \cup Fired
    /\ UNCHANGED <<admissionNow, gates, hpc, handler, calling, kills>>

KillWorker(h) ==
    /\ worker[h].at \in {"wait", "clean"} /\ AdmissionFault
    /\ worker' = [worker EXCEPT ![h].at = "killed"]
    /\ UNCHANGED <<admissionNow, gates, hpc, handler, calling, scanned>>

-----------------------------------------------------------------------------

AdmissionNext ==
    \/ Tick
    \/ \E h \in Handler :
         \/ Fire(h) \/ \E g \in Handler : CallBack(g, h)
         \/ Sample(h) \/ CreateGate(h) \/ SpawnWorker(h) \/ ForwardOriginal(h)
         \/ Wake(h) \/ \E g \in gates : UnlinkGate(h, g)
         \/ \E g \in worker[h].seen \ gates : UnlinkGate(h, g)
         \/ Scan(h) \/ KillWorker(h)

-----------------------------------------------------------------------------
(* Properties.                                                             *)

\* Each bucket gets at most one worker and one forwarded command, although
\* clean-up deletes gate files and a handler may be paused for any time
\* between sampling the clock and creating its gate.
OneChildEach ==
    \A g, h \in Handler :
        /\ g # h /\ handler[g].bucket = handler[h].bucket
        /\ handler[g].bucket # NoBucket
        => /\ worker[g].at = "none" \/ worker[h].at = "none"
           /\ ~(handler[g].forwarded /\ handler[h].forwarded)

\* The scan of a bucket's worker has read the data of every handler that
\* lost the gate to it: nobody else will be started for them.
LosersScanned ==
    \A g, h \in Handler :
        /\ worker[g].at = "done" /\ handler[h].bucket = worker[g].bucket
        => h \in scanned

\* Once everything has come to rest, data that no worker has read belongs to
\* a bucket whose gate was won by a handler that then found it expired or
\* failed to start its worker, or whose worker was killed: each of them
\* spoils one bucket only.
OnlyExcusedUnscanned ==
    /\ \A h \in Handler : hpc[h] \in {"idle", "done"} /\ worker[h].at \notin {"wait", "clean"}
    => \A h \in Fired \ scanned :
          \/ handler[h].chain
          \/ handler[h].gate = "error"
          \/ \E g \in Handler :
               /\ handler[g].bucket = handler[h].bucket
               /\ handler[g].gate \in {"expired", "error"} \/ worker[g].at = "killed"

\* A wrapper that calls pew again, and may drop the environment, starts at
\* most one handler per bucket: the loop cannot run faster than the clock.
LoopContained == Cardinality({h \in Handler : handler[h].parent}) <= Bucket(admissionNow) + 1

-----------------------------------------------------------------------------
(* The inductive invariant.                                                *)

AdmissionTypeOK ==
    /\ admissionNow \in Nat /\ kills \in Nat
    /\ gates \subseteq GateKind \X Nat
    /\ hpc \in [Handler -> {"idle", "sample", "sync", "recheckSync", "forward",
                           "recheckForward", "done"}]
    /\ handler \in [Handler -> [codex : BOOLEAN, chain : BOOLEAN, bucket : Int,
                                forwarded : BOOLEAN, parent : BOOLEAN,
                                gate : {"none", "loser", "owner", "expired", "error"}]]
    /\ worker \in [Handler -> [at : {"none", "wait", "clean", "done", "killed"},
                               bucket : Int, cutoff : Int, seen : SUBSET (GateKind \X Nat)]]
    /\ calling \subseteq Handler /\ scanned \subseteq Handler

\* What a handler has, from its control point: a bucket once it has sampled
\* the clock, a verdict on its sync gate once it is past it; one that the
\* chain guard stopped has nothing.
PhaseFits(h) ==
    /\ hpc[h] = "idle" => ~handler[h].parent
    /\ hpc[h] \in {"idle", "sample"} => handler[h].bucket = NoBucket
    /\ hpc[h] \in {"sync", "recheckSync", "forward", "recheckForward"} =>
          handler[h].bucket # NoBucket
    /\ hpc[h] \notin {"forward", "recheckForward", "done"} => handler[h].gate = "none"
    /\ hpc[h] \in {"forward", "recheckForward"} => handler[h].gate # "none"
    /\ hpc[h] = "done" /\ ~handler[h].chain => handler[h].gate # "none"
    /\ handler[h].forwarded => hpc[h] = "done"
    /\ handler[h].chain => hpc[h] = "done" /\ handler[h].gate = "none"
    /\ handler[h].gate # "none" \/ handler[h].forwarded => handler[h].bucket # NoBucket
    /\ handler[h].bucket \in -1 .. Bucket(admissionNow)

\* A worker belongs to the handler that owned the gate; one that is past its
\* delay looks at a bucket that is over, and removes only old gates.
WorkerFits(h) ==
    /\ worker[h].at # "none" <=> handler[h].gate = "owner"
    /\ worker[h].at # "none" => worker[h].bucket = handler[h].bucket
    /\ worker[h].at \in {"clean", "done"} => worker[h].bucket < Bucket(admissionNow)
    /\ \A g \in worker[h].seen : g[2] <= Bucket(admissionNow) - Grace

\* h has created the gate of this kind, and may still start or has started
\* the child behind it.
Holds(kind, h) ==
    \/ kind = "sync" /\ (hpc[h] = "recheckSync" \/ worker[h].at # "none")
    \/ kind = "forward" /\ (hpc[h] = "recheckForward" \/ handler[h].forwarded)

\* While its bucket lasts a gate file stays, and has one holder.
GatesHeld ==
    \A kind \in GateKind, g \in Handler :
        Holds(kind, g) /\ InTime(g) =>
            /\ <<kind, handler[g].bucket>> \in gates
            /\ \A h \in Handler : Holds(kind, h) /\ InTime(h) => g = h

\* g has created the sync gate of bucket b.
Created(g, b) ==
    /\ handler[g].bucket = b
    /\ hpc[g] = "recheckSync" \/ handler[g].gate \in {"owner", "expired", "error"}

\* Whoever finds a gate taken was beaten by a handler of the same bucket.
GatesMade ==
    /\ \A b \in Nat : <<"sync", b>> \in gates => \E g \in Handler : Created(g, b)
    /\ \A h \in Handler : handler[h].gate = "loser" =>
          \E g \in Handler : Created(g, handler[h].bucket)

Parents == {h \in Handler : handler[h].parent}
Forwarded == {h \in Handler : handler[h].forwarded}

\* Every call back uses up a forwarded command, and of these there is one per
\* bucket.
LoopFits ==
    /\ IsFiniteSet(Parents) /\ IsFiniteSet(Forwarded) /\ IsFiniteSet(calling)
    /\ calling \subseteq Forwarded
    /\ Cardinality(Parents) + Cardinality(calling) <= Cardinality(Forwarded)

\* The inductive invariant.
AdmissionFits ==
    /\ AdmissionTypeOK
    /\ \A h \in Handler : PhaseFits(h) /\ WorkerFits(h)
    /\ GatesHeld
    /\ GatesMade
    /\ OneChildEach
    /\ LosersScanned
    /\ LoopFits
=============================================================================
