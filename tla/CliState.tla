------------------------------ MODULE CliState -------------------------------
(* What the client keeps beside the token queue (accounting ledger, Hermes
   evidence, the rows a rescan preserves, session snapshots), the upload of
   annotations to the server, the logs of pi, OpenClaw and Copilot, and the
   notifier's stand-alone parts (admission, installed hooks), checked in
   one run: a behaviour belongs to one of them and leaves the variables of
   the others alone.  The parts with theorems of their own are instances,
   the others are extended; the properties are those of all parts together,
   and the proofs that they hold of the smaller parts follow them. *)
EXTENDS Integers, Sequences, FiniteSets, Functions, TLC,
        PreservedRows, HookInstall, NotifyAdmission, HermesEvidence, SessionCollectors,
        SessionStores, TokenParsers, FiniteSetTheorems, WellFoundedInduction, TLAPS

CONSTANTS
    AccountingKey, MaxEvents, AccountingBatch, MaxAccountingFaults, MaxRuns,
    Key, IngestKind, BatchSize, MaxAttempts, Request, MaxLearns, NoRequest

VARIABLES part
VARIABLES log, parsed, row, accountingMarked, ledger, accountingDirty, journal, parser,
          pc, accountingTodo, preview, serverRow, accountingDetails, accountingRevoked,
          late, accountingFaults, runs, written, excused, conflicts, swallowed
VARIABLES rev, ingestDirty, ingestMarked, ingestTodo, ingestBatch, attempts, mine, base,
          ingestDetails, ingestRevoked, req, ingestTroubles

\* Of the four annotations, one is of a retired tool and one of no tool.
MCKind == [a |-> "active", b |-> "active", z |-> "retired", x |-> "invalid"]

Accounting == INSTANCE AccountingLedger WITH
    Key <- AccountingKey, BatchSize <- AccountingBatch, MaxFaults <- MaxAccountingFaults,
    marked <- accountingMarked, dirty <- accountingDirty, todo <- accountingTodo,
    details <- accountingDetails, revoked <- accountingRevoked,
    faults <- accountingFaults
Ingest == INSTANCE WebIngest WITH
    Kind <- IngestKind, None <- NoRequest,
    dirty <- ingestDirty, marked <- ingestMarked, todo <- ingestTodo,
    batch <- ingestBatch, details <- ingestDetails, revoked <- ingestRevoked,
    troubles <- ingestTroubles

accountingVars == <<log, parsed, row, accountingMarked, ledger, accountingDirty,
    journal, parser, pc, accountingTodo, preview, serverRow, accountingDetails,
    accountingRevoked, late, accountingFaults, runs, written, excused, conflicts,
    swallowed>>
ingestVars == <<rev, ingestDirty, ingestMarked, ingestTodo, ingestBatch, attempts, mine,
    base, ingestDetails, ingestRevoked, req, ingestTroubles>>

\* A time bucket lasts; no request is the mark that there is none.
ASSUME AdmissionAssumption == Window \in Nat \ {0}
ASSUME IngestAssumption == NoRequest \notin Request

\* Rows are of one source, and there is something to count.
ASSUME PreservedAssumption ==
    /\ MaxTok \in Nat \ {0}
    /\ CodexKey \cap AntiKey = {} /\ (CodexKey \cup AntiKey) \cap Kept = {}

\* A session's id is no file's name.
ASSUME CollectorAssumption == MaxTime \in Nat /\ Id \cap File = {}

\* Idle is the mark that no pass over the database is under way.
ASSUME StoreAssumption == "idle" \notin StoreId

NoAccounting ==
    /\ log = 0 /\ parsed = 0 /\ row = 0 /\ accountingMarked = 0 /\ ledger = 0
    /\ accountingDirty = 0 /\ journal = 0 /\ parser = 0 /\ pc = 0 /\ accountingTodo = 0
    /\ preview = 0 /\ serverRow = 0 /\ accountingDetails = 0 /\ accountingRevoked = 0
    /\ late = 0 /\ accountingFaults = 0 /\ runs = 0 /\ written = 0 /\ excused = 0
    /\ conflicts = 0 /\ swallowed = 0
NoEvidence ==
    /\ evidenceNow = 0 /\ calls = 0 /\ led = 0 /\ copy = 0 /\ keepsCount = 0
    /\ phase = 0 /\ q = 0 /\ ev = 0 /\ restores = 0 /\ accepted = 0
NoPreserved ==
    /\ codexLog = 0 /\ antiDb = 0 /\ pruned = 0 /\ queue = 0 /\ dirty = 0 /\ usage = 0
    /\ cursors = 0 /\ counted = 0 /\ running = 0 /\ previousKeys = 0 /\ antiSnapshot = 0
    /\ lastSnapshot = 0 /\ basisLost = 0 /\ troubles = 0
NoCollectors ==
    /\ collectorKind = 0 /\ collectorLines = 0 /\ half = 0 /\ collectorCursor = 0
    /\ collectorRows = 0 /\ mixed = 0
NoStores ==
    /\ storeKind = 0 /\ storeNow = 0 /\ msgs = 0 /\ stamp = 0 /\ summary = 0
    /\ signals = 0 /\ inode = 0 /\ storeCursor = 0 /\ storeBatch = 0 /\ storeRows = 0
    /\ emitted = 0 /\ quiet = 0 /\ stamped = 0 /\ masked = 0
NoAdmission ==
    /\ admissionNow = 0 /\ gates = 0 /\ hpc = 0 /\ handler = 0 /\ worker = 0
    /\ calling = 0 /\ scanned = 0 /\ kills = 0
NoHooks ==
    /\ notifyCjs = 0 /\ settings = 0 /\ slot = 0 /\ original = 0 /\ wrapper = 0
    /\ plugin = 0 /\ openclaw = 0 /\ op = 0 /\ sel = 0 /\ at = 0 /\ warned = 0
    /\ changed = 0 /\ snapshot = 0 /\ edits = 0 /\ commands = 0 /\ faults = 0
    /\ wanted = 0 /\ raced = 0 /\ bare = 0 /\ missed = 0
NoParsers ==
    /\ parserKind = 0 /\ parserLines = 0 /\ torn = 0 /\ parserCursor = 0 /\ offset = 0
    /\ deltas = 0 /\ cut = 0
NoIngest ==
    /\ rev = 0 /\ ingestDirty = 0 /\ ingestMarked = 0 /\ ingestTodo = 0
    /\ ingestBatch = 0 /\ attempts = 0 /\ mine = 0 /\ base = 0 /\ ingestDetails = 0
    /\ ingestRevoked = 0 /\ req = 0 /\ ingestTroubles = 0

Init ==
    \/ /\ part = "accounting" /\ Accounting!Init
       /\ NoEvidence /\ NoPreserved /\ NoCollectors /\ NoStores /\ NoAdmission /\ NoHooks /\ NoParsers /\ NoIngest
    \/ /\ part = "evidence" /\ EvidenceInit
       /\ NoAccounting /\ NoPreserved /\ NoCollectors /\ NoStores /\ NoAdmission /\ NoHooks /\ NoParsers /\ NoIngest
    \/ /\ part = "preserved" /\ PreservedInit
       /\ NoAccounting /\ NoEvidence /\ NoCollectors /\ NoStores /\ NoAdmission /\ NoHooks /\ NoParsers /\ NoIngest
    \/ /\ part = "collectors" /\ CollectorsInit
       /\ NoAccounting /\ NoEvidence /\ NoPreserved /\ NoStores /\ NoAdmission /\ NoHooks /\ NoParsers /\ NoIngest
    \/ /\ part = "stores" /\ StoresInit
       /\ NoAccounting /\ NoEvidence /\ NoPreserved /\ NoCollectors /\ NoAdmission /\ NoHooks /\ NoParsers /\ NoIngest
    \/ /\ part = "admission" /\ AdmissionInit
       /\ NoAccounting /\ NoEvidence /\ NoPreserved /\ NoCollectors /\ NoStores /\ NoHooks /\ NoParsers /\ NoIngest
    \/ /\ part = "hooks" /\ HooksInit
       /\ NoAccounting /\ NoEvidence /\ NoPreserved /\ NoCollectors /\ NoStores /\ NoAdmission /\ NoParsers /\ NoIngest
    \/ /\ part = "parsers" /\ ParsersInit
       /\ NoAccounting /\ NoEvidence /\ NoPreserved /\ NoCollectors /\ NoStores /\ NoAdmission /\ NoHooks /\ NoIngest
    \/ /\ part = "ingest" /\ Ingest!IngestInit
       /\ NoAccounting /\ NoEvidence /\ NoPreserved /\ NoCollectors /\ NoStores /\ NoAdmission /\ NoHooks /\ NoParsers

Next ==
    \/ /\ part = "accounting" /\ Accounting!Next
       /\ UNCHANGED <<part, evidenceVars, preservedVars, collectorVars, storeVars, admissionVars, hooksVars, parserVars, ingestVars>>
    \/ /\ part = "evidence" /\ EvidenceNext
       /\ UNCHANGED <<part, accountingVars, preservedVars, collectorVars, storeVars, admissionVars, hooksVars, parserVars, ingestVars>>
    \/ /\ part = "preserved" /\ PreservedNext
       /\ UNCHANGED <<part, accountingVars, evidenceVars, collectorVars, storeVars, admissionVars, hooksVars, parserVars, ingestVars>>
    \/ /\ part = "collectors" /\ CollectorsNext
       /\ UNCHANGED <<part, accountingVars, evidenceVars, preservedVars, storeVars, admissionVars, hooksVars, parserVars, ingestVars>>
    \/ /\ part = "stores" /\ StoresNext
       /\ UNCHANGED <<part, accountingVars, evidenceVars, preservedVars, collectorVars, admissionVars, hooksVars, parserVars, ingestVars>>
    \/ /\ part = "admission" /\ AdmissionNext
       /\ UNCHANGED <<part, accountingVars, evidenceVars, preservedVars, collectorVars, storeVars, hooksVars, parserVars, ingestVars>>
    \/ /\ part = "hooks" /\ HooksNext
       /\ UNCHANGED <<part, accountingVars, evidenceVars, preservedVars, collectorVars, storeVars, admissionVars, parserVars, ingestVars>>
    \/ /\ part = "parsers" /\ ParsersNext
       /\ UNCHANGED <<part, accountingVars, evidenceVars, preservedVars, collectorVars, storeVars, admissionVars, hooksVars, ingestVars>>
    \/ /\ part = "ingest" /\ Ingest!IngestNext
       /\ UNCHANGED <<part, accountingVars, evidenceVars, preservedVars, collectorVars, storeVars, admissionVars, hooksVars, parserVars>>

allVars == <<part, accountingVars, evidenceVars, preservedVars, collectorVars, storeVars, admissionVars, hooksVars, parserVars, ingestVars>>

Spec == Init /\ [][Next]_allVars

\* AccountingKey, File, StoreId and Request are taken from Handler, Model is Id.
Symmetry == Permutations(Handler) \union Permutations(Id)

\* The client never commits a ledger row that its own stores then refuse as
\* conflicting, which would stop every later command.
NeverConflicting ==
    /\ (part = "accounting" => Accounting!NeverConflicting)
    /\ (part = "evidence" => NeverConflictingSnapshot)

\* A row that is no longer marked for upload is on the server as the client
\* means it, and what the server answers for as accepted is what it has
\* stored.
UnmarkedIsStored ==
    /\ (part = "accounting" => Accounting!IntentKept)
    /\ (part = "preserved" => PreservedIsUploaded)
    /\ (part = "ingest" => Ingest!AcceptedIsStored)
    /\ (part = "ingest" => Ingest!StoredIsAccepted)

\* Between two commands the rows agree with what they are about: an
\* annotation with its row, evidence with the totals it explains, a
\* preserved or cleared row with the logs that are left, a session row with
\* its session, a parsed line with the offset behind it.
RowsTellTheTruth ==
    /\ (part = "accounting" => Accounting!DetailsFollowRow)
    /\ (part = "evidence" => Conserved)
    /\ (part = "preserved" => NoInflatedRowLeft)
    /\ (part = "preserved" => ZeroedOnlyIfGone)
    /\ (part = "collectors" => RowIsItsSession)
    /\ (part = "stores" => OthersAreCurrent)
    /\ (part = "stores" => SilentWhenQuiet)
    /\ (part = "parsers" => NothingPassedOver)
    /\ (part = "parsers" => NoLineTwice)

\* The hooks of one bucket (two seconds) start at most one worker between
\* them, and two tools that notify each other do not keep each other going.
OneChildPerBucket ==
    /\ (part = "admission" => OneChildEach)
    /\ (part = "admission" => LoopContained)

\* A hook that starts no worker leaves its data to a worker that is still to
\* scan, except in the cases the handler accepts.
NoLostWakeup ==
    /\ (part = "admission" => LosersScanned)
    /\ (part = "admission" => OnlyExcusedUnscanned)

\* Whatever sequence of installs, uninstalls, edits and failures: no tool is
\* left calling a handler that is gone, the user's own notify command and
\* hooks survive, and no command chain contains itself.
HooksAreSafe ==
    /\ (part = "hooks" => NoDanglingHook)
    /\ (part = "hooks" => OriginalKept)
    /\ (part = "hooks" => NoSeededCycle)
    /\ (part = "hooks" => UserHooksKept)

\* No step puts an older revision, snapshot or session row in the place of a
\* newer one.
NeverOlder ==
    [][/\ (part = "accounting" => Accounting!OnlyNewer)
       /\ (part = "evidence" => EvidenceGrows)
       /\ (part = "collectors" => NoRowShrinks)]_allVars

-----------------------------------------------------------------------------
(* Preserved rows.                                                         *)

PreservedTypeOK ==
    /\ codexLog \in [CodexKey -> Nat] /\ antiDb \in [AntiKey -> Nat]
    /\ pruned \subseteq CodexKey
    /\ queue \in [Row -> Int] /\ usage \in [Row -> Int] /\ dirty \subseteq Row
    /\ cursors \in {"old", "new", "empty"} /\ counted \in [CodexKey -> Nat]
    /\ running \in {"none", "sync", "reset marks", "reset rows"}
    /\ previousKeys \subseteq CodexKey
    /\ antiSnapshot \in [AntiKey -> Nat] \cup {NoSnapshot}
    /\ lastSnapshot \in [AntiKey -> Nat] /\ basisLost \in BOOLEAN

\* A row of Antigravity that never was is not on the server either.
NeverMade == \A k \in AntiKey : queue[k] = Absent => usage[k] = Absent

\* The logs of a bucket that was counted are as long as its count, or gone
\* for good.
PreservedLogsFit ==
    /\ \A k \in CodexKey : /\ codexLog[k] <= MaxTok /\ counted[k] <= MaxTok
                           /\ k \in pruned \/ counted[k] <= codexLog[k]
    /\ \A k \in pruned : codexLog[k] = 0
    /\ cursors # "new" => \A k \in CodexKey : counted[k] = 0

\* Before the rows of the old schema are replaced: who may still have one.
OldRowsFit ==
    /\ cursors = "old" => \A k \in CodexKey :
          /\ queue[k] \in {Inflated, Absent} /\ usage[k] \in {Inflated, Absent}
          /\ queue[k] = Absent => usage[k] = Absent
          /\ queue[k] # Absent => codexLog[k] > 0 \/ k \in pruned
    /\ \A k \in previousKeys : codexLog[k] > 0 \/ k \in pruned
    /\ previousKeys # {} => cursors = "empty" /\ running = "sync"
    /\ cursors = "empty" /\ ~basisLost => \A k \in CodexKey :
          queue[k] = Inflated \/ usage[k] = Inflated => k \in previousKeys

\* After it: the rows are counts of the logs, and a row of the server that
\* is not yet has its replacement marked.
NewRowsFit ==
    /\ \A k \in CodexKey : queue[k] >= Absent /\ (queue[k] = 0 \/ usage[k] = 0 => k \in pruned)
    /\ cursors = "new" => \A k \in CodexKey :
          /\ queue[k] <= counted[k]
          /\ ~basisLost /\ usage[k] = Inflated => k \in dirty /\ queue[k] # Absent

\* A reset writes the cursors first.
ResetsFit == running \in {"reset marks", "reset rows"} => cursors = "empty"

PreservedFits ==
    /\ ResetsFit /\ PreservedTypeOK /\ PreservedIsUploaded /\ NeverMade
    /\ PreservedLogsFit /\ OldRowsFit /\ NewRowsFit


LEMMA PreservedStarts == ASSUME PreservedInit PROVE PreservedFits
  <1>1. PICK had \in SUBSET CodexKey :
           /\ queue = [k \in Row |-> IF k \in had THEN Inflated ELSE IF k \in Kept THEN 1 ELSE Absent]
           /\ cursors = IF had = {} THEN "empty" ELSE "old"
           /\ codexLog \in [CodexKey -> 0..1]
           /\ pruned = {k \in had : codexLog[k] = 0}
    BY DEF PreservedInit
  <1>2. /\ dirty \subseteq Row
        /\ usage = [k \in Row |-> IF k \in dirty THEN Absent ELSE queue[k]]
        /\ antiDb = [k \in AntiKey |-> 0] /\ counted = [k \in CodexKey |-> 0]
        /\ running = "none" /\ previousKeys = {} /\ antiSnapshot = NoSnapshot
        /\ lastSnapshot = [k \in AntiKey |-> 0] /\ basisLost = FALSE
    BY DEF PreservedInit, Present
  <1>3. PreservedTypeOK
    <2>1. codexLog \in [CodexKey -> Nat]
      BY <1>1
    <2>2. Inflated \in Int /\ Absent \in Int /\ 1 \in Int
      BY PreservedAssumption DEF Inflated, Absent
    <2>3. queue \in [Row -> Int]
      BY <1>1, <2>2
    <2>4. usage \in [Row -> Int]
      BY <1>2, <2>2, <2>3
    <2>5. pruned \subseteq CodexKey /\ cursors \in {"old", "new", "empty"}
      BY <1>1
    <2> QED
      BY <1>2, <2>1, <2>3, <2>4, <2>5 DEF PreservedTypeOK
  <1>4. \A k \in Kept : k \in Row /\ queue[k] = 1
    BY PreservedAssumption, <1>1 DEF Row
  <1>5. \A k \in AntiKey : k \in Row /\ queue[k] = Absent /\ usage[k] = Absent
    BY PreservedAssumption, <1>1, <1>2 DEF Row
  <1>6. \A k \in Row : k \notin dirty => usage[k] = queue[k]
    BY <1>2
  <1>7. PreservedIsUploaded /\ NeverMade
    BY <1>2, <1>4, <1>5, <1>6 DEF PreservedIsUploaded, NeverMade, AtLeastZero
  <1>8. PreservedLogsFit
    BY PreservedAssumption, <1>1, <1>2 DEF PreservedLogsFit
  <1>9. \A k \in CodexKey : /\ queue[k] = IF k \in had THEN Inflated ELSE Absent
                            /\ usage[k] \in {queue[k], Absent}
    BY PreservedAssumption, <1>1, <1>2 DEF Row
  <1>10. OldRowsFit
    BY PreservedAssumption, <1>1, <1>2, <1>9 DEF OldRowsFit, Absent, Inflated
  <1>11. NewRowsFit
    BY PreservedAssumption, <1>1, <1>2, <1>9 DEF NewRowsFit, Absent, Inflated
  <1> QED
    BY <1>2, <1>3, <1>7, <1>8, <1>10, <1>11 DEF PreservedFits, ResetsFit

\* The logs and databases change.
LEMMA PreservedWorldFits == ASSUME PreservedFits, Work \/ Forget PROVE PreservedFits'
  <1>1. /\ UNCHANGED <<queue, dirty, usage, cursors, counted, running, previousKeys, antiSnapshot,
                       lastSnapshot, basisLost>>
        /\ PreservedTypeOK /\ PreservedLogsFit /\ OldRowsFit
    BY DEF Work, Forget, PreservedFits
  <1> DEFINE grows(l, p) ==
               /\ l \in [CodexKey -> Nat] /\ pruned \subseteq p /\ p \subseteq CodexKey
               /\ \A k \in CodexKey : /\ l[k] >= codexLog[k] \/ (l[k] = 0 /\ k \in p)
                                      /\ l[k] <= MaxTok
               /\ \A k \in p : l[k] = 0
  <1>a. /\ codexLog \in [CodexKey -> Nat] /\ antiDb \in [AntiKey -> Nat] /\ MaxTok \in Nat
        /\ pruned \subseteq CodexKey /\ counted \in [CodexKey -> Nat]
        /\ \A k \in CodexKey : codexLog[k] <= MaxTok
        /\ \A k \in pruned : codexLog[k] = 0
    BY PreservedAssumption, <1>1 DEF PreservedTypeOK, PreservedLogsFit
  <1>2. grows(codexLog', pruned') /\ antiDb' \in [AntiKey -> Nat]
    <2>1. ASSUME NEW k \in CodexKey \ pruned, codexLog[k] < MaxTok,
                 codexLog' = [codexLog EXCEPT ![k] = @ + 1], pruned' = pruned, antiDb' = antiDb
          PROVE  grows(codexLog', pruned') /\ antiDb' \in [AntiKey -> Nat]
      <3>1. codexLog' \in [CodexKey -> Nat]
        BY <1>a, <2>1
      <3>2. \A i \in CodexKey : codexLog'[i] = IF i = k THEN codexLog[i] + 1 ELSE codexLog[i]
        BY <1>a, <2>1
      <3>3. \A i \in CodexKey : codexLog'[i] >= codexLog[i] /\ codexLog'[i] <= MaxTok
        BY <1>a, <2>1, <3>2
      <3>4. \A i \in pruned : codexLog'[i] = 0
        BY <1>a, <2>1, <3>2
      <3> QED
        BY <1>a, <2>1, <3>1, <3>3, <3>4
    <2>2. ASSUME NEW k \in AntiKey, antiDb' = [antiDb EXCEPT ![k] = @ + 1] \/ antiDb' = [antiDb EXCEPT ![k] = 0],
                 codexLog' = codexLog, pruned' = pruned
          PROVE  grows(codexLog', pruned') /\ antiDb' \in [AntiKey -> Nat]
      <3>1. antiDb' \in [AntiKey -> Nat]
        BY <1>a, <2>2
      <3> QED
        BY <1>a, <2>2, <3>1
    <2>3. ASSUME NEW k \in CodexKey, codexLog' = [codexLog EXCEPT ![k] = 0],
                 pruned' = pruned \cup {k}, antiDb' = antiDb
          PROVE  grows(codexLog', pruned') /\ antiDb' \in [AntiKey -> Nat]
      <3>1. codexLog' \in [CodexKey -> Nat]
        BY <1>a, <2>3
      <3>2. \A i \in CodexKey : codexLog'[i] = IF i = k THEN 0 ELSE codexLog[i]
        BY <1>a, <2>3
      <3> QED
        BY <1>a, <2>3, <3>1, <3>2
    <2> HIDE DEF grows
    <2>4. CASE Work
      BY <2>4, <2>1, <2>2 DEF Work
    <2>5. CASE Forget
      BY <2>5, <2>2, <2>3 DEF Forget
    <2> QED
      BY <2>4, <2>5
  <1>4. PreservedTypeOK'
    BY <1>1, <1>2 DEF PreservedTypeOK, NoSnapshot
  <1>b. \A k \in CodexKey : codexLog[k] \in Nat /\ codexLog'[k] \in Nat /\ counted[k] \in Nat
    BY <1>a, <1>2
  <1>5. PreservedLogsFit'
    <2>1. \A k \in CodexKey : k \in pruned \/ counted[k] <= codexLog[k]
      BY <1>1 DEF PreservedLogsFit
    <2>2. \A k \in CodexKey : k \in pruned' \/ codexLog'[k] >= codexLog[k]
      BY <1>2
    <2>4. pruned \subseteq pruned'
      BY <1>2
    <2>3. \A k \in CodexKey : k \in pruned' \/ counted[k] <= codexLog'[k]
      BY <1>b, <2>1, <2>2, <2>4
    <2> QED
      BY <1>1, <1>2, <2>3 DEF PreservedLogsFit
  <1>6. OldRowsFit'
    <2>1. \A k \in CodexKey : codexLog[k] > 0 \/ k \in pruned => codexLog'[k] > 0 \/ k \in pruned'
      BY <1>b, <1>2
    <2> QED
      BY <1>1, <2>1 DEF OldRowsFit, PreservedTypeOK
  <1>7. NewRowsFit'
    BY <1>1, <1>2 DEF PreservedFits, NewRowsFit
  <1> QED
    BY <1>1, <1>4, <1>5, <1>6, <1>7 DEF PreservedFits, PreservedIsUploaded, NeverMade, ResetsFit

LEMMA PreservedUploadFits == ASSUME PreservedFits, Upload PROVE PreservedFits'
  <1>1. /\ running = "none" /\ dirty' = {}
        /\ usage' = [k \in Row |-> IF k \in dirty /\ queue[k] # Absent THEN queue[k] ELSE usage[k]]
        /\ UNCHANGED <<codexLog, antiDb, pruned, queue, cursors, counted, running, previousKeys, antiSnapshot,
                       lastSnapshot, basisLost>>
    BY DEF Upload, world
  <1>2. PreservedTypeOK /\ PreservedTypeOK'
    BY <1>1 DEF PreservedFits, PreservedTypeOK, NoSnapshot
  <1>3. \A k \in Row : usage'[k] = IF k \in dirty /\ queue[k] # Absent THEN queue[k] ELSE usage[k]
    BY <1>1
  <1>4. PreservedIsUploaded' /\ NeverMade'
    <2>1. \A k \in AntiKey \cup Kept : AtLeastZero(usage'[k]) = AtLeastZero(queue[k])
      <3> TAKE k \in AntiKey \cup Kept
      <3>1. k \in Row
        BY DEF Row
      <3>2. k \notin dirty => AtLeastZero(usage[k]) = AtLeastZero(queue[k])
        BY DEF PreservedFits, PreservedIsUploaded
      <3>3. queue[k] = Absent => usage[k] = Absent
        BY DEF PreservedFits, PreservedIsUploaded, NeverMade, Absent
      <3> QED
        BY <1>3, <3>1, <3>2, <3>3
    <2>2. \A k \in AntiKey : queue[k] = Absent => usage'[k] = Absent
      BY <1>3 DEF PreservedFits, NeverMade, Row
    <2> QED
      BY <1>1, <2>1, <2>2 DEF PreservedFits, PreservedIsUploaded, NeverMade, AtLeastZero
  <1>5. PreservedLogsFit'
    BY <1>1 DEF PreservedFits, PreservedLogsFit
  <1>6. OldRowsFit'
    BY <1>1, <1>3 DEF PreservedFits, OldRowsFit, Row
  <1>7. NewRowsFit'
    <2>1. \A k \in CodexKey : queue[k] <= counted[k] => queue[k] # Inflated
      <3>1. \A k \in CodexKey : counted[k] \in Nat /\ queue[k] \in Int /\ counted[k] <= MaxTok
        BY <1>2 DEF PreservedTypeOK, Row, PreservedFits, PreservedLogsFit
      <3> QED
        BY PreservedAssumption, <3>1 DEF Inflated
    <2> QED
      BY <1>1, <1>2, <1>3, <2>1 DEF PreservedFits, NewRowsFit, Row, PreservedTypeOK
  <1> QED
    BY <1>1, <1>2, <1>4, <1>5, <1>6, <1>7 DEF PreservedFits, ResetsFit

LEMMA PreservedStartFits == ASSUME PreservedFits, StartSync \/ Wipe \/ Rescan PROVE PreservedFits'
  <1>1. /\ UNCHANGED <<codexLog, antiDb, pruned, queue, dirty, usage, lastSnapshot>>
        /\ PreservedTypeOK
    BY DEF StartSync, Wipe, Rescan, world, PreservedFits
  <1>2. PreservedIsUploaded' /\ NeverMade'
    BY <1>1 DEF PreservedFits, PreservedIsUploaded, NeverMade
  <1>3. CASE StartSync
    <2>1. /\ running = "none" /\ running' = "sync" /\ antiSnapshot' \in {antiDb, NoSnapshot}
          /\ UNCHANGED <<cursors, counted, previousKeys, basisLost>>
      BY <1>3 DEF StartSync
    <2>2. PreservedTypeOK'
      BY <1>1, <2>1 DEF PreservedTypeOK, NoSnapshot
    <2>3. PreservedLogsFit' /\ OldRowsFit' /\ NewRowsFit'
      BY <1>1, <2>1 DEF PreservedFits, PreservedLogsFit, OldRowsFit, NewRowsFit
    <2> QED
      BY <1>2, <2>1, <2>2, <2>3 DEF PreservedFits, ResetsFit
  <1>4. CASE Wipe
    <2>1. /\ running = "sync" /\ cursors = "old" /\ cursors' = "empty"
          /\ previousKeys' = {k \in CodexKey : queue[k] # Absent}
          /\ counted' = [k \in CodexKey |-> 0]
          /\ UNCHANGED <<running, antiSnapshot, basisLost>>
      BY <1>4 DEF Wipe, Present
    <2>2. PreservedTypeOK'
      BY <1>1, <2>1 DEF PreservedTypeOK, NoSnapshot
    <2>3. PreservedLogsFit'
      BY PreservedAssumption, <1>1, <2>1 DEF PreservedFits, PreservedLogsFit, PreservedTypeOK
    <2>4. OldRowsFit'
      BY PreservedAssumption, <1>1, <2>1 DEF PreservedFits, OldRowsFit, Inflated, Absent
    <2>5. NewRowsFit'
      BY <1>1, <2>1 DEF PreservedFits, NewRowsFit
    <2> QED
      BY <1>2, <2>1, <2>2, <2>3, <2>4, <2>5 DEF PreservedFits, ResetsFit
  <1>5. CASE Rescan
    <2>1. /\ running = "sync" /\ cursors = "new" /\ cursors' = "empty"
          /\ basisLost' = (basisLost \/ ZerosDue)
          /\ counted' = [k \in CodexKey |-> 0]
          /\ UNCHANGED <<running, antiSnapshot, previousKeys>>
      BY <1>5 DEF Rescan
    <2>2. PreservedTypeOK'
      BY <1>1, <2>1 DEF PreservedTypeOK, NoSnapshot
    <2>3. PreservedLogsFit'
      BY PreservedAssumption, <1>1, <2>1 DEF PreservedFits, PreservedLogsFit, PreservedTypeOK
    <2>4. \A k \in CodexKey : queue[k] # Inflated
      BY PreservedAssumption, <1>1, <2>1 DEF PreservedFits, PreservedLogsFit, NewRowsFit, Inflated, PreservedTypeOK, Row
    <2>5. OldRowsFit'
      BY <1>1, <2>1, <2>4 DEF PreservedFits, OldRowsFit, ZerosDue, PreservedTypeOK
    <2>6. NewRowsFit'
      BY <1>1, <2>1 DEF PreservedFits, NewRowsFit
    <2> QED
      BY <1>2, <2>1, <2>2, <2>3, <2>5, <2>6 DEF PreservedFits, ResetsFit
  <1> QED
    BY <1>3, <1>4, <1>5

\* A commit of the logs that could be parsed.
LEMMA PreservedCommitFits ==
    ASSUME PreservedFits, NEW readable, readable \subseteq {k \in CodexKey : codexLog[k] > 0}, Commit(readable)
    PROVE  PreservedFits'
  <1> DEFINE full == cursors = "empty"
             fresh == {k \in readable : codexLog[k] > counted[k]}
             zeros == IF full THEN Reconciled(readable) ELSE {}
             start(k) == IF full \/ queue[k] = Absent THEN 0 ELSE queue[k]
             sum(k) == start(k) + codexLog[k] - counted[k]
             newRow(k) == CASE k \in Kept -> queue[k]
                             [] k \in AntiKey -> Partition(k)
                             [] k \in fresh -> sum(k)
                             [] k \in zeros -> 0
                             [] OTHER -> IF full THEN Absent ELSE queue[k]
  <1>1. /\ running = "sync" /\ cursors # "old" /\ running' = "none"
        /\ dirty' = fresh \cup zeros \cup AntiChanged \cup (IF full THEN RetainedDirty ELSE dirty)
        /\ counted' = [k \in CodexKey |-> IF k \in readable THEN codexLog[k] ELSE counted[k]]
        /\ cursors' = "new" /\ previousKeys' = {} /\ antiSnapshot' = NoSnapshot
        /\ lastSnapshot' = (IF antiSnapshot = NoSnapshot THEN lastSnapshot ELSE antiSnapshot)
        /\ basisLost' = (basisLost \/ (previousKeys # {} /\ ~FullyRescanned(readable)))
        /\ UNCHANGED <<codexLog, antiDb, pruned, usage>>
    <2>1. fresh \subseteq CodexKey
      OBVIOUS
    <2> QED
      BY <2>1 DEF Commit, world
  <1>q. queue' = [k \in Row |-> queue'[k]] /\ \A k \in Row : queue'[k] = newRow(k)
    <2>1. fresh \subseteq CodexKey
      OBVIOUS
    <2> QED
      BY <2>1 DEF Commit
  <1>2. PreservedTypeOK /\ PreservedLogsFit /\ OldRowsFit /\ NewRowsFit /\ NeverMade /\ PreservedIsUploaded
    BY DEF PreservedFits
  <1>3. \A k \in CodexKey : /\ codexLog[k] \in Nat /\ counted[k] \in Nat
                            /\ queue[k] \in Int /\ usage[k] \in Int
                            /\ codexLog[k] <= MaxTok /\ counted[k] <= MaxTok
                            /\ k \in pruned \/ counted[k] <= codexLog[k]
                            /\ k \in pruned => codexLog[k] = 0
    BY <1>2 DEF PreservedTypeOK, PreservedLogsFit, Row
  <1>4. /\ zeros \subseteq CodexKey /\ fresh \subseteq CodexKey /\ fresh \subseteq readable
        /\ \A k \in zeros : k \notin readable /\ codexLog[k] = 0 /\ k \in pruned
    <2>1. fresh \subseteq CodexKey /\ fresh \subseteq readable
      OBVIOUS
    <2>2. ASSUME NEW k \in zeros
          PROVE  k \in CodexKey /\ k \notin readable /\ codexLog[k] = 0 /\ k \in pruned
      <3>1. k \in previousKeys /\ k \notin readable /\ readable = {i \in CodexKey : codexLog[i] > 0}
        BY DEF Reconciled, FullyRescanned
      <3>2. k \in CodexKey
        BY <1>2, <3>1 DEF PreservedTypeOK
      <3>3. codexLog[k] = 0
        BY <1>3, <3>1, <3>2
      <3> QED
        BY <1>2, <3>1, <3>2, <3>3 DEF OldRowsFit
    <2> QED
      BY <2>1, <2>2
  <1> HIDE DEF full, fresh, zeros, start, sum, newRow
  <1>e. /\ \A k \in Kept : k \in Row
        /\ \A k \in AntiKey : k \in Row /\ k \notin Kept
        /\ \A k \in CodexKey : k \in Row /\ k \notin Kept /\ k \notin AntiKey
    BY PreservedAssumption DEF Row
  <1>5. \A k \in Kept : k \in Row /\ queue'[k] = queue[k]
    BY <1>q, <1>4, <1>e DEF newRow
  <1>6. \A k \in AntiKey : k \in Row /\ queue'[k] = Partition(k)
    BY <1>q, <1>4, <1>e DEF newRow
  <1>7. \A k \in CodexKey :
           /\ k \in fresh => queue'[k] = start(k) + codexLog[k] - counted[k]
           /\ k \in zeros \ fresh => queue'[k] = 0
           /\ k \notin fresh /\ k \notin zeros => queue'[k] = IF full THEN Absent ELSE queue[k]
    <2> TAKE k \in CodexKey
    <2>0. k \in Row /\ k \notin Kept /\ k \notin AntiKey
      BY <1>e
    <2>1. k \in fresh => queue'[k] = start(k) + codexLog[k] - counted[k]
      <3>1. k \in fresh => newRow(k) = sum(k)
        BY <1>4, <2>0 DEF newRow
      <3>2. queue'[k] = newRow(k)
        BY <1>q, <2>0, Zenon
      <3> QED
        BY <3>1, <3>2 DEF sum
    <2>2. k \notin fresh /\ k \in zeros => queue'[k] = 0
      BY <1>q, <1>4, <2>0 DEF newRow
    <2>3. k \notin fresh /\ k \notin zeros => queue'[k] = IF full THEN Absent ELSE queue[k]
      BY <1>q, <1>4, <2>0 DEF newRow
    <2> QED
      BY <2>1, <2>2, <2>3
  <1>8. \A k \in AntiKey : queue[k] \in Int /\ usage[k] \in Int /\ lastSnapshot[k] \in Nat
                           /\ (antiSnapshot # NoSnapshot => antiSnapshot \in [AntiKey -> Nat] /\ antiSnapshot[k] \in Nat)
    BY <1>2 DEF PreservedTypeOK, Row
  <1>9. \A k \in Kept : queue[k] \in Int
    BY <1>2 DEF PreservedTypeOK, Row
  <1>10. \A k \in CodexKey : start(k) \in Nat
    BY <1>2, <1>3 DEF NewRowsFit, Absent, start
  <1>11. \A k \in CodexKey : queue'[k] \in Int
    BY <1>3, <1>7, <1>10 DEF Absent
  <1>12. \A k \in AntiKey : Partition(k) \in Int
    BY <1>8 DEF Partition, Absent
  <1>13. PreservedTypeOK'
    <2>1. queue' \in [Row -> Int]
      <3>1. \A k \in Row : queue'[k] \in Int
        BY <1>5, <1>6, <1>9, <1>11, <1>12 DEF Row
      <3>2. queue' = [k \in Row |-> queue'[k]]
        BY <1>q
      <3> QED
        BY <3>1, <3>2
    <2>2. dirty' \subseteq Row
      BY <1>1, <1>2, <1>4 DEF Row, AntiChanged, RetainedDirty, PreservedTypeOK
    <2>3. counted' \in [CodexKey -> Nat]
      BY <1>1, <1>3
    <2>4. lastSnapshot' \in [AntiKey -> Nat]
      BY <1>1, <1>2 DEF PreservedTypeOK
    <2>5. basisLost' \in BOOLEAN
      BY <1>1
    <2>6. NoSnapshot' = NoSnapshot
      BY DEF NoSnapshot
    <2> QED
      BY <1>1, <1>2, <2>1, <2>2, <2>3, <2>4, <2>5, <2>6 DEF PreservedTypeOK
  <1>14. PreservedIsUploaded' /\ NeverMade'
    <2>1. \A k \in AntiKey : /\ AtLeastZero(queue'[k]) = lastSnapshot'[k]
                             /\ queue'[k] = Absent => queue[k] = Absent
      <3> TAKE k \in AntiKey
      <3>1. AtLeastZero(queue[k]) = lastSnapshot[k]
        BY <1>2 DEF PreservedIsUploaded
      <3>2. CASE antiSnapshot = NoSnapshot
        <4>1. queue'[k] = queue[k] /\ lastSnapshot' = lastSnapshot
          BY <1>1, <1>6, <3>2 DEF Partition
        <4> QED
          BY <3>1, <4>1
      <3>3. CASE antiSnapshot # NoSnapshot
        BY <1>1, <1>6, <1>8, <3>3 DEF Partition, AtLeastZero, Absent
      <3> QED
        BY <3>2, <3>3
    <2>2. \A k \in AntiKey \cup Kept : k \notin dirty' => AtLeastZero(usage[k]) = AtLeastZero(queue'[k])
      <3> SUFFICES ASSUME NEW k \in AntiKey \cup Kept, k \notin dirty'
                   PROVE  AtLeastZero(usage[k]) = AtLeastZero(queue'[k])
        OBVIOUS
      <3>1. queue'[k] = queue[k]
        BY <1>1, <1>5, <1>6 DEF AntiChanged
      <3>2. k \notin dirty \/ queue[k] = Absent
        BY <1>1 DEF RetainedDirty, Present
      <3>3. CASE k \notin dirty
        BY <1>2, <3>1, <3>3 DEF PreservedIsUploaded
      <3>4. CASE queue[k] = Absent
        <4>1. k \in AntiKey
          BY <1>2, <3>4 DEF PreservedIsUploaded, Absent
        <4> QED
          BY <1>2, <3>1, <3>4, <4>1 DEF NeverMade
      <3> QED
        BY <3>2, <3>3, <3>4
    <2>3. \A k \in Kept : queue'[k] = 1
      BY <1>2, <1>5 DEF PreservedIsUploaded
    <2> QED
      BY <1>1, <1>2, <2>1, <2>2, <2>3 DEF PreservedIsUploaded, NeverMade, AtLeastZero
  <1>15. PreservedLogsFit'
    <2>1. \A k \in CodexKey : counted'[k] \in {codexLog[k], counted[k]}
      BY <1>1
    <2>2. \A k \in CodexKey : k \in pruned \/ counted'[k] <= codexLog[k]
      BY <1>3, <2>1
    <2> QED
      BY <1>1, <1>2, <1>3, <2>1, <2>2 DEF PreservedLogsFit
  <1>16. OldRowsFit'
    BY <1>1 DEF OldRowsFit
  <1>17. NewRowsFit'
    <2> SUFFICES ASSUME NEW k \in CodexKey
                 PROVE  /\ queue'[k] >= Absent /\ (queue'[k] = 0 \/ usage[k] = 0 => k \in pruned)
                        /\ queue'[k] <= counted'[k]
                        /\ ~basisLost' /\ usage[k] = Inflated => k \in dirty' /\ queue'[k] # Absent
      BY <1>1 DEF NewRowsFit
    <2>1. counted'[k] = IF k \in readable THEN codexLog[k] ELSE counted[k]
      BY <1>1
    <2>2. /\ queue[k] >= Absent /\ (queue[k] = 0 \/ usage[k] = 0 => k \in pruned)
          /\ ~full => /\ queue[k] <= counted[k]
                      /\ ~basisLost /\ usage[k] = Inflated => k \in dirty /\ queue[k] # Absent
      BY <1>1, <1>2 DEF NewRowsFit, full, PreservedTypeOK
    <2>3. full => counted[k] = 0
      BY <1>2 DEF PreservedLogsFit, full
    <2>4. start(k) = IF full \/ queue[k] = Absent THEN 0 ELSE queue[k]
      BY DEF start
    <2>5. k \in fresh <=> k \in readable /\ codexLog[k] > counted[k]
      BY DEF fresh
    <2>6. CASE k \in fresh
      <3>1. queue'[k] = start(k) + codexLog[k] - counted[k]
        BY <1>7, <2>6
      <3>2. start(k) <= counted[k] /\ start(k) \in Nat
        BY <1>3, <1>10, <2>2, <2>3, <2>4
      <3>3. queue'[k] > 0 /\ queue'[k] <= codexLog[k] /\ counted'[k] = codexLog[k]
        BY <1>3, <2>1, <2>5, <2>6, <3>1, <3>2
      <3>4. k \in dirty'
        BY <1>1, <2>6
      <3>5. queue'[k] \in Int /\ counted'[k] \in Int
        BY <1>3, <1>11, <2>1
      <3> QED
        BY <1>1, <1>3, <2>2, <3>3, <3>4, <3>5 DEF Absent
    <2>7. CASE k \notin fresh /\ k \in zeros
      BY <1>1, <1>3, <1>4, <1>7, <2>1, <2>7 DEF Absent
    <2>8. CASE k \notin fresh /\ k \notin zeros /\ full
      <3>1. queue'[k] = Absent
        BY <1>7, <2>8
      <3>2. counted'[k] \in Nat
        BY <1>3, <2>1
      <3>3. ~basisLost' => usage[k] # Inflated
        <4> SUFFICES ASSUME ~basisLost', usage[k] = Inflated PROVE FALSE
          OBVIOUS
        <4>1. k \in previousKeys
          BY <1>1, <1>2, <2>8 DEF OldRowsFit, full
        <4>2. FullyRescanned(readable)
          BY <1>1, <4>1
        <4>3. k \in readable
          BY <2>8, <4>1, <4>2 DEF zeros, Reconciled
        <4>4. codexLog[k] > counted[k]
          BY <1>3, <2>3, <2>8, <4>3
        <4> QED
          BY <2>5, <2>8, <4>3, <4>4
      <3> QED
        BY <2>2, <3>1, <3>2, <3>3 DEF Absent
    <2>9. CASE k \notin fresh /\ k \notin zeros /\ ~full
      <3>1. queue'[k] = queue[k]
        BY <1>7, <2>9
      <3>2. counted[k] <= counted'[k]
        BY <1>3, <2>1, <2>5
      <3>3. queue'[k] <= counted'[k]
        BY <1>1, <1>3, <2>1, <2>2, <2>9, <3>1, <3>2
      <3> QED
        BY <1>1, <1>3, <2>2, <2>9, <3>1, <3>3
    <2> QED
      BY <2>6, <2>7, <2>8, <2>9
  <1> QED
    BY <1>1, <1>2, <1>13, <1>14, <1>15, <1>16, <1>17 DEF PreservedFits, ResetsFit

LEMMA PreservedResetFits ==
    ASSUME PreservedFits, ResetCursors \/ ResetMarks \/ ResetRows \/ KillSync PROVE PreservedFits'
  <1>1. /\ UNCHANGED <<codexLog, antiDb, pruned, usage, lastSnapshot>>
        /\ PreservedTypeOK /\ PreservedLogsFit /\ OldRowsFit /\ NewRowsFit /\ NeverMade /\ PreservedIsUploaded
        /\ ResetsFit
    BY DEF ResetCursors, ResetMarks, ResetRows, KillSync, world, PreservedFits
  <1>n. NoSnapshot' = NoSnapshot
    BY DEF NoSnapshot
  <1>2. CASE ResetCursors
    <2>1. /\ running = "none" /\ running' = "reset marks" /\ cursors' = "empty"
          /\ basisLost' = (basisLost \/ cursors = "old" \/ ZerosDue)
          /\ counted' = [k \in CodexKey |-> 0]
          /\ UNCHANGED <<queue, dirty, previousKeys, antiSnapshot>>
      BY <1>2 DEF ResetCursors
    <2>2. PreservedTypeOK'
      <3>1. counted' \in [CodexKey -> Nat]
        BY <2>1
      <3>2. basisLost' \in BOOLEAN
        BY <1>1, <2>1 DEF PreservedTypeOK
      <3> QED
        BY <1>1, <1>n, <2>1, <3>1, <3>2 DEF PreservedTypeOK
    <2>3. PreservedLogsFit'
      <3>1. \A k \in CodexKey : counted'[k] = 0
        BY <2>1
      <3>2. \A k \in CodexKey : codexLog[k] \in Nat
        BY <1>1 DEF PreservedTypeOK
      <3> QED
        <4>1. 0 <= MaxTok /\ \A k \in CodexKey : 0 <= codexLog[k]
          BY PreservedAssumption, <3>2
        <4> QED
          BY <1>1, <2>1, <3>1, <4>1 DEF PreservedLogsFit
    <2>4. cursors = "new" => \A k \in CodexKey : queue[k] # Inflated
      <3>1. \A k \in CodexKey : counted[k] \in Nat /\ queue[k] \in Int /\ counted[k] <= MaxTok
        BY <1>1 DEF PreservedTypeOK, Row, PreservedLogsFit
      <3> QED
        BY PreservedAssumption, <1>1, <3>1 DEF NewRowsFit, Inflated
    <2>5. OldRowsFit'
      BY <1>1, <2>1, <2>4 DEF OldRowsFit, ZerosDue, PreservedTypeOK
    <2>6. NewRowsFit'
      BY <1>1, <2>1 DEF NewRowsFit
    <2>7. PreservedIsUploaded' /\ NeverMade'
      BY <1>1, <2>1 DEF PreservedIsUploaded, NeverMade
    <2> QED
      BY <2>1, <2>2, <2>3, <2>5, <2>6, <2>7 DEF PreservedFits, ResetsFit
  <1>3. CASE ResetMarks
    <2>1. /\ running = "reset marks" /\ running' = "reset rows" /\ dirty' = dirty \cap RowsToKeep
          /\ UNCHANGED <<queue, cursors, counted, previousKeys, antiSnapshot, basisLost>>
      BY <1>3 DEF ResetMarks
    <2>2. PreservedTypeOK'
      BY <1>1, <1>n, <2>1 DEF PreservedTypeOK
    <2>3. PreservedLogsFit' /\ OldRowsFit'
      BY <1>1, <2>1 DEF PreservedLogsFit, OldRowsFit
    <2>4. cursors = "empty"
      BY <1>1, <2>1 DEF ResetsFit
    <2>5. NewRowsFit'
      BY <1>1, <2>1, <2>4 DEF NewRowsFit
    <2>6. ASSUME NEW k \in AntiKey \cup Kept, k \notin dirty'
          PROVE  AtLeastZero(usage[k]) = AtLeastZero(queue[k])
      <3>1. CASE k \notin dirty
        BY <1>1, <3>1 DEF PreservedIsUploaded
      <3>2. CASE k \in dirty
        <4>1. queue[k] = Absent
          BY <2>1, <2>6, <3>2 DEF RowsToKeep, Present
        <4>2. k \in AntiKey
          BY <1>1, <4>1 DEF PreservedIsUploaded, Absent
        <4> QED
          BY <1>1, <4>1, <4>2 DEF NeverMade
      <3> QED
        BY <3>1, <3>2
    <2>7. PreservedIsUploaded' /\ NeverMade'
      BY <1>1, <2>1, <2>6 DEF PreservedIsUploaded, NeverMade, AtLeastZero
    <2>8. ResetsFit'
      BY <2>1, <2>4 DEF ResetsFit
    <2> QED
      BY <2>2, <2>3, <2>5, <2>7, <2>8 DEF PreservedFits
  <1>4. CASE ResetRows
    <2>1. /\ running = "reset rows" /\ running' = "none"
          /\ queue' = [k \in Row |-> IF k \in RowsToKeep THEN queue[k] ELSE Absent]
          /\ UNCHANGED <<dirty, cursors, counted, previousKeys, antiSnapshot, basisLost>>
      BY <1>4 DEF ResetRows
    <2>2. /\ \A k \in Row : queue[k] \in Int
          /\ \A k \in AntiKey \cup Kept : queue'[k] = queue[k]
          /\ \A k \in CodexKey : queue'[k] = Absent
      BY PreservedAssumption, <1>1, <2>1 DEF PreservedTypeOK, Row, RowsToKeep, Present
    <2>3. PreservedTypeOK'
      <3>1. queue' \in [Row -> Int]
        <4>1. Absent \in Int
          BY DEF Absent
        <4> QED
          BY <2>1, <2>2, <4>1
      <3> QED
        BY <1>1, <1>n, <2>1, <3>1 DEF PreservedTypeOK
    <2>4. cursors = "empty"
      BY <1>1, <2>1 DEF ResetsFit
    <2>5. PreservedLogsFit'
      BY <1>1, <2>1 DEF PreservedLogsFit
    <2>9. OldRowsFit'
      <3>1. Absent # Inflated
        BY PreservedAssumption DEF Absent, Inflated
      <3> QED
        BY <1>1, <2>1, <2>2, <2>4, <3>1 DEF OldRowsFit
    <2>6. NewRowsFit'
      <3>1. Absent >= Absent /\ Absent # 0
        BY DEF Absent
      <3>2. \A k \in CodexKey : usage'[k] = 0 => k \in pruned'
        BY <1>1 DEF NewRowsFit
      <3>3. \A k \in CodexKey : queue'[k] >= Absent /\ queue'[k] # 0
        BY <2>2, <3>1
      <3>4. cursors' # "new"
        BY <2>1, <2>4
      <3> QED
        BY <3>2, <3>3, <3>4 DEF NewRowsFit
    <2>7. PreservedIsUploaded' /\ NeverMade'
      BY <1>1, <2>1, <2>2 DEF PreservedIsUploaded, NeverMade, AtLeastZero
    <2>8. ResetsFit'
      BY <2>1, <2>4 DEF ResetsFit
    <2> QED
      BY <2>3, <2>5, <2>6, <2>7, <2>8, <2>9 DEF PreservedFits
  <1>5. CASE KillSync
    <2>1. /\ running' = "none"
          /\ basisLost' = (basisLost \/ previousKeys # {}) /\ previousKeys' = {} /\ antiSnapshot' = NoSnapshot
          /\ UNCHANGED <<queue, dirty, cursors, counted>>
      BY <1>5 DEF KillSync
    <2>2. PreservedTypeOK'
      BY <1>1, <1>n, <2>1 DEF PreservedTypeOK
    <2>3. PreservedLogsFit' /\ NewRowsFit' /\ OldRowsFit'
      BY <1>1, <2>1 DEF PreservedLogsFit, NewRowsFit, OldRowsFit, PreservedTypeOK
    <2>4. PreservedIsUploaded' /\ NeverMade'
      BY <1>1, <2>1 DEF PreservedIsUploaded, NeverMade
    <2> QED
      BY <2>1, <2>2, <2>3, <2>4 DEF PreservedFits, ResetsFit
  <1> QED
    BY <1>1, <1>2, <1>3, <1>4, <1>5

LEMMA PreservedStep == ASSUME PreservedFits, [PreservedNext]_preservedVars PROVE PreservedFits'
  <1>1. CASE SyncCommit
    <2>1. PICK readable : readable \subseteq {k \in CodexKey : codexLog[k] > 0} /\ Commit(readable)
      BY <1>1 DEF SyncCommit
    <2> QED
      BY <2>1, PreservedCommitFits
  <1>2. CASE UNCHANGED preservedVars
    BY <1>2 DEF preservedVars, world, PreservedFits, PreservedTypeOK, NoSnapshot, ResetsFit, PreservedIsUploaded, NeverMade, PreservedLogsFit, OldRowsFit, NewRowsFit
  <1> QED
    BY <1>1, <1>2, PreservedWorldFits, PreservedUploadFits, PreservedStartFits, PreservedResetFits DEF PreservedNext

LEMMA PreservedImplies == ASSUME PreservedFits PROVE PreservedIsUploaded /\ NoInflatedRowLeft /\ ZeroedOnlyIfGone
  <1>1. \A k \in CodexKey : counted[k] \in Nat /\ queue[k] \in Int /\ counted[k] <= MaxTok
    BY DEF PreservedFits, PreservedTypeOK, Row, PreservedLogsFit
  <1>2. \A k \in CodexKey : queue[k] <= counted[k] => queue[k] # Inflated
    BY PreservedAssumption, <1>1 DEF Inflated
  <1> QED
    BY <1>2 DEF PreservedFits, NewRowsFit, PreservedTypeOK, NoInflatedRowLeft, ZeroedOnlyIfGone

-----------------------------------------------------------------------------
(* Installed hooks.                                                        *)

EntriesOf == [Entry -> Nat]
Config == [file : {"missing", "ok", "invalid"}, entries : EntriesOf]

HooksTypeOK ==
    /\ notifyCjs \in {"absent", "pew", "old", "unmarked"}
    /\ settings \in Config /\ snapshot \in Config
    /\ slot \in {"missing", "none", "legacy", "pew", "wrapper"}
    /\ original \in {NoFile, "wrapper", "torn"}
    /\ wrapper \in {NoFile, "none", "legacy", "pew"}
    /\ plugin \in [Plugin -> {"absent", "pew", "user"}]
    /\ openclaw \in [file : {"missing", "ok"}, registered : BOOLEAN, files : BOOLEAN]
    /\ op \in {"none", "init", "uninstall", "unlinked"}
    /\ at \in [Hooks -> {"todo", "read", "saved", "restored", "done"}]
    /\ raced \in BOOLEAN /\ wanted \in BOOLEAN /\ bare \in BOOLEAN

\* A tool's configuration names pew, readable or not.
NamesPew(s) ==
    \/ s = "claude" /\ PewEntries(settings.entries) > 0
    \/ s = "codex" /\ slot \in PewOwned
    \/ s = "openclaw" /\ openclaw.registered
    \/ s \in Plugin /\ plugin[s] = "pew"

\* A driver of an uninstall that is done has cleaned its tool or says so.
DriversFit ==
    /\ op = "init" => notifyCjs = "pew"
    /\ notifyCjs = "absent" => \A s \in Hooks \ missed : ~NamesPew(s)
    /\ op = "uninstall" /\ Full => \A s \in Hooks \ (missed \cup warned) : at[s] = "done" => ~NamesPew(s)

\* settings.json as it was read is settings.json, but for an edit in between.
SettingsFit ==
    /\ \A f \in {settings, snapshot} : f.file = "missing" => f.entries = NoEntries
    /\ at["claude"] = "read" => /\ op \in {"init", "uninstall"}
                                /\ ~raced => snapshot = settings
                                /\ PewEntries(settings.entries) > 0 <=> PewEntries(snapshot.entries) > 0

\* Codex's slot and the backup: who holds the wrapper's command.
Seeded == wrapper \in PewOwned /\ ~bare
SlotFits ==
    /\ op \in {"none", "unlinked"} => \A s \in Hooks : at[s] = "done"
    /\ at["codex"] = "saved" => op = "init" /\ (slot = "wrapper" => original = "wrapper") /\ ~Seeded
    /\ at["codex"] = "restored" =>
          op = "uninstall" /\ slot = (IF original = NoFile THEN "none" ELSE original) /\ ~Seeded
    /\ op \in {"uninstall", "unlinked"} /\ "codex" \in changed => (wrapper # NoFile => slot = "wrapper") /\ ~Seeded
    /\ Seeded => slot = "wrapper" /\ original # NoFile

HooksFit ==
    /\ HooksTypeOK /\ DriversFit /\ SettingsFit /\ SlotFits
    /\ OriginalKept /\ NoSeededCycle /\ UserHooksKept

\* What the edits of settings.json make of its entries.
LEMMA EntriesEdited ==
    ASSUME NEW n \in EntriesOf
    PROVE  /\ WithPew(n) \in EntriesOf /\ PewEntries(WithPew(n)) > 0
           /\ UserEntries(WithPew(n)) = UserEntries(n)
           /\ PewEntries(n) <= 1 => PewEntries(WithPew(n)) <= 1
           /\ WithoutPew(n) \in EntriesOf /\ PewEntries(WithoutPew(n)) = 0
           /\ UserEntries(WithoutPew(n)) = UserEntries(n)
           /\ PewEntries(n) \in Nat /\ UserEntries(n) \in Nat
  <1>1. n["user"] \in Nat /\ n["pew"] \in Nat /\ n["both"] \in Nat
    BY DEF EntriesOf, Entry
  <1>2. CASE PewEntries(n) > 0
    BY <1>1, <1>2 DEF EntriesOf, Entry, WithPew, WithoutPew, NoEntries, PewEntries, UserEntries
  <1>3. CASE ~(PewEntries(n) > 0)
    BY <1>1, <1>3 DEF EntriesOf, Entry, WithPew, WithoutPew, NoEntries, PewEntries, UserEntries
  <1> QED
    BY <1>2, <1>3

LEMMA EntriesAlone ==
    /\ NoEntries \in EntriesOf /\ PewEntries(NoEntries) = 0 /\ UserEntries(NoEntries) = 0
    /\ Alone("user") \in EntriesOf /\ PewEntries(Alone("user")) = 0 /\ UserEntries(Alone("user")) = 1
    /\ Alone("both") \in EntriesOf /\ PewEntries(Alone("both")) = 1 /\ UserEntries(Alone("both")) = 1
  BY DEF EntriesOf, Entry, NoEntries, Alone, PewEntries, UserEntries

LEMMA HooksStart == ASSUME HooksInit PROVE HooksFit
  <1> USE EntriesAlone DEF HooksInit
  <1>1. HooksTypeOK
    <2>1. settings \in Config /\ snapshot \in Config
      BY DEF Config
    <2>2. plugin \in [Plugin -> {"absent", "pew", "user"}]
      OBVIOUS
    <2>3. wanted \in BOOLEAN
      OBVIOUS
    <2> QED
      BY <2>1, <2>2, <2>3 DEF HooksTypeOK, NoFile
  <1>2. PewEntries(settings.entries) = 0
    OBVIOUS
  <1>3. DriversFit
    <2>1. op = "none" /\ ~openclaw.registered
      OBVIOUS
    <2>2. notifyCjs = "absent" => slot \notin PewOwned /\ \A p \in Plugin : plugin[p] = "absent"
      BY DEF PewOwned
    <2> QED
      BY <1>2, <2>1, <2>2 DEF DriversFit, NamesPew
  <1>4. SettingsFit
    <2>1. settings.file = "missing" => settings.entries = NoEntries
      OBVIOUS
    <2> QED
      BY <2>1 DEF SettingsFit, Hooks, Source
  <1>5. SlotFits
    BY DEF SlotFits, Seeded, NoFile, PewOwned, Hooks, Source
  <1>6. OriginalKept /\ NoSeededCycle
    BY DEF OriginalKept, NoSeededCycle, NoFile
  <1>7. UserHooksKept
    <2>1. wanted => UserEntries(settings.entries) = 1
      OBVIOUS
    <2> QED
      BY <1>2, <2>1 DEF UserHooksKept
  <1> QED
    BY <1>1, <1>3, <1>4, <1>5, <1>6, <1>7 DEF HooksFit

LEMMA EditSettingsFits == ASSUME HooksFit, EditSettings PROVE HooksFit'
  <1>1. /\ UNCHANGED <<notifyCjs, slot, original, wrapper, plugin, openclaw, bare, op, sel, at, warned,
                      changed, snapshot, missed>>
        /\ wanted' = TRUE /\ raced' = (raced \/ at["claude"] = "read") /\ settings.file = "ok"
    BY DEF EditSettings, EditOnly, driver
  <1>2. HooksTypeOK /\ settings \in Config /\ settings.entries \in EntriesOf
    BY DEF HooksFit, HooksTypeOK, Config
  <1>3. /\ settings' \in Config /\ settings'.file = "ok" /\ UserEntries(settings'.entries) > 0
        /\ PewEntries(settings'.entries) > 0 <=> PewEntries(settings.entries) > 0
        /\ PewEntries(settings.entries) <= 1 => PewEntries(settings'.entries) <= 1
    <2> DEFINE old == settings.entries
    <2>0. old["user"] \in Nat /\ old["pew"] \in Nat /\ old["both"] \in Nat
      BY <1>2 DEF EntriesOf, Entry
    <2>1. CASE settings' = [settings EXCEPT !.entries["user"] = @ + 1]
      <3> DEFINE new == [old EXCEPT !["user"] = @ + 1]
      <3>1. new \in EntriesOf /\ new["user"] = old["user"] + 1 /\ new["pew"] = old["pew"]
            /\ new["both"] = old["both"]
        BY <1>2, <2>0 DEF EntriesOf, Entry
      <3>2. settings' = [settings EXCEPT !.entries = new]
        BY <1>2, <2>1 DEF Config
      <3> HIDE DEF new, old
      <3>3. settings'.entries = new /\ settings'.file = "ok" /\ settings' \in Config
        BY <1>1, <1>2, <3>1, <3>2 DEF Config
      <3> QED
        BY <2>0, <3>1, <3>3 DEF PewEntries, UserEntries, old
    <2>2. CASE settings' = [settings EXCEPT !.entries = Alone(IF PewEntries(@) > 0 THEN "both" ELSE "user")]
      <3> DEFINE new == Alone(IF PewEntries(old) > 0 THEN "both" ELSE "user")
      <3>1. /\ new \in EntriesOf /\ UserEntries(new) = 1
            /\ PewEntries(new) = IF PewEntries(old) > 0 THEN 1 ELSE 0
        BY EntriesAlone
      <3>2. settings' = [settings EXCEPT !.entries = new]
        BY <2>2
      <3> HIDE DEF new
      <3>3. settings'.entries = new /\ settings'.file = "ok" /\ settings' \in Config
        BY <1>1, <1>2, <3>1, <3>2 DEF Config
      <3> QED
        BY <3>1, <3>3
    <2> QED
      BY <2>1, <2>2 DEF EditSettings
  <1>4. HooksTypeOK'
    BY <1>1, <1>2, <1>3 DEF HooksTypeOK
  <1>5. \A s \in Hooks : NamesPew(s)' => NamesPew(s)
    BY <1>1, <1>3 DEF NamesPew
  <1>6. DriversFit'
    BY <1>1, <1>5 DEF HooksFit, DriversFit, Full
  <1>7. SettingsFit'
    BY <1>1, <1>3 DEF HooksFit, SettingsFit
  <1>8. SlotFits' /\ OriginalKept' /\ NoSeededCycle'
    BY <1>1 DEF HooksFit, SlotFits, Seeded, OriginalKept, NoSeededCycle
  <1>9. UserHooksKept'
    BY <1>1, <1>3 DEF HooksFit, UserHooksKept
  <1> QED
    BY <1>4, <1>6, <1>7, <1>8, <1>9 DEF HooksFit

LEMMA BreakSettingsFits == ASSUME HooksFit, BreakSettings PROVE HooksFit'
  <1> USE DEF HooksFit, HooksTypeOK, BreakSettings, EditOnly, Edit, driver
  <1>1. HooksTypeOK'
    BY DEF NoFile, Plugin, Retired, Hooks, Source, Config
  <1>2. DriversFit'
    BY DEF DriversFit, NamesPew, PewOwned, Plugin, Retired, Hooks, Source, Full, SettingsFit
  <1>3. SettingsFit'
    BY DEF SettingsFit, Hooks, Source, Plugin, Retired
  <1>4. SlotFits'
    BY DEF SlotFits, Seeded, OriginalKept, NoFile, PewOwned, Hooks, Source, Plugin, Retired
  <1>5. OriginalKept'
    BY DEF SlotFits, OriginalKept, NoFile, PewOwned
  <1>6. NoSeededCycle'
    BY DEF SlotFits, Seeded, NoSeededCycle, NoFile, PewOwned
  <1>7. UserHooksKept'
    BY DEF SettingsFit, UserHooksKept
  <1> QED
    BY <1>1, <1>2, <1>3, <1>4, <1>5, <1>6, <1>7

LEMMA TakeSlotFits == ASSUME HooksFit, TakeSlot PROVE HooksFit'
  <1> USE DEF HooksFit, HooksTypeOK, TakeSlot, EditOnly, Edit, driver
  <1>1. HooksTypeOK'
    BY DEF NoFile, Plugin, Retired, Hooks, Source
  <1>2. DriversFit'
    BY DEF DriversFit, NamesPew, PewOwned, Plugin, Retired, Hooks, Source, Full
  <1>3. SettingsFit'
    BY DEF SettingsFit, Hooks, Source, Plugin, Retired
  <1>4. SlotFits'
    BY DEF SlotFits, Seeded, OriginalKept, NoFile, PewOwned, Hooks, Source, Plugin, Retired
  <1>5. OriginalKept'
    BY DEF SlotFits, OriginalKept, NoFile, PewOwned
  <1>6. NoSeededCycle'
    BY DEF SlotFits, Seeded, NoSeededCycle, NoFile, PewOwned
  <1>7. UserHooksKept'
    BY DEF SettingsFit, UserHooksKept
  <1> QED
    BY <1>1, <1>2, <1>3, <1>4, <1>5, <1>6, <1>7

LEMMA BeginInitFits == ASSUME HooksFit, BeginInit PROVE HooksFit'
  <1> USE DEF HooksFit, HooksTypeOK, BeginInit, BeginCommand
  <1>1. HooksTypeOK'
    BY DEF NoFile, Plugin, Retired, Hooks, Source
  <1>2. DriversFit'
    BY DEF DriversFit, NamesPew, PewOwned, Plugin, Retired, Hooks, Source, Full
  <1>3. SettingsFit'
    BY DEF SettingsFit, Hooks, Source, Plugin, Retired
  <1>4. SlotFits'
    BY DEF SlotFits, Seeded, OriginalKept, NoFile, PewOwned, Hooks, Source, Plugin, Retired
  <1>5. OriginalKept'
    BY DEF SlotFits, OriginalKept, NoFile, PewOwned
  <1>6. NoSeededCycle'
    BY DEF SlotFits, Seeded, NoSeededCycle, NoFile, PewOwned
  <1>7. UserHooksKept'
    BY DEF SettingsFit, UserHooksKept
  <1> QED
    BY <1>1, <1>2, <1>3, <1>4, <1>5, <1>6, <1>7

LEMMA BeginUninstallFits == ASSUME HooksFit, BeginUninstall PROVE HooksFit'
  <1> USE DEF HooksFit, HooksTypeOK, BeginUninstall, BeginCommand
  <1>1. HooksTypeOK'
    BY DEF NoFile, Plugin, Retired, Hooks, Source
  <1>2. DriversFit'
    BY DEF DriversFit, NamesPew, PewOwned, Plugin, Retired, Hooks, Source, Full
  <1>3. SettingsFit'
    BY DEF SettingsFit, Hooks, Source, Plugin, Retired
  <1>4. SlotFits'
    BY DEF SlotFits, Seeded, OriginalKept, NoFile, PewOwned, Hooks, Source, Plugin, Retired
  <1>5. OriginalKept'
    BY DEF SlotFits, OriginalKept, NoFile, PewOwned
  <1>6. NoSeededCycle'
    BY DEF SlotFits, Seeded, NoSeededCycle, NoFile, PewOwned
  <1>7. UserHooksKept'
    BY DEF SettingsFit, UserHooksKept
  <1> QED
    BY <1>1, <1>2, <1>3, <1>4, <1>5, <1>6, <1>7

LEMMA ReadSettingsFits == ASSUME HooksFit, NEW o \in {"init", "uninstall"}, ReadSettings(o) PROVE HooksFit'
  <1> USE DEF HooksFit, HooksTypeOK, ReadSettings, DriverOnly, Quiet, files
  <1>1. HooksTypeOK'
    BY DEF NoFile, Plugin, Retired, Hooks, Source, Config
  <1>2. DriversFit'
    <2>1. at["claude"] = "todo" /\ op = o
      OBVIOUS
    <2>2. \A s \in Hooks : NamesPew(s)' = NamesPew(s) /\ (s # "claude" => at'[s] = at[s])
      BY DEF NamesPew
    <2>3. warned' = warned /\ missed \subseteq missed'
      OBVIOUS
    <2>4. ASSUME op = "uninstall", at'["claude"] = "done", "claude" \notin missed'
          PROVE  ~NamesPew("claude")
      <3>1. settings.file = "missing"
        BY <2>4 DEF Hooks, Source
      <3>2. settings.entries = NoEntries
        BY <3>1 DEF SettingsFit
      <3> QED
        BY <3>2, EntriesAlone DEF NamesPew, Plugin, Retired
    <2> QED
      BY <2>1, <2>2, <2>3, <2>4 DEF DriversFit, Full
  <1>3. SettingsFit'
    BY DEF SettingsFit, Hooks, Source, Plugin, Retired
  <1>4. SlotFits'
    BY DEF SlotFits, Seeded, OriginalKept, NoFile, PewOwned, Hooks, Source, Plugin, Retired
  <1>5. OriginalKept'
    BY DEF SlotFits, OriginalKept, NoFile, PewOwned
  <1>6. NoSeededCycle'
    BY DEF SlotFits, Seeded, NoSeededCycle, NoFile, PewOwned
  <1>7. UserHooksKept'
    BY DEF SettingsFit, UserHooksKept
  <1> QED
    BY <1>1, <1>2, <1>3, <1>4, <1>5, <1>6, <1>7

LEMMA WriteSettingsFits == ASSUME HooksFit, WriteSettings PROVE HooksFit'
  <1> DEFINE entries == IF op = "init" THEN WithPew(snapshot.entries) ELSE WithoutPew(snapshot.entries)
  <1>1. /\ at["claude"] = "read" /\ at' = [at EXCEPT !["claude"] = "done"]
        /\ settings' = IF entries = snapshot.entries THEN settings
                       ELSE [file |-> "ok", entries |-> entries]
        /\ changed' \in {changed, changed \cup {"claude"}}
        /\ UNCHANGED <<snapshot, warned, notifyCjs, slot, original, plugin, openclaw, missed, wrapper, op,
                      sel, wanted, raced, bare>>
    BY DEF WriteSettings, DriverOnly, Changed
  <1>2. HooksTypeOK /\ snapshot \in Config /\ settings \in Config /\ snapshot.entries \in EntriesOf
        /\ settings.entries \in EntriesOf
    BY DEF HooksFit, HooksTypeOK, Config
  <1>3. /\ op \in {"init", "uninstall"} /\ (~raced => snapshot = settings)
        /\ PewEntries(settings.entries) > 0 <=> PewEntries(snapshot.entries) > 0
    BY <1>1 DEF HooksFit, SettingsFit
  <1>4. /\ entries \in EntriesOf /\ UserEntries(entries) = UserEntries(snapshot.entries)
        /\ op = "uninstall" => PewEntries(entries) = 0
        /\ PewEntries(snapshot.entries) <= 1 => PewEntries(entries) <= 1
    BY <1>2, EntriesEdited
  <1> HIDE DEF entries
  <1>5. settings' \in Config /\ settings'.entries \in {entries, settings.entries}
    BY <1>1, <1>2, <1>4 DEF Config
  <1>6. settings'.entries = entries \/ (settings' = settings /\ entries = snapshot.entries)
    BY <1>1
  <1>7. HooksTypeOK'
    <2>1. at' \in [Hooks -> {"todo", "read", "saved", "restored", "done"}]
      BY <1>1, <1>2 DEF HooksTypeOK
    <2>2. settings' \in Config /\ snapshot' \in Config
      BY <1>1, <1>2, <1>5
    <2>3. raced' \in BOOLEAN /\ wanted' \in BOOLEAN /\ bare' \in BOOLEAN
      BY <1>1, <1>2 DEF HooksTypeOK
    <2>4. /\ notifyCjs' = notifyCjs /\ slot' = slot /\ original' = original /\ wrapper' = wrapper
          /\ plugin' = plugin /\ openclaw' = openclaw /\ op' = op
      BY <1>1
    <2> QED
      BY <1>2, <2>1, <2>2, <2>3, <2>4 DEF HooksTypeOK
  <1>8. op = "uninstall" => ~(PewEntries(settings'.entries) > 0)
    BY <1>3, <1>4, <1>6
  <1>9. \A s \in Hooks : /\ s # "claude" => NamesPew(s)' = NamesPew(s) /\ at'[s] = at[s]
                         /\ op = "uninstall" /\ s = "claude" => ~NamesPew(s)'
    BY <1>1, <1>2, <1>8 DEF NamesPew, HooksTypeOK, Plugin, Retired
  <1>10. DriversFit'
    BY <1>1, <1>3, <1>9 DEF HooksFit, DriversFit, Full
  <1>11. SettingsFit'
    <2>1. at'["claude"] # "read"
      BY <1>1, <1>2 DEF HooksTypeOK, Hooks, Source
    <2>2. settings'.file = "missing" => settings' = settings
      BY <1>1
    <2> QED
      BY <1>1, <2>1, <2>2 DEF HooksFit, SettingsFit
  <1>12. SlotFits'
    <2>1. at'["codex"] = at["codex"] /\ ("codex" \in changed' <=> "codex" \in changed)
      BY <1>1, <1>2 DEF HooksTypeOK, Hooks, Source
    <2> QED
      BY <1>1, <1>3, <2>1 DEF HooksFit, SlotFits, Seeded
  <1>13. OriginalKept' /\ NoSeededCycle'
    BY <1>1 DEF HooksFit, OriginalKept, NoSeededCycle
  <1>14. UserHooksKept'
    <2> SUFFICES ASSUME ~raced
                 PROVE  /\ wanted => UserEntries(settings'.entries) > 0
                        /\ PewEntries(settings'.entries) <= 1
      BY <1>1 DEF UserHooksKept
    <2>1. /\ wanted => UserEntries(snapshot.entries) > 0
          /\ PewEntries(snapshot.entries) <= 1
      BY <1>3 DEF HooksFit, UserHooksKept
    <2> QED
      BY <1>3, <1>4, <1>6, <2>1
  <1> QED
    BY <1>7, <1>10, <1>11, <1>12, <1>13, <1>14 DEF HooksFit

LEMMA SaveOriginalFits == ASSUME HooksFit, SaveOriginal PROVE HooksFit'
  <1> USE DEF HooksFit, HooksTypeOK, SaveOriginal, Driver, DriverOnly, files, Refuses
  <1>1. HooksTypeOK'
    BY DEF NoFile, Plugin, Retired, Hooks, Source
  <1>2. DriversFit'
    BY DEF DriversFit, NamesPew, PewOwned, Plugin, Retired, Hooks, Source, Full
  <1>3. SettingsFit'
    BY DEF SettingsFit, Hooks, Source, Plugin, Retired
  <1>4. SlotFits'
    BY DEF SlotFits, Seeded, OriginalKept, NoFile, PewOwned, Hooks, Source, Plugin, Retired
  <1>5. OriginalKept'
    BY DEF SlotFits, OriginalKept, NoFile, PewOwned
  <1>6. NoSeededCycle'
    BY DEF SlotFits, Seeded, NoSeededCycle, NoFile, PewOwned
  <1>7. UserHooksKept'
    BY DEF SettingsFit, UserHooksKept
  <1> QED
    BY <1>1, <1>2, <1>3, <1>4, <1>5, <1>6, <1>7

LEMMA InstallCodexFits == ASSUME HooksFit, InstallCodex PROVE HooksFit'
  <1> USE DEF HooksFit, HooksTypeOK, InstallCodex, Driver, DriverOnly, files, Changed
  <1>1. HooksTypeOK'
    BY DEF NoFile, Plugin, Retired, Hooks, Source
  <1>2. DriversFit'
    BY DEF DriversFit, NamesPew, PewOwned, Plugin, Retired, Hooks, Source, Full
  <1>3. SettingsFit'
    BY DEF SettingsFit, Hooks, Source, Plugin, Retired
  <1>4. SlotFits'
    BY DEF SlotFits, Seeded, OriginalKept, NoFile, PewOwned, Hooks, Source, Plugin, Retired
  <1>5. OriginalKept'
    BY DEF SlotFits, OriginalKept, NoFile, PewOwned
  <1>6. NoSeededCycle'
    BY DEF SlotFits, Seeded, NoSeededCycle, NoFile, PewOwned
  <1>7. UserHooksKept'
    BY DEF SettingsFit, UserHooksKept
  <1> QED
    BY <1>1, <1>2, <1>3, <1>4, <1>5, <1>6, <1>7

LEMMA RestoreCodexFits == ASSUME HooksFit, RestoreCodex PROVE HooksFit'
  <1> USE DEF HooksFit, HooksTypeOK, RestoreCodex, Driver, DriverOnly, files, Warn, Changed
  <1>1. HooksTypeOK'
    BY DEF NoFile, Plugin, Retired, Hooks, Source
  <1>2. DriversFit'
    BY DEF DriversFit, NamesPew, PewOwned, Plugin, Retired, Hooks, Source, Full
  <1>3. SettingsFit'
    BY DEF SettingsFit, Hooks, Source, Plugin, Retired
  <1>4. SlotFits'
    BY DEF SlotFits, Seeded, OriginalKept, NoFile, PewOwned, Hooks, Source, Plugin, Retired
  <1>5. OriginalKept'
    BY DEF SlotFits, OriginalKept, NoFile, PewOwned
  <1>6. NoSeededCycle'
    BY DEF SlotFits, Seeded, NoSeededCycle, NoFile, PewOwned
  <1>7. UserHooksKept'
    BY DEF SettingsFit, UserHooksKept
  <1> QED
    BY <1>1, <1>2, <1>3, <1>4, <1>5, <1>6, <1>7

LEMMA UnlinkOriginalFits == ASSUME HooksFit, UnlinkOriginal PROVE HooksFit'
  <1> USE DEF HooksFit, HooksTypeOK, UnlinkOriginal, Driver, DriverOnly, files, Quiet
  <1>1. HooksTypeOK'
    BY DEF NoFile, Plugin, Retired, Hooks, Source
  <1>2. DriversFit'
    BY DEF DriversFit, SlotFits, NoFile, NamesPew, PewOwned, Plugin, Retired, Hooks, Source, Full
  <1>3. SettingsFit'
    BY DEF SettingsFit, Hooks, Source, Plugin, Retired
  <1>4. SlotFits'
    BY DEF SlotFits, Seeded, OriginalKept, NoFile, PewOwned, Hooks, Source, Plugin, Retired
  <1>5. OriginalKept'
    BY DEF SlotFits, OriginalKept, NoFile, PewOwned
  <1>6. NoSeededCycle'
    BY DEF SlotFits, Seeded, NoSeededCycle, NoFile, PewOwned
  <1>7. UserHooksKept'
    BY DEF SettingsFit, UserHooksKept
  <1> QED
    BY <1>1, <1>2, <1>3, <1>4, <1>5, <1>6, <1>7

LEMMA InstallPluginFits == ASSUME HooksFit, NEW p \in Plugin, InstallPlugin(p) PROVE HooksFit'
  <1> USE DEF HooksFit, HooksTypeOK, InstallPlugin, Driver, DriverOnly, files, Changed
  <1>1. HooksTypeOK'
    BY DEF NoFile, Plugin, Retired, Hooks, Source
  <1>2. DriversFit'
    BY DEF DriversFit, NamesPew, PewOwned, Plugin, Retired, Hooks, Source, Full
  <1>3. SettingsFit'
    BY DEF SettingsFit, Hooks, Source, Plugin, Retired
  <1>4. SlotFits'
    BY DEF SlotFits, Seeded, OriginalKept, NoFile, PewOwned, Hooks, Source, Plugin, Retired
  <1>5. OriginalKept'
    BY DEF SlotFits, OriginalKept, NoFile, PewOwned
  <1>6. NoSeededCycle'
    BY DEF SlotFits, Seeded, NoSeededCycle, NoFile, PewOwned
  <1>7. UserHooksKept'
    BY DEF SettingsFit, UserHooksKept
  <1> QED
    BY <1>1, <1>2, <1>3, <1>4, <1>5, <1>6, <1>7

LEMMA UninstallPluginFits == ASSUME HooksFit, NEW p \in Plugin, UninstallPlugin(p) PROVE HooksFit'
  <1> USE DEF HooksFit, HooksTypeOK, UninstallPlugin, Driver, DriverOnly, files, Changed, Warn, Miss
  <1>1. HooksTypeOK'
    BY DEF NoFile, Plugin, Retired, Hooks, Source
  <1>2. DriversFit'
    BY DEF DriversFit, NamesPew, PewOwned, Plugin, Retired, Hooks, Source, Full
  <1>3. SettingsFit'
    BY DEF SettingsFit, Hooks, Source, Plugin, Retired
  <1>4. SlotFits'
    BY DEF SlotFits, Seeded, OriginalKept, NoFile, PewOwned, Hooks, Source, Plugin, Retired
  <1>5. OriginalKept'
    BY DEF SlotFits, OriginalKept, NoFile, PewOwned
  <1>6. NoSeededCycle'
    BY DEF SlotFits, Seeded, NoSeededCycle, NoFile, PewOwned
  <1>7. UserHooksKept'
    BY DEF SettingsFit, UserHooksKept
  <1> QED
    BY <1>1, <1>2, <1>3, <1>4, <1>5, <1>6, <1>7

LEMMA InstallOpenClawFits == ASSUME HooksFit, InstallOpenClaw PROVE HooksFit'
  <1> USE DEF HooksFit, HooksTypeOK, InstallOpenClaw, Driver, DriverOnly, files, Changed, Warn
  <1>1. HooksTypeOK'
    BY DEF NoFile, Plugin, Retired, Hooks, Source
  <1>2. DriversFit'
    BY DEF DriversFit, NamesPew, PewOwned, Plugin, Retired, Hooks, Source, Full
  <1>3. SettingsFit'
    BY DEF SettingsFit, Hooks, Source, Plugin, Retired
  <1>4. SlotFits'
    BY DEF SlotFits, Seeded, OriginalKept, NoFile, PewOwned, Hooks, Source, Plugin, Retired
  <1>5. OriginalKept'
    BY DEF SlotFits, OriginalKept, NoFile, PewOwned
  <1>6. NoSeededCycle'
    BY DEF SlotFits, Seeded, NoSeededCycle, NoFile, PewOwned
  <1>7. UserHooksKept'
    BY DEF SettingsFit, UserHooksKept
  <1> QED
    BY <1>1, <1>2, <1>3, <1>4, <1>5, <1>6, <1>7

LEMMA UninstallOpenClawFits == ASSUME HooksFit, UninstallOpenClaw PROVE HooksFit'
  <1> USE DEF HooksFit, HooksTypeOK, UninstallOpenClaw, Driver, DriverOnly, files, Changed, Miss, Fault
  <1>1. HooksTypeOK'
    BY DEF NoFile, Plugin, Retired, Hooks, Source
  <1>2. DriversFit'
    BY DEF DriversFit, NamesPew, PewOwned, Plugin, Retired, Hooks, Source, Full
  <1>3. SettingsFit'
    BY DEF SettingsFit, Hooks, Source, Plugin, Retired
  <1>4. SlotFits'
    BY DEF SlotFits, Seeded, OriginalKept, NoFile, PewOwned, Hooks, Source, Plugin, Retired
  <1>5. OriginalKept'
    BY DEF SlotFits, OriginalKept, NoFile, PewOwned
  <1>6. NoSeededCycle'
    BY DEF SlotFits, Seeded, NoSeededCycle, NoFile, PewOwned
  <1>7. UserHooksKept'
    BY DEF SettingsFit, UserHooksKept
  <1> QED
    BY <1>1, <1>2, <1>3, <1>4, <1>5, <1>6, <1>7

LEMMA FinishInitFits == ASSUME HooksFit, FinishInit PROVE HooksFit'
  <1> USE DEF HooksFit, HooksTypeOK, FinishInit, AllDone, files, driver, history
  <1>1. HooksTypeOK'
    BY DEF NoFile, Plugin, Retired, Hooks, Source
  <1>2. DriversFit'
    BY DEF DriversFit, NamesPew, PewOwned, Plugin, Retired, Hooks, Source, Full
  <1>3. SettingsFit'
    BY DEF SettingsFit, Hooks, Source, Plugin, Retired
  <1>4. SlotFits'
    BY DEF SlotFits, Seeded, OriginalKept, NoFile, PewOwned, Hooks, Source, Plugin, Retired
  <1>5. OriginalKept'
    BY DEF SlotFits, OriginalKept, NoFile, PewOwned
  <1>6. NoSeededCycle'
    BY DEF SlotFits, Seeded, NoSeededCycle, NoFile, PewOwned
  <1>7. UserHooksKept'
    BY DEF SettingsFit, UserHooksKept
  <1> QED
    BY <1>1, <1>2, <1>3, <1>4, <1>5, <1>6, <1>7

LEMMA RemoveHandlerFits == ASSUME HooksFit, RemoveHandler PROVE HooksFit'
  <1> USE DEF HooksFit, HooksTypeOK, RemoveHandler, AllDone, HandlerMayGo, driver, history
  <1>1. HooksTypeOK'
    BY DEF NoFile, Plugin, Retired, Hooks, Source
  <1>2. DriversFit'
    BY DEF DriversFit, NamesPew, PewOwned, Plugin, Retired, Hooks, Source, Full
  <1>3. SettingsFit'
    BY DEF SettingsFit, Hooks, Source, Plugin, Retired
  <1>4. SlotFits'
    BY DEF SlotFits, Seeded, OriginalKept, NoFile, PewOwned, Hooks, Source, Plugin, Retired
  <1>5. OriginalKept'
    BY DEF SlotFits, OriginalKept, NoFile, PewOwned
  <1>6. NoSeededCycle'
    BY DEF SlotFits, Seeded, NoSeededCycle, NoFile, PewOwned
  <1>7. UserHooksKept'
    BY DEF SettingsFit, UserHooksKept
  <1> QED
    BY <1>1, <1>2, <1>3, <1>4, <1>5, <1>6, <1>7

LEMMA RemoveBackupFits == ASSUME HooksFit, RemoveBackup PROVE HooksFit'
  <1> USE DEF HooksFit, HooksTypeOK, RemoveBackup, driver, history
  <1>1. HooksTypeOK'
    BY DEF NoFile, Plugin, Retired, Hooks, Source
  <1>2. DriversFit'
    BY DEF DriversFit, NamesPew, PewOwned, Plugin, Retired, Hooks, Source, Full
  <1>3. SettingsFit'
    BY DEF SettingsFit, Hooks, Source, Plugin, Retired
  <1>4. SlotFits'
    BY DEF CodexClean, SlotFits, Seeded, OriginalKept, NoFile, PewOwned, Hooks, Source, Plugin, Retired
  <1>5. OriginalKept'
    BY DEF CodexClean, SlotFits, OriginalKept, NoFile, PewOwned
  <1>6. NoSeededCycle'
    BY DEF SlotFits, Seeded, NoSeededCycle, NoFile, PewOwned
  <1>7. UserHooksKept'
    BY DEF SettingsFit, UserHooksKept
  <1> QED
    BY <1>1, <1>2, <1>3, <1>4, <1>5, <1>6, <1>7

LEMMA KillCommandFits == ASSUME HooksFit, KillCommand PROVE HooksFit'
  <1>1. /\ op # "none" /\ op' = "none" /\ at' = [s \in Hooks |-> "done"]
        /\ UNCHANGED <<notifyCjs, plugin, openclaw, wrapper, sel, warned, changed, snapshot, wanted, raced,
                      bare, missed>>
    BY DEF KillCommand, history
  <1>2. \/ UNCHANGED <<slot, original>>
        \/ op = "init" /\ at["codex"] = "saved" /\ slot = "wrapper" /\ original' = "torn" /\ slot' = slot
        \/ /\ slot' = "none" /\ original' = original
           /\ at["codex"] = "saved" \/ (op = "uninstall" /\ at["codex"] = "restored")
    BY DEF KillCommand
  <1>3. settings' = settings \/ settings' = [settings EXCEPT !.file = "invalid"]
    BY DEF KillCommand
  <1>4. HooksTypeOK
    BY DEF HooksFit
  <1>5. settings' \in Config /\ settings'.entries = settings.entries
        /\ (settings'.file = "missing" => settings' = settings)
    BY <1>3, <1>4 DEF HooksTypeOK, Config
  <1>6. HooksTypeOK'
    BY <1>1, <1>2, <1>4, <1>5 DEF HooksTypeOK
  <1>7. \A s \in Hooks : NamesPew(s)' => NamesPew(s)
    BY <1>1, <1>2, <1>5 DEF NamesPew, PewOwned
  <1>8. DriversFit'
    BY <1>1, <1>7 DEF HooksFit, DriversFit
  <1>9. SettingsFit'
    BY <1>1, <1>5 DEF HooksFit, SettingsFit, Hooks, Source
  <1>10. SlotFits'
    BY <1>1, <1>2 DEF HooksFit, SlotFits, Seeded, NoFile, Hooks, Source, PewOwned
  <1>11. OriginalKept'
    BY <1>1, <1>2 DEF HooksFit, SlotFits, OriginalKept, NoFile
  <1>12. NoSeededCycle'
    BY <1>1, <1>2 DEF HooksFit, NoSeededCycle, PewOwned
  <1>13. UserHooksKept'
    BY <1>1, <1>5 DEF HooksFit, UserHooksKept
  <1> QED
    BY <1>6, <1>8, <1>9, <1>10, <1>11, <1>12, <1>13 DEF HooksFit

\* Every step of a command, a user or another tool keeps what the hooks rest on.
LEMMA HooksStep == ASSUME HooksFit, [HooksNext]_hooksVars PROVE HooksFit'
  <1>1. CASE UNCHANGED hooksVars
    BY <1>1 DEF hooksVars, files, driver, bounds, history, HooksFit, HooksTypeOK, DriversFit, NamesPew,
                SettingsFit, SlotFits, Seeded, OriginalKept, NoSeededCycle, UserHooksKept, Full
  <1>2. CASE EditSettings \/ BreakSettings \/ TakeSlot \/ BeginInit \/ BeginUninstall
    BY <1>2, EditSettingsFits, BreakSettingsFits, TakeSlotFits, BeginInitFits, BeginUninstallFits
  <1>3. CASE \E o \in {"init", "uninstall"} : ReadSettings(o)
    BY <1>3, ReadSettingsFits
  <1>4. CASE WriteSettings \/ SaveOriginal \/ InstallCodex \/ RestoreCodex \/ UnlinkOriginal
    BY <1>4, WriteSettingsFits, SaveOriginalFits, InstallCodexFits, RestoreCodexFits, UnlinkOriginalFits
  <1>5. CASE \E p \in Plugin : InstallPlugin(p) \/ UninstallPlugin(p)
    BY <1>5, InstallPluginFits, UninstallPluginFits
  <1>6. CASE InstallOpenClaw \/ UninstallOpenClaw
    BY <1>6, InstallOpenClawFits, UninstallOpenClawFits
  <1>7. CASE FinishInit \/ RemoveHandler \/ RemoveBackup \/ KillCommand
    BY <1>7, FinishInitFits, RemoveHandlerFits, RemoveBackupFits, KillCommandFits
  <1> QED
    BY <1>1, <1>2, <1>3, <1>4, <1>5, <1>6, <1>7 DEF HooksNext

\* A tool that calls pew names it in a configuration that can be read.
LEMMA NoDanglingFollows == ASSUME HooksFit PROVE NoDanglingHook
  <1>1. ASSUME NEW s \in Hooks, CallsPew(s) PROVE NamesPew(s)
    <2>1. CASE s = "claude"
      BY <1>1, <2>1 DEF CallsPew, NamesPew
    <2>2. CASE s = "codex"
      BY <1>1, <2>2 DEF CallsPew, NamesPew
    <2>3. CASE s = "openclaw"
      BY <1>1, <2>3 DEF CallsPew, NamesPew
    <2>4. CASE s \in Plugin
      BY <1>1, <2>4 DEF CallsPew, NamesPew, Plugin, Retired
    <2> QED
      BY <2>1, <2>2, <2>3, <2>4 DEF Hooks, Source, Plugin, Retired
  <1> QED
    BY <1>1 DEF HooksFit, DriversFit, NoDanglingHook

-----------------------------------------------------------------------------
(* Evidence.                                                                *)

\* The identities of records, a record, a call of Hermes, and a queried row.
RecordId == {BaseId} \cup {<<"call", n, 0>> : n \in Nat} \cup {<<"interval", a, b>> : a, b \in Nat}
EvidenceRecord == [id : RecordId, tok : [Field -> Nat], calls : Nat, seq : Nat, end : Int]
CallMade == [field : Field, time : Int]
LedgerRow == [who : SUBSET DOMAIN calls, seen : Nat]

TokenUnits(S, f) == UNION {{r} \X (1..r.tok[f]) : r \in S}
CallUnits(S) == UNION {{r} \X (1..r.calls) : r \in S}
ExactRecord(n) == [id |-> <<"call", n, 0>>, tok |-> TokensOf({n}), calls |-> 1, seq |-> 1, end |-> Never]
ExactRecords(ns) == {ExactRecord(n) : n \in ns}
Total(t) == t["in"] + t["out"]

EvidenceTypeOK ==
    /\ evidenceNow \in Nat
    /\ \E k \in Nat : calls \in [1..k -> CallMade]
    /\ led \in LedgerRow /\ copy \in LedgerRow /\ q \in LedgerRow
    /\ keepsCount \in BOOLEAN /\ phase \in {"idle", "read"} /\ restores \in Nat
    /\ accepted \in SUBSET DOMAIN calls
    /\ IsFiniteSet(ev) /\ ev \subseteq EvidenceRecord

\* A row that was not set back has what the records account for.
RowsHaveRecorded ==
    /\ restores = 0 => accepted \subseteq led.who
    /\ restores = 0 /\ phase = "read" => accepted \subseteq q.who /\ q.who \subseteq led.who

\* One record of each identity; the baseline's revision is the sum of all
\* counters, and every interval ends at one of its revisions.
RecordsFit ==
    /\ \A r, s \in ev : r.id = s.id => r = s
    /\ ev # {} => Based(ev) # {}
    /\ \A r \in ev : r.id = BaseId => r.seq = 1 + Total(Tokens(ev)) + Calls(ev)
    /\ \A r \in ev : \A a, b \in Nat : r.id = <<"interval", a, b>> => b <= 1 + Total(Tokens(ev)) + Calls(ev)
    /\ ~keepsCount => Calls(ev) = 0

EvidenceFits == EvidenceTypeOK /\ RowsHaveRecorded /\ RecordsFit /\ Conserved

-----------------------------------------------------------------------------
\* Units of finitely many records are finite in number.
LEMMA UnitsAreFinite ==
    ASSUME NEW S, IsFiniteSet(S), NEW w, w \in [S -> Nat]
    PROVE  IsFiniteSet(UNION {{r} \X (1..w[r]) : r \in S})
  <1> DEFINE W == {{r} \X (1..w[r]) : r \in S}
             g == [r \in S |-> {r} \X (1..w[r])]
  <1>1. g \in Surjection(S, W)
    BY DEF Surjection
  <1>2. IsFiniteSet(W)
    BY <1>1, FS_Surjection
  <1>3. ASSUME NEW T \in W PROVE IsFiniteSet(T)
    <2>1. PICK r \in S : T = {r} \X (1..w[r])
      OBVIOUS
    <2>2. w[r] \in Nat /\ 1 \in Int
      BY <2>1
    <2>3. IsFiniteSet({r})
      BY FS_Singleton
    <2>4. IsFiniteSet(1..w[r])
      BY <2>2, FS_Interval
    <2> QED
      BY <2>1, <2>3, <2>4, FS_Product
  <1> HIDE DEF W, g
  <1>4. IsFiniteSet(UNION W)
    BY <1>2, <1>3, FS_UNION
  <1> QED
    BY <1>4 DEF W

LEMMA TokenUnitsFinite ==
    ASSUME NEW S, IsFiniteSet(S), S \subseteq EvidenceRecord, NEW f \in Field
    PROVE  IsFiniteSet(TokenUnits(S, f))
  <1> DEFINE w == [r \in S |-> r.tok[f]]
  <1>1. w \in [S -> Nat]
    BY DEF EvidenceRecord
  <1>2. {{r} \X (1..w[r]) : r \in S} = {{r} \X (1..r.tok[f]) : r \in S}
    OBVIOUS
  <1> HIDE DEF w
  <1>3. IsFiniteSet(UNION {{r} \X (1..w[r]) : r \in S})
    BY <1>1, UnitsAreFinite
  <1> QED
    BY <1>2, <1>3 DEF TokenUnits

LEMMA CallUnitsFinite ==
    ASSUME NEW S, IsFiniteSet(S), S \subseteq EvidenceRecord
    PROVE  IsFiniteSet(CallUnits(S))
  <1> DEFINE w == [r \in S |-> r.calls]
  <1>1. w \in [S -> Nat]
    BY DEF EvidenceRecord
  <1>2. {{r} \X (1..w[r]) : r \in S} = {{r} \X (1..r.calls) : r \in S}
    OBVIOUS
  <1> HIDE DEF w
  <1>3. IsFiniteSet(UNION {{r} \X (1..w[r]) : r \in S})
    BY <1>1, UnitsAreFinite
  <1> QED
    BY <1>2, <1>3 DEF CallUnits

\* Sums are natural numbers.
LEMMA SumsAreNat ==
    ASSUME NEW S, IsFiniteSet(S), S \subseteq EvidenceRecord
    PROVE  /\ Tokens(S) \in [Field -> Nat] /\ Calls(S) \in Nat
           /\ \A f \in Field : Tokens(S)[f] = Cardinality(TokenUnits(S, f))
           /\ Calls(S) = Cardinality(CallUnits(S))
  <1>1. \A f \in Field : Cardinality(TokenUnits(S, f)) \in Nat
    BY TokenUnitsFinite, FS_CardinalityType
  <1>2. Cardinality(CallUnits(S)) \in Nat
    BY CallUnitsFinite, FS_CardinalityType
  <1>3. Tokens(S) = [f \in Field |-> Cardinality(TokenUnits(S, f))]
    BY DEF Tokens, TokenUnits
  <1>4. Calls(S) = Cardinality(CallUnits(S))
    BY DEF Calls, CallUnits
  <1> QED
    BY <1>1, <1>2, <1>3, <1>4

\* The sums over two sets without a common record add up.
LEMMA SumsAdd ==
    ASSUME NEW S, IsFiniteSet(S), S \subseteq EvidenceRecord,
           NEW T, IsFiniteSet(T), T \subseteq EvidenceRecord, S \cap T = {}
    PROVE  /\ IsFiniteSet(S \cup T)
           /\ \A f \in Field : Tokens(S \cup T)[f] = Tokens(S)[f] + Tokens(T)[f]
           /\ Calls(S \cup T) = Calls(S) + Calls(T)
  <1>1. IsFiniteSet(S \cup T) /\ S \cup T \subseteq EvidenceRecord
    BY FS_Union
  <1>2. ASSUME NEW f \in Field PROVE Tokens(S \cup T)[f] = Tokens(S)[f] + Tokens(T)[f]
    <2>1. TokenUnits(S \cup T, f) = TokenUnits(S, f) \cup TokenUnits(T, f)
      BY Zenon DEF TokenUnits
    <2>2. TokenUnits(S, f) \cap TokenUnits(T, f) = {}
      <3> SUFFICES ASSUME NEW u, u \in TokenUnits(S, f), u \in TokenUnits(T, f) PROVE FALSE
        OBVIOUS
      <3>1. PICK r \in S : u \in {r} \X (1..r.tok[f])
        BY DEF TokenUnits
      <3>2. PICK s \in T : u \in {s} \X (1..s.tok[f])
        BY DEF TokenUnits
      <3>3. u[1] = r /\ u[1] = s
        BY <3>1, <3>2
      <3> QED
        BY <3>3
    <2>3. IsFiniteSet(TokenUnits(S, f)) /\ IsFiniteSet(TokenUnits(T, f))
      BY TokenUnitsFinite
    <2>4. Cardinality(TokenUnits(S \cup T, f)) = Cardinality(TokenUnits(S, f)) + Cardinality(TokenUnits(T, f)) - Cardinality({})
      BY <2>1, <2>2, <2>3, FS_Union
    <2> QED
      BY <2>4, <1>1, SumsAreNat, FS_EmptySet
  <1>3. Calls(S \cup T) = Calls(S) + Calls(T)
    <2>1. CallUnits(S \cup T) = CallUnits(S) \cup CallUnits(T)
      BY Zenon DEF CallUnits
    <2>2. CallUnits(S) \cap CallUnits(T) = {}
      <3> SUFFICES ASSUME NEW u, u \in CallUnits(S), u \in CallUnits(T) PROVE FALSE
        OBVIOUS
      <3>1. PICK r \in S : u \in {r} \X (1..r.calls)
        BY DEF CallUnits
      <3>2. PICK s \in T : u \in {s} \X (1..s.calls)
        BY DEF CallUnits
      <3>3. u[1] = r /\ u[1] = s
        BY <3>1, <3>2
      <3> QED
        BY <3>3
    <2>3. IsFiniteSet(CallUnits(S)) /\ IsFiniteSet(CallUnits(T))
      BY CallUnitsFinite
    <2>4. Cardinality(CallUnits(S \cup T)) = Cardinality(CallUnits(S)) + Cardinality(CallUnits(T)) - Cardinality({})
      BY <2>1, <2>2, <2>3, FS_Union
    <2> QED
      BY <2>4, <1>1, SumsAreNat, FS_EmptySet
  <1> QED
    BY <1>1, <1>2, <1>3

\* What one record adds, and what none do.
LEMMA SumOfOne ==
    ASSUME NEW r \in EvidenceRecord
    PROVE  /\ IsFiniteSet({r}) /\ \A f \in Field : Tokens({r})[f] = r.tok[f]
           /\ Calls({r}) = r.calls
  <1>1. IsFiniteSet({r}) /\ Cardinality({r}) = 1
    BY FS_Singleton
  <1>2. ASSUME NEW n \in Nat PROVE Cardinality({r} \X (1..n)) = n
    <2>1. IsFiniteSet(1..n) /\ Cardinality(1..n) = n
      BY FS_Interval
    <2> DEFINE T == 1..n
    <2> HIDE DEF T
    <2>2. Cardinality({r} \X T) = Cardinality({r}) * Cardinality(T)
      BY <1>1, <2>1, FS_Product DEF T
    <2>3. Cardinality({r} \X T) = 1 * n
      BY <1>1, <2>1, <2>2 DEF T
    <2> QED
      BY <2>3 DEF T
  <1>3. ASSUME NEW f \in Field PROVE Tokens({r})[f] = r.tok[f]
    <2>1. TokenUnits({r}, f) = {r} \X (1..r.tok[f])
      BY Zenon DEF TokenUnits
    <2>2. r.tok[f] \in Nat
      BY DEF EvidenceRecord
    <2>3. Cardinality({r} \X (1..r.tok[f])) = r.tok[f]
      BY <1>2, <2>2
    <2> QED
      BY <1>1, <2>1, <2>3, SumsAreNat
  <1>4. Calls({r}) = r.calls
    <2>1. CallUnits({r}) = {r} \X (1..r.calls)
      BY Zenon DEF CallUnits
    <2>2. r.calls \in Nat
      BY DEF EvidenceRecord
    <2>3. Cardinality({r} \X (1..r.calls)) = r.calls
      BY <1>2, <2>2
    <2> QED
      BY <1>1, <2>1, <2>3, SumsAreNat
  <1> QED
    BY <1>1, <1>3, <1>4

LEMMA SumOfNone == (\A f \in Field : Tokens({})[f] = 0) /\ Calls({}) = 0
  <1>1. IsFiniteSet({}) /\ Cardinality({}) = 0
    BY FS_EmptySet
  <1>2. \A f \in Field : TokenUnits({}, f) = {}
    BY DEF TokenUnits
  <1>3. CallUnits({}) = {}
    BY DEF CallUnits
  <1> QED
    BY <1>1, <1>2, <1>3, SumsAreNat

-----------------------------------------------------------------------------
LEMMA CallsOf ==
    ASSUME EvidenceTypeOK, NEW ns \in SUBSET DOMAIN calls
    PROVE  /\ IsFiniteSet(ns) /\ Cardinality(ns) \in Nat /\ ns \subseteq Nat
           /\ TokensOf(ns) \in [Field -> Nat]
           /\ \A f \in Field : /\ IsFiniteSet({n \in ns : calls[n].field = f})
                               /\ TokensOf(ns)[f] = Cardinality({n \in ns : calls[n].field = f})
  <1>1. PICK k \in Nat : calls \in [1..k -> CallMade]
    BY DEF EvidenceTypeOK
  <1>2. IsFiniteSet(1..k)
    BY FS_Interval
  <1>3. ns \in SUBSET (1..k) /\ ns \subseteq Nat
    BY <1>1
  <1>8. IsFiniteSet(ns)
    BY <1>2, <1>3, FS_Subset
  <1>4. \A f \in Field : IsFiniteSet({n \in ns : calls[n].field = f})
    BY <1>8, FS_Subset
  <1>5. \A f \in Field : Cardinality({n \in ns : calls[n].field = f}) \in Nat
    BY <1>4, FS_CardinalityType
  <1>6. Cardinality(ns) \in Nat
    BY <1>8, FS_CardinalityType
  <1> QED
    BY <1>3, <1>8, <1>4, <1>5, <1>6 DEF TokensOf

LEMMA OneCall ==
    ASSUME EvidenceTypeOK, NEW n \in DOMAIN calls
    PROVE  /\ TokensOf({n}) \in [Field -> Nat] /\ calls[n].field \in Field /\ calls[n].time \in Int /\ n \in Nat
           /\ \A f \in Field : TokensOf({n})[f] = IF calls[n].field = f THEN 1 ELSE 0
  <1>1. TokensOf({n}) \in [Field -> Nat]
    BY CallsOf
  <1>2. calls[n] \in CallMade /\ n \in Nat
    BY DEF EvidenceTypeOK
  <1>3. calls[n].field \in Field /\ calls[n].time \in Int
    BY <1>2 DEF CallMade
  <1>4. ASSUME NEW f \in Field, calls[n].field = f PROVE TokensOf({n})[f] = 1
    <2>1. {m \in {n} : calls[m].field = f} = {n}
      BY <1>4
    <2> QED
      BY <2>1, FS_Singleton DEF TokensOf
  <1>5. ASSUME NEW f \in Field, calls[n].field # f PROVE TokensOf({n})[f] = 0
    <2>1. {m \in {n} : calls[m].field = f} = {}
      BY <1>5
    <2> QED
      BY <2>1, FS_EmptySet DEF TokensOf
  <1> QED
    BY <1>1, <1>2, <1>3, <1>4, <1>5

\* Exact records add up to the calls they are of.
LEMMA ExactSums ==
    ASSUME EvidenceTypeOK, NEW ns \in SUBSET DOMAIN calls
    PROVE  /\ IsFiniteSet(ExactRecords(ns)) /\ ExactRecords(ns) \subseteq EvidenceRecord
           /\ \A f \in Field : Tokens(ExactRecords(ns))[f] = TokensOf(ns)[f]
           /\ Calls(ExactRecords(ns)) = Cardinality(ns)
  <1>1. \A n \in ns : ExactRecord(n) \in EvidenceRecord
    <2> SUFFICES ASSUME NEW n \in ns PROVE ExactRecord(n) \in EvidenceRecord
      OBVIOUS
    <2>1. n \in Nat /\ TokensOf({n}) \in [Field -> Nat]
      BY OneCall
    <2>2. <<"call", n, 0>> \in RecordId
      BY <2>1 DEF RecordId
    <2>3. Never \in Int
      BY DEF Never
    <2> QED
      BY <2>1, <2>2, <2>3 DEF ExactRecord, EvidenceRecord
  <1>2. \A m, n \in ns : ExactRecord(m) = ExactRecord(n) => m = n
    <2> SUFFICES ASSUME NEW m \in ns, NEW n \in ns, ExactRecord(m) = ExactRecord(n) PROVE m = n
      OBVIOUS
    <2>1. ExactRecord(m).id = <<"call", m, 0>> /\ ExactRecord(n).id = <<"call", n, 0>>
      BY DEF ExactRecord
    <2>2. <<"call", m, 0>> = <<"call", n, 0>>
      BY <2>1
    <2> QED
      BY <2>2
  <1>3. IsFiniteSet(ns)
    BY CallsOf
  <1>4. IsFiniteSet(ExactRecords(ns))
    <2> DEFINE g == [n \in ns |-> ExactRecord(n)]
    <2>1. g \in Surjection(ns, ExactRecords(ns))
      BY DEF Surjection, ExactRecords
    <2> QED
      BY <1>3, <2>1, FS_Surjection
  <1>5. ExactRecords(ns) \subseteq EvidenceRecord
    BY <1>1 DEF ExactRecords
  <1>6. ASSUME NEW f \in Field PROVE Tokens(ExactRecords(ns))[f] = TokensOf(ns)[f]
    <2> DEFINE A == {n \in ns : calls[n].field = f}
               U == TokenUnits(ExactRecords(ns), f)
               h == [n \in A |-> <<ExactRecord(n), 1>>]
    <2>1. \A n \in ns : ExactRecord(n).tok[f] = IF calls[n].field = f THEN 1 ELSE 0
      BY OneCall DEF ExactRecord
    <2>2. ASSUME NEW u \in U PROVE \E n \in A : u = <<ExactRecord(n), 1>>
      <3>1. PICK n \in ns : u \in {ExactRecord(n)} \X (1..ExactRecord(n).tok[f])
        BY DEF TokenUnits, ExactRecords
      <3>2. calls[n].field = f
        BY <2>1, <3>1
      <3>3. u \in {ExactRecord(n)} \X (1..1)
        BY <2>1, <3>1, <3>2
      <3>4. u = <<ExactRecord(n), 1>>
        BY <3>3
      <3> QED
        BY <3>2, <3>4
    <2>3. ASSUME NEW n \in A PROVE <<ExactRecord(n), 1>> \in U
      <3>1. ExactRecord(n) \in ExactRecords(ns) /\ 1 \in 1..ExactRecord(n).tok[f]
        BY <2>1 DEF ExactRecords
      <3>2. <<ExactRecord(n), 1>> \in {ExactRecord(n)} \X (1..ExactRecord(n).tok[f])
        BY <3>1
      <3> QED
        BY <3>1, <3>2 DEF TokenUnits
    <2>4. h \in [A -> U]
      BY <2>3
    <2>5. \A m, n \in A : h[m] = h[n] => m = n
      BY <1>2
    <2>6. \A u \in U : \E n \in A : h[n] = u
      BY <2>2
    <2> HIDE DEF h, U, A
    <2>7. h \in Bijection(A, U)
      BY <2>4, <2>5, <2>6 DEF Bijection, Injection, Surjection, IsInjective
    <2>8. IsFiniteSet(A) /\ Cardinality(A) = TokensOf(ns)[f]
      BY CallsOf DEF A
    <2>9. ExistsBijection(A, U)
      BY <2>7 DEF ExistsBijection
    <2>10. Cardinality(U) = Cardinality(A)
      BY <2>8, <2>9, FS_Bijection
    <2>11. Tokens(ExactRecords(ns))[f] = Cardinality(TokenUnits(ExactRecords(ns), f))
      BY <1>4, <1>5, SumsAreNat
    <2> QED
      BY <2>8, <2>10, <2>11 DEF U
  <1>7. Calls(ExactRecords(ns)) = Cardinality(ns)
    <2> DEFINE U == CallUnits(ExactRecords(ns))
               h == [n \in ns |-> <<ExactRecord(n), 1>>]
    <2>1. \A n \in ns : ExactRecord(n).calls = 1
      BY DEF ExactRecord
    <2>2. ASSUME NEW u \in U PROVE \E n \in ns : u = <<ExactRecord(n), 1>>
      <3>1. PICK n \in ns : u \in {ExactRecord(n)} \X (1..ExactRecord(n).calls)
        BY DEF CallUnits, ExactRecords
      <3>2. u \in {ExactRecord(n)} \X (1..1)
        BY <2>1, <3>1
      <3> QED
        BY <3>2
    <2>3. ASSUME NEW n \in ns PROVE <<ExactRecord(n), 1>> \in U
      <3>1. ExactRecord(n) \in ExactRecords(ns) /\ 1 \in 1..ExactRecord(n).calls
        BY <2>1 DEF ExactRecords
      <3>2. <<ExactRecord(n), 1>> \in {ExactRecord(n)} \X (1..ExactRecord(n).calls)
        BY <3>1
      <3> QED
        BY <3>1, <3>2 DEF CallUnits
    <2>4. h \in [ns -> U]
      BY <2>3
    <2>5. \A m, n \in ns : h[m] = h[n] => m = n
      BY <1>2
    <2>6. \A u \in U : \E n \in ns : h[n] = u
      BY <2>2
    <2> HIDE DEF h, U
    <2>7. h \in Bijection(ns, U)
      BY <2>4, <2>5, <2>6 DEF Bijection, Injection, Surjection, IsInjective
    <2>8. ExistsBijection(ns, U)
      BY <2>7 DEF ExistsBijection
    <2>9. Cardinality(U) = Cardinality(ns)
      BY <1>3, <2>8, FS_Bijection
    <2>10. Calls(ExactRecords(ns)) = Cardinality(CallUnits(ExactRecords(ns)))
      BY <1>4, <1>5, SumsAreNat
    <2> QED
      BY <2>9, <2>10 DEF U
  <1> QED
    BY <1>4, <1>5, <1>6, <1>7

LEMMA HasLatest ==
    ASSUME NEW S \in SUBSET Nat, S # {}, NEW n \in Nat, \A v \in S : v <= n
    PROVE  \E v \in S : \A w \in S : w <= v
  <1> DEFINE T == {n - v : v \in S}
  <1>1. T \subseteq Nat /\ T # {}
    <2>1. PICK v \in S : TRUE
      OBVIOUS
    <2>2. n - v \in T
      OBVIOUS
    <2>3. \A w \in S : w \in Nat /\ n - w \in Nat
      OBVIOUS
    <2> QED
      BY <2>2, <2>3
  <1>2. PICK x \in T : \A y \in T : ~(<<y, x>> \in OpToRel(<, Nat))
    BY <1>1, WFMin, NatLessThanWellFounded, Zenon
  <1>3. \A y \in T : ~(y < x)
    BY <1>1, <1>2 DEF OpToRel
  <1>4. PICK v \in S : x = n - v
    OBVIOUS
  <1>5. \A w \in S : w <= v
    <2> SUFFICES ASSUME NEW w \in S PROVE w <= v
      OBVIOUS
    <2>1. n - w \in T
      OBVIOUS
    <2>2. ~(n - w < n - v)
      BY <1>3, <1>4, <2>1
    <2> QED
      BY <2>2
  <1> QED
    BY <1>5

-----------------------------------------------------------------------------
\* The calls taken from the log have room in the row.
LEMMA MatchHasRoom ==
    ASSUME EvidenceTypeOK, NEW visible \in Visible, NEW taken \in Match(visible),
           Fits(Tokens(ev), CurrentTotals), keepsCount => Calls(ev) <= Count
    PROVE  /\ taken \in SUBSET DOMAIN calls
           /\ \A f \in Field : TokensOf(taken)[f] <= CurrentTotals[f] - Tokens(ev)[f]
           /\ keepsCount => Cardinality(taken) <= Count - Calls(ev)
           /\ ~keepsCount => taken = {}
  <1>1. taken \in SUBSET DOMAIN calls /\ (~keepsCount => taken = {})
    BY DEF Match, Visible
  <1>2. /\ IsFiniteSet(taken) /\ Cardinality(taken) \in Nat /\ taken \subseteq Nat
        /\ TokensOf(taken) \in [Field -> Nat]
    BY <1>1, CallsOf
  <1>3. /\ Tokens(ev) \in [Field -> Nat] /\ Calls(ev) \in Nat
    BY SumsAreNat DEF EvidenceTypeOK
  <1>4. CurrentTotals \in [Field -> Nat] /\ Count \in Nat
    <2>1. q.who \in SUBSET DOMAIN calls
      BY DEF EvidenceTypeOK, LedgerRow
    <2>2. TokensOf(q.who) \in [Field -> Nat] /\ Cardinality(q.who) \in Nat
      BY <2>1, CallsOf
    <2> QED
      BY <2>2 DEF CurrentTotals, Count
  <1>5. PICK k \in Nat : DOMAIN calls = 1..k
    BY DEF EvidenceTypeOK
  <1>6. \A n \in taken : LET earlier == {m \in taken : m < n}
                         IN  RemainingCalls(earlier) >= 1 /\ Fits(TokensOf({n}), Remaining(earlier))
    BY DEF Match
  <1>7. ASSUME NEW f \in Field PROVE TokensOf(taken)[f] <= CurrentTotals[f] - Tokens(ev)[f]
    <2> DEFINE A == {n \in taken : calls[n].field = f}
    <2>1. IsFiniteSet(A) /\ TokensOf(taken)[f] = Cardinality(A)
      BY <1>1, CallsOf
    <2>2. Tokens(ev)[f] <= CurrentTotals[f] /\ Tokens(ev)[f] \in Nat /\ CurrentTotals[f] \in Nat
      BY <1>3, <1>4 DEF Fits
    <2>3. CASE A = {}
      BY <2>1, <2>2, <2>3, FS_EmptySet
    <2>4. CASE A # {}
      <3>1. A \in SUBSET Nat /\ \A v \in A : v <= k
        BY <1>1, <1>2, <1>5
      <3>2. PICK n \in A : \A m \in A : m <= n
        BY <2>4, <3>1, HasLatest
      <3> DEFINE earlier == {m \in taken : m < n}
      <3>3. earlier \in SUBSET DOMAIN calls
        BY <1>1
      <3>4. TokensOf(earlier) \in [Field -> Nat] /\ TokensOf(earlier)[f] = Cardinality({m \in earlier : calls[m].field = f})
        BY <3>3, CallsOf
      <3>5. {m \in earlier : calls[m].field = f} = A \ {n}
        BY <3>1, <3>2
      <3>6. Cardinality(A \ {n}) = Cardinality(A) - 1
        BY <2>1, <3>2, FS_RemoveElement
      <3>7. Fits(TokensOf({n}), Remaining(earlier))
        BY <1>6
      <3>8. TokensOf({n})[f] = 1
        BY <1>1, OneCall
      <3> HIDE DEF earlier, A
      <3>9. Remaining(earlier)[f] = CurrentTotals[f] - Tokens(ev)[f] - TokensOf(earlier)[f]
        BY DEF Remaining, Minus
      <3>10. 1 <= CurrentTotals[f] - Tokens(ev)[f] - TokensOf(earlier)[f]
        BY <3>7, <3>8, <3>9 DEF Fits
      <3>11. Cardinality(A) \in Nat
        BY <2>1, FS_CardinalityType
      <3> QED
        BY <2>1, <2>2, <3>4, <3>5, <3>6, <3>10, <3>11
    <2> QED
      BY <2>3, <2>4
  <1>8. ASSUME keepsCount PROVE Cardinality(taken) <= Count - Calls(ev)
    <2>1. CASE taken = {}
      BY <1>3, <1>4, <1>8, <2>1, FS_EmptySet
    <2>2. CASE taken # {}
      <3>1. taken \in SUBSET Nat /\ \A v \in taken : v <= k
        BY <1>1, <1>2, <1>5
      <3>2. PICK n \in taken : \A m \in taken : m <= n
        BY <2>2, <3>1, HasLatest
      <3> DEFINE earlier == {m \in taken : m < n}
      <3>3. earlier = taken \ {n}
        <4>1. ASSUME NEW m \in taken PROVE m < n <=> m # n
          <5>1. m \in Nat /\ n \in Nat /\ m <= n
            BY <3>1, <3>2
          <5> QED
            BY <5>1
        <4> QED
          BY <4>1, Zenon
      <3>4. Cardinality(taken \ {n}) = Cardinality(taken) - 1
        BY <1>2, <3>2, FS_RemoveElement
      <3>5. RemainingCalls(earlier) >= 1
        BY <1>6
      <3> HIDE DEF earlier
      <3> QED
        BY <1>2, <1>3, <1>4, <3>3, <3>4, <3>5 DEF RemainingCalls
    <2> QED
      BY <2>1, <2>2
  <1> QED
    BY <1>1, <1>7, <1>8

\* The parts of what a sync collects.
Span(taken) ==
    IF Based(ev) # {} /\ Cutoff # Never /\ Ceiling > Cutoff /\ Remaining(taken) # Nothing
    THEN {[id |-> <<"interval", Base.seq, Revision>>, tok |-> Remaining(taken),
           calls |-> RemainingCalls(taken), seq |-> 1, end |-> Ceiling]}
    ELSE {}
Recorded(taken) == (ev \ Based(ev)) \cup ExactRecords(taken) \cup Span(taken)
NewBase(taken) ==
    [id |-> BaseId, tok |-> Residual(Tokens(Recorded(taken))), calls |-> Count - Calls(Recorded(taken)),
     seq |-> Revision, end |-> End]

LEMMA CollectedParts ==
    ASSUME NEW taken
    PROVE  /\ Stale => CollectEvidence(taken) = {}
           /\ ~Stale => CollectEvidence(taken) = ExactRecords(taken) \cup Span(taken) \cup {NewBase(taken)}
  <1>1. {[id |-> <<"call", n, 0>>, tok |-> TokensOf({n}), calls |-> 1, seq |-> 1, end |-> Never] : n \in taken} = ExactRecords(taken)
    BY DEF ExactRecords, ExactRecord
  <1> QED
    BY <1>1 DEF CollectEvidence, Span, Recorded, NewBase

\* The baseline is one record, and one of the records.
LEMMA BaseOf ==
    ASSUME EvidenceFits, Based(ev) # {}
    PROVE  /\ Base \in ev /\ Base.id = BaseId /\ Based(ev) = {Base} /\ Base \in EvidenceRecord
           /\ Base.seq = 1 + Total(Tokens(ev)) + Calls(ev)
  <1>1. PICK r \in ev : r.id = BaseId
    BY DEF Based
  <1>2. Base \in ev /\ Base.id = BaseId
    BY <1>1 DEF Base
  <1>3. Based(ev) = {Base}
    BY <1>2 DEF EvidenceFits, RecordsFit, Based
  <1> QED
    BY <1>2, <1>3 DEF EvidenceFits, EvidenceTypeOK, RecordsFit

\* What is queried is well typed, and what there is of records before a sync.
LEMMA SyncTypes ==
    ASSUME EvidenceFits
    PROVE  /\ Tokens(ev) \in [Field -> Nat] /\ Calls(ev) \in Nat
           /\ CurrentTotals \in [Field -> Nat] /\ Count \in Nat /\ (~keepsCount => Count = 0)
           /\ Revision = 1 + Total(CurrentTotals) + Count /\ Revision \in Nat
           /\ Cutoff \in Int /\ Ceiling \in Int /\ End \in Int
           /\ Based(ev) = {} => ev = {}
           /\ ev = {} => (\A f \in Field : Tokens(ev)[f] = 0) /\ Calls(ev) = 0
  <1>1. /\ Tokens(ev) \in [Field -> Nat] /\ Calls(ev) \in Nat
    BY SumsAreNat DEF EvidenceFits, EvidenceTypeOK
  <1>2. CurrentTotals \in [Field -> Nat] /\ Count \in Nat /\ (~keepsCount => Count = 0)
    <2>1. EvidenceTypeOK /\ q.who \in SUBSET DOMAIN calls
      BY DEF EvidenceFits, EvidenceTypeOK, LedgerRow
    <2>2. TokensOf(q.who) \in [Field -> Nat] /\ Cardinality(q.who) \in Nat
      BY <2>1, CallsOf
    <2> QED
      BY <2>2 DEF CurrentTotals, Count
  <1>3. Revision = 1 + Total(CurrentTotals) + Count
    BY <1>2 DEF Revision, Total, Field
  <1>4. Revision \in Nat
    BY <1>2 DEF Revision, Field
  <1>5. Cutoff \in Int
    BY BaseOf DEF Cutoff, Never, EvidenceRecord
  <1>6. Ceiling \in Int
    BY DEF EvidenceFits, EvidenceTypeOK, LedgerRow, Ceiling, Never
  <1>7. End \in Int
    BY <1>5, <1>6, BaseOf DEF End, EvidenceRecord
  <1>8. Based(ev) = {} => ev = {}
    BY DEF EvidenceFits, RecordsFit
  <1>9. ev = {} => (\A f \in Field : Tokens(ev)[f] = 0) /\ Calls(ev) = 0
    BY SumOfNone
  <1> QED
    BY <1>1, <1>2, <1>3, <1>4, <1>5, <1>6, <1>7, <1>8, <1>9

\* A row that was not set back has what is recorded.
LEMMA SameRowIsNotStale ==
    ASSUME EvidenceFits, phase = "read", restores = 0
    PROVE  ~Stale
  <1>0. EvidenceTypeOK /\ accepted \in SUBSET DOMAIN calls /\ q.who \in SUBSET DOMAIN calls /\ accepted \subseteq q.who
    BY DEF EvidenceFits, EvidenceTypeOK, LedgerRow, RowsHaveRecorded
  <1>1. SUFFICES ASSUME Based(ev) # {} PROVE ~Stale
    BY DEF Stale
  <1>2. ev # {}
    BY <1>1 DEF Based
  <1>3. Tokens(ev) = TokensOf(accepted) /\ (keepsCount => Calls(ev) = Cardinality(accepted))
    BY <1>2 DEF EvidenceFits, Conserved
  <1>4. \A f \in Field : Tokens(ev)[f] <= CurrentTotals[f]
    <2> SUFFICES ASSUME NEW f \in Field PROVE Tokens(ev)[f] <= CurrentTotals[f]
      OBVIOUS
    <2> DEFINE A == {n \in accepted : calls[n].field = f}
               Q == {n \in q.who : calls[n].field = f}
    <2>1. TokensOf(accepted)[f] = Cardinality(A)
      BY <1>0, CallsOf
    <2>2. IsFiniteSet(Q) /\ CurrentTotals[f] = Cardinality(Q)
      BY <1>0, CallsOf DEF CurrentTotals
    <2>3. A \subseteq Q
      BY <1>0
    <2> HIDE DEF A, Q
    <2>4. Cardinality(A) <= Cardinality(Q)
      BY <2>2, <2>3, FS_Subset
    <2> QED
      BY <1>3, <2>1, <2>2, <2>4
  <1>5. keepsCount => Calls(ev) <= Count
    <2>1. IsFiniteSet(q.who)
      BY <1>0, CallsOf
    <2>2. Cardinality(accepted) <= Cardinality(q.who)
      BY <1>0, <2>1, FS_Subset
    <2> QED
      BY <1>3, <2>2 DEF Count
  <1>6. Calls(ev) <= Count
    BY <1>5, SyncTypes DEF EvidenceFits, RecordsFit
  <1>7. Base.seq = 1 + Total(Tokens(ev)) + Calls(ev)
    BY <1>1, BaseOf
  <1>8. /\ Tokens(ev)["in"] \in Nat /\ Tokens(ev)["out"] \in Nat /\ CurrentTotals["in"] \in Nat /\ CurrentTotals["out"] \in Nat
        /\ Calls(ev) \in Nat /\ Count \in Nat /\ Revision = 1 + Total(CurrentTotals) + Count
    BY SyncTypes DEF Field
  <1>9. Tokens(ev)["in"] <= CurrentTotals["in"] /\ Tokens(ev)["out"] <= CurrentTotals["out"]
    BY <1>4 DEF Field
  <1>10. ~(Revision < Base.seq)
    BY <1>6, <1>7, <1>8, <1>9 DEF Total
  <1>11. ~(keepsCount /\ Count < Calls(ev))
    BY <1>6, <1>8
  <1> QED
    BY <1>4, <1>10, <1>11 DEF Stale, Fits

\* What a row that is not stale leaves room for.
LEMMA RoomLeft ==
    ASSUME EvidenceFits, ~Stale
    PROVE  /\ \A f \in Field : Tokens(ev)[f] <= CurrentTotals[f]
           /\ Fits(Tokens(ev), CurrentTotals)
           /\ Calls(ev) <= Count
           /\ Based(ev) # {} => Base.seq <= Revision
           /\ Based(ev) # {} /\ Base.seq = Revision =>
                 (\A f \in Field : Tokens(ev)[f] = CurrentTotals[f]) /\ Calls(ev) = Count
  <1>1. /\ Tokens(ev) \in [Field -> Nat] /\ CurrentTotals \in [Field -> Nat]
        /\ Calls(ev) \in Nat /\ Count \in Nat /\ (~keepsCount => Count = 0)
        /\ Revision = 1 + Total(CurrentTotals) + Count
    BY SyncTypes
  <1>2. CASE Based(ev) = {}
    <2>1. (\A f \in Field : Tokens(ev)[f] = 0) /\ Calls(ev) = 0
      BY <1>2, SyncTypes
    <2>2. \A f \in Field : CurrentTotals[f] \in Nat
      BY <1>1
    <2>3. \A f \in Field : Tokens(ev)[f] <= CurrentTotals[f]
      BY <2>1, <2>2
    <2> QED
      BY <1>1, <1>2, <2>1, <2>3 DEF Fits
  <1>3. CASE Based(ev) # {}
    <2>1. Fits(Tokens(ev), CurrentTotals) /\ (keepsCount => Calls(ev) <= Count)
      BY <1>1, <1>3 DEF Stale
    <2>2. \A f \in Field : Tokens(ev)[f] <= CurrentTotals[f]
      BY <2>1 DEF Fits
    <2>3. Calls(ev) <= Count
      BY <1>1, <2>1 DEF EvidenceFits, RecordsFit
    <2>4. Base.seq = 1 + Total(Tokens(ev)) + Calls(ev)
      BY <1>3, BaseOf
    <2>5. /\ Tokens(ev)["in"] \in Nat /\ Tokens(ev)["out"] \in Nat /\ CurrentTotals["in"] \in Nat /\ CurrentTotals["out"] \in Nat
      BY <1>1 DEF Field
    <2>6. Tokens(ev)["in"] <= CurrentTotals["in"] /\ Tokens(ev)["out"] <= CurrentTotals["out"]
      BY <2>2 DEF Field
    <2>7. Base.seq <= Revision
      BY <1>1, <2>3, <2>4, <2>5, <2>6 DEF Total
    <2>8. ASSUME Base.seq = Revision PROVE (\A f \in Field : Tokens(ev)[f] = CurrentTotals[f]) /\ Calls(ev) = Count
      <3>1. Tokens(ev)["in"] = CurrentTotals["in"] /\ Tokens(ev)["out"] = CurrentTotals["out"] /\ Calls(ev) = Count
        BY <1>1, <2>3, <2>4, <2>5, <2>6, <2>8 DEF Total
      <3> QED
        BY <3>1 DEF Field
    <2> QED
      BY <2>1, <2>2, <2>3, <2>7, <2>8
  <1> QED
    BY <1>2, <1>3

\* The records besides the baseline.
LEMMA KeptSums ==
    ASSUME EvidenceFits
    PROVE  /\ IsFiniteSet(ev \ Based(ev)) /\ ev \ Based(ev) \subseteq EvidenceRecord
           /\ \A f \in Field : Tokens(ev \ Based(ev))[f] \in Nat
           /\ Calls(ev \ Based(ev)) \in Nat
           /\ Based(ev) # {} => /\ \A f \in Field : Tokens(ev)[f] = Tokens(ev \ Based(ev))[f] + Base.tok[f]
                                /\ Calls(ev) = Calls(ev \ Based(ev)) + Base.calls
           /\ Based(ev) = {} => /\ \A f \in Field : Tokens(ev \ Based(ev))[f] = 0
                                /\ Calls(ev \ Based(ev)) = 0
  <1> DEFINE K == ev \ Based(ev)
  <1>1. IsFiniteSet(K) /\ K \subseteq EvidenceRecord
    BY FS_Subset DEF EvidenceFits, EvidenceTypeOK
  <1>2. (\A f \in Field : Tokens(K)[f] \in Nat) /\ Calls(K) \in Nat
    BY <1>1, SumsAreNat
  <1>3. ASSUME Based(ev) # {}
        PROVE  (\A f \in Field : Tokens(ev)[f] = Tokens(K)[f] + Base.tok[f]) /\ Calls(ev) = Calls(K) + Base.calls
    <2>1. Base \in EvidenceRecord /\ Based(ev) = {Base} /\ Base \in ev
      BY <1>3, BaseOf
    <2>2. ev = K \cup {Base} /\ K \cap {Base} = {}
      BY <2>1
    <2>3. IsFiniteSet({Base}) /\ {Base} \subseteq EvidenceRecord
      BY <2>1, FS_Singleton
    <2> HIDE DEF K
    <2>4. (\A f \in Field : Tokens(K \cup {Base})[f] = Tokens(K)[f] + Tokens({Base})[f]) /\ Calls(K \cup {Base}) = Calls(K) + Calls({Base})
      BY <1>1, <2>2, <2>3, SumsAdd
    <2> QED
      BY <2>1, <2>2, <2>4, SumOfOne
  <1>4. ASSUME Based(ev) = {} PROVE (\A f \in Field : Tokens(K)[f] = 0) /\ Calls(K) = 0
    <2>1. K = {}
      BY <1>4, SyncTypes
    <2> QED
      BY <2>1, SumOfNone
  <1> QED
    BY <1>1, <1>2, <1>3, <1>4

Fresh(taken) == ExactRecords(taken) \cup Span(taken)

\* The calls taken are of the log, are not recorded, and fit into what is left.
LEMMA TakenFits ==
    ASSUME EvidenceFits, ~Stale, NEW visible \in Visible, NEW taken \in Match(visible)
    PROVE  /\ taken \in SUBSET DOMAIN calls
           /\ \A n \in taken : <<"call", n, 0>> \notin {r.id : r \in ev}
           /\ \A f \in Field : /\ TokensOf(taken)[f] \in Nat
                               /\ TokensOf(taken)[f] <= CurrentTotals[f] - Tokens(ev)[f]
           /\ Cardinality(taken) \in Nat /\ Cardinality(taken) <= Count - Calls(ev)
           /\ (\A f \in Field : TokensOf(taken)[f] = 0) => taken = {}
  <1>0. EvidenceTypeOK
    BY DEF EvidenceFits
  <1>1. Fits(Tokens(ev), CurrentTotals) /\ Calls(ev) <= Count
    BY RoomLeft
  <1>2. /\ taken \in SUBSET DOMAIN calls
        /\ \A f \in Field : TokensOf(taken)[f] <= CurrentTotals[f] - Tokens(ev)[f]
        /\ keepsCount => Cardinality(taken) <= Count - Calls(ev)
        /\ ~keepsCount => taken = {}
    BY <1>0, <1>1, MatchHasRoom
  <1>3. \A n \in taken : <<"call", n, 0>> \notin {r.id : r \in ev}
    BY DEF Match
  <1>4. /\ IsFiniteSet(taken) /\ Cardinality(taken) \in Nat /\ TokensOf(taken) \in [Field -> Nat]
        /\ \A f \in Field : /\ IsFiniteSet({n \in taken : calls[n].field = f})
                            /\ TokensOf(taken)[f] = Cardinality({n \in taken : calls[n].field = f})
    BY <1>0, <1>2, CallsOf
  <1>5. Cardinality(taken) <= Count - Calls(ev)
    <2>1. CASE keepsCount
      BY <1>2, <2>1
    <2>2. CASE ~keepsCount
      <3>1. Cardinality(taken) = 0
        BY <1>2, <2>2, FS_EmptySet
      <3>2. Count \in Nat /\ Calls(ev) \in Nat /\ Calls(ev) <= Count
        BY <1>1, SyncTypes
      <3> QED
        BY <3>1, <3>2
    <2> QED
      BY <2>1, <2>2
  <1>6. ASSUME \A f \in Field : TokensOf(taken)[f] = 0 PROVE taken = {}
    <2> SUFFICES ASSUME NEW n \in taken PROVE FALSE
      OBVIOUS
    <2>1. calls[n].field \in Field
      BY <1>0, <1>2, OneCall
    <2> DEFINE f == calls[n].field
               A == {m \in taken : calls[m].field = f}
    <2>2. n \in A
      OBVIOUS
    <2>3. IsFiniteSet(A) /\ Cardinality(A) = 0
      BY <1>4, <1>6, <2>1
    <2>4. A = {}
      BY <2>3, FS_EmptySet
    <2> QED
      BY <2>2, <2>4
  <1> QED
    BY <1>2, <1>3, <1>4, <1>5, <1>6

\* What the interval takes.
LEMMA SpanSums ==
    ASSUME EvidenceFits, ~Stale, NEW visible \in Visible, NEW taken \in Match(visible)
    PROVE  /\ IsFiniteSet(Span(taken)) /\ Span(taken) \subseteq EvidenceRecord
           /\ \A f \in Field : Tokens(Span(taken))[f] \in Nat
           /\ Calls(Span(taken)) \in Nat
           /\ Span(taken) # {} =>
                /\ Based(ev) # {} /\ Span(taken) = {[id |-> <<"interval", Base.seq, Revision>>, tok |-> Remaining(taken),
                                                   calls |-> RemainingCalls(taken), seq |-> 1, end |-> Ceiling]}
                /\ \A f \in Field : Tokens(Span(taken))[f] = CurrentTotals[f] - Tokens(ev)[f] - TokensOf(taken)[f]
                /\ Calls(Span(taken)) = Count - Calls(ev) - Cardinality(taken)
                /\ \E f \in Field : CurrentTotals[f] - Tokens(ev)[f] - TokensOf(taken)[f] # 0
           /\ Span(taken) = {} => (\A f \in Field : Tokens(Span(taken))[f] = 0) /\ Calls(Span(taken)) = 0
  <1>1. CASE Span(taken) = {}
    <2>1. IsFiniteSet({}) /\ (\A f \in Field : Tokens({})[f] = 0) /\ Calls({}) = 0
      BY SumOfNone, FS_EmptySet
    <2> QED
      BY <1>1, <2>1
  <1>2. CASE Span(taken) # {}
    <2> DEFINE s == [id |-> <<"interval", Base.seq, Revision>>, tok |-> Remaining(taken),
                     calls |-> RemainingCalls(taken), seq |-> 1, end |-> Ceiling]
    <2>1. Span(taken) = {s} /\ Based(ev) # {} /\ Remaining(taken) # Nothing
      BY <1>2 DEF Span
    <2>2. /\ Tokens(ev) \in [Field -> Nat] /\ CurrentTotals \in [Field -> Nat]
          /\ Calls(ev) \in Nat /\ Count \in Nat /\ Revision \in Nat /\ Ceiling \in Int
      BY SyncTypes
    <2>3. /\ \A f \in Field : TokensOf(taken)[f] \in Nat /\ TokensOf(taken)[f] <= CurrentTotals[f] - Tokens(ev)[f]
          /\ Cardinality(taken) \in Nat /\ Cardinality(taken) <= Count - Calls(ev)
      BY TakenFits
    <2>4. \A f \in Field : Remaining(taken)[f] = CurrentTotals[f] - Tokens(ev)[f] - TokensOf(taken)[f]
      BY DEF Remaining, Minus
    <2>5. \A f \in Field : Remaining(taken)[f] \in Nat
      <3> SUFFICES ASSUME NEW f \in Field PROVE Remaining(taken)[f] \in Nat
        OBVIOUS
      <3>1. Tokens(ev)[f] \in Nat /\ CurrentTotals[f] \in Nat
        BY <2>2
      <3> QED
        BY <2>3, <2>4, <3>1
    <2>6. Remaining(taken) \in [Field -> Nat]
      BY <2>5 DEF Remaining, Minus
    <2>7. RemainingCalls(taken) \in Nat
      BY <2>2, <2>3 DEF RemainingCalls
    <2>8. Base.seq \in Nat
      BY <2>1, BaseOf DEF EvidenceRecord
    <2>9. <<"interval", Base.seq, Revision>> \in RecordId
      BY <2>2, <2>8 DEF RecordId
    <2>10. s \in EvidenceRecord
      BY <2>2, <2>6, <2>7, <2>9 DEF EvidenceRecord
    <2>11. s.tok = Remaining(taken) /\ s.calls = RemainingCalls(taken)
      OBVIOUS
    <2>12. \E f \in Field : Remaining(taken)[f] # 0
      <3> SUFFICES ASSUME \A f \in Field : Remaining(taken)[f] = 0 PROVE FALSE
        OBVIOUS
      <3>1. Remaining(taken) = [f \in Field |-> Remaining(taken)[f]]
        BY <2>6
      <3>2. Remaining(taken) = Nothing
        BY <3>1 DEF Nothing
      <3> QED
        BY <2>1, <3>2
    <2>13. \E f \in Field : CurrentTotals[f] - Tokens(ev)[f] - TokensOf(taken)[f] # 0
      BY <2>4, <2>12
    <2> HIDE DEF s
    <2>14. /\ IsFiniteSet({s}) /\ (\A f \in Field : Tokens({s})[f] = s.tok[f]) /\ Calls({s}) = s.calls
      BY <2>10, SumOfOne
    <2>15. \A f \in Field : Tokens({s})[f] = Remaining(taken)[f]
      BY <2>11, <2>14
    <2>16. Calls({s}) = Count - Calls(ev) - Cardinality(taken)
      BY <2>11, <2>14 DEF RemainingCalls
    <2>17. Calls({s}) \in Nat
      BY <2>7, <2>11, <2>14
    <2> QED
      BY <1>2, <2>1, <2>4, <2>5, <2>10, <2>13, <2>14, <2>15, <2>16, <2>17 DEF s
  <1> QED
    BY <1>1, <1>2

\* What is collected next to the baseline was not recorded before; and an old
\* revision collects nothing next to it.
LEMMA FreshIsNew ==
    ASSUME EvidenceFits, ~Stale, NEW visible \in Visible, NEW taken \in Match(visible)
    PROVE  /\ \A r \in Fresh(taken) : r.id # BaseId /\ \A s \in ev : s.id # r.id
           /\ \A r \in ExactRecords(taken), s \in Span(taken) : r.id # s.id
           /\ Based(ev) # {} /\ Base.seq = Revision => taken = {} /\ Span(taken) = {}
  <1>1. ASSUME Based(ev) # {}, Base.seq = Revision PROVE taken = {} /\ Span(taken) = {}
    <2>1. \A f \in Field : Tokens(ev)[f] = CurrentTotals[f] /\ Tokens(ev)[f] \in Nat
      BY <1>1, RoomLeft, SyncTypes
    <2>2. \A f \in Field : TokensOf(taken)[f] \in Nat /\ TokensOf(taken)[f] <= CurrentTotals[f] - Tokens(ev)[f]
      BY TakenFits
    <2>3. \A f \in Field : TokensOf(taken)[f] = 0
      BY <2>1, <2>2
    <2>4. taken = {}
      BY <2>3, TakenFits
    <2>5. \A f \in Field : CurrentTotals[f] - Tokens(ev)[f] - TokensOf(taken)[f] = 0
      BY <2>1, <2>3
    <2> QED
      BY <2>4, <2>5, SpanSums
  <1>2. ASSUME NEW r \in ExactRecords(taken) PROVE r.id # BaseId /\ (\A s \in ev : s.id # r.id) /\ r.id[1] = "call"
    <2>0. PICK n \in taken : r = ExactRecord(n)
      BY DEF ExactRecords
    <2>1. r.id = <<"call", n, 0>>
      BY <2>0 DEF ExactRecord
    <2>2. \A s \in ev : s.id # <<"call", n, 0>>
      BY TakenFits
    <2>3. r.id[1] = "call" /\ BaseId[1] = "baseline"
      BY <2>1 DEF BaseId
    <2>4. r.id # BaseId
      BY <2>3
    <2>5. \A s \in ev : s.id # r.id
      BY <2>1, <2>2
    <2> QED
      BY <2>3, <2>4, <2>5
  <1>3. ASSUME NEW r \in Span(taken) PROVE r.id # BaseId /\ (\A s \in ev : s.id # r.id) /\ r.id[1] = "interval"
    <2>1. Based(ev) # {} /\ r.id = <<"interval", Base.seq, Revision>>
      BY SpanSums
    <2>2. r.id[1] = "interval" /\ BaseId[1] = "baseline"
      BY <2>1 DEF BaseId
    <2>3. Base.seq # Revision
      BY <1>1, <2>1
    <2>4. Base.seq \in Nat /\ Revision \in Nat /\ Base.seq <= Revision /\ Base.seq = 1 + Total(Tokens(ev)) + Calls(ev)
      BY <2>1, BaseOf, SyncTypes, RoomLeft DEF EvidenceRecord
    <2>5. ASSUME NEW s \in ev, s.id = <<"interval", Base.seq, Revision>> PROVE FALSE
      <3>1. Revision <= 1 + Total(Tokens(ev)) + Calls(ev)
        BY <2>4, <2>5 DEF EvidenceFits, RecordsFit
      <3> QED
        BY <2>3, <2>4, <3>1
    <2> QED
      BY <2>1, <2>2, <2>5
  <1>4. \A r \in ExactRecords(taken), s \in Span(taken) : r.id # s.id
    BY <1>2, <1>3
  <1> QED
    BY <1>1, <1>2, <1>3, <1>4 DEF Fresh

\* The records a sync leaves next to the baseline, and the rest it puts there.
LEMMA RecordedSums ==
    ASSUME EvidenceFits, ~Stale, NEW visible \in Visible, NEW taken \in Match(visible)
    PROVE  /\ IsFiniteSet(Recorded(taken)) /\ Recorded(taken) \subseteq EvidenceRecord
           /\ \A f \in Field : /\ Tokens(Recorded(taken))[f] \in Nat
                               /\ Tokens(Recorded(taken))[f] <= CurrentTotals[f]
           /\ Calls(Recorded(taken)) \in Nat /\ Calls(Recorded(taken)) <= Count
           /\ Based(ev) # {} => \A f \in Field : Base.tok[f] <= CurrentTotals[f] - Tokens(Recorded(taken))[f]
           /\ Based(ev) # {} /\ Base.seq = Revision => Recorded(taken) = ev \ Based(ev)
  <1> DEFINE K == ev \ Based(ev)
             X == ExactRecords(taken)
             Z == Span(taken)
  <1>0. EvidenceTypeOK /\ taken \in SUBSET DOMAIN calls
    BY TakenFits DEF EvidenceFits
  <1>1. IsFiniteSet(K) /\ K \subseteq EvidenceRecord
    BY KeptSums
  <1>2. /\ IsFiniteSet(X) /\ X \subseteq EvidenceRecord
        /\ \A f \in Field : Tokens(X)[f] = TokensOf(taken)[f]
        /\ Calls(X) = Cardinality(taken)
    BY <1>0, ExactSums
  <1>3. IsFiniteSet(Z) /\ Z \subseteq EvidenceRecord
    BY SpanSums
  <1>4. K \cap X = {} /\ (K \cup X) \cap Z = {}
    <2>1. \A r \in X \cup Z : \A s \in ev : s.id # r.id
      BY FreshIsNew DEF Fresh
    <2>2. \A r \in X, s \in Z : r.id # s.id
      BY FreshIsNew
    <2> QED
      BY <2>1, <2>2
  <1>5. Recorded(taken) = (K \cup X) \cup Z
    BY DEF Recorded
  <1>6. /\ \A f \in Field : Tokens(K)[f] \in Nat
        /\ Calls(K) \in Nat
        /\ Based(ev) # {} => /\ \A f \in Field : Tokens(ev)[f] = Tokens(K)[f] + Base.tok[f]
                             /\ Calls(ev) = Calls(K) + Base.calls
        /\ Based(ev) = {} => (\A f \in Field : Tokens(K)[f] = 0) /\ Calls(K) = 0
    BY KeptSums
  <1>7. /\ \A f \in Field : Tokens(Z)[f] \in Nat
        /\ Calls(Z) \in Nat
        /\ Z # {} => /\ \A f \in Field : Tokens(Z)[f] = CurrentTotals[f] - Tokens(ev)[f] - TokensOf(taken)[f]
                     /\ Calls(Z) = Count - Calls(ev) - Cardinality(taken)
        /\ Z = {} => (\A f \in Field : Tokens(Z)[f] = 0) /\ Calls(Z) = 0
    BY SpanSums
  <1>8. Based(ev) # {} /\ Base.seq = Revision => Recorded(taken) = ev \ Based(ev)
    <2> SUFFICES ASSUME Based(ev) # {}, Base.seq = Revision PROVE Recorded(taken) = ev \ Based(ev)
      OBVIOUS
    <2>1. taken = {} /\ Z = {}
      BY FreshIsNew
    <2>2. X = {}
      BY <2>1 DEF ExactRecords
    <2> QED
      BY <1>5, <2>1, <2>2
  <1> HIDE DEF K, X, Z
  <1>9. /\ IsFiniteSet(K \cup X) /\ K \cup X \subseteq EvidenceRecord
        /\ \A f \in Field : Tokens(K \cup X)[f] = Tokens(K)[f] + Tokens(X)[f]
        /\ Calls(K \cup X) = Calls(K) + Calls(X)
    BY <1>1, <1>2, <1>4, SumsAdd
  <1>10. /\ IsFiniteSet((K \cup X) \cup Z) /\ (K \cup X) \cup Z \subseteq EvidenceRecord
         /\ \A f \in Field : Tokens((K \cup X) \cup Z)[f] = Tokens(K \cup X)[f] + Tokens(Z)[f]
         /\ Calls((K \cup X) \cup Z) = Calls(K \cup X) + Calls(Z)
    BY <1>3, <1>4, <1>9, SumsAdd
  <1>11. ASSUME NEW f \in Field
         PROVE  /\ Tokens(Recorded(taken))[f] \in Nat
                /\ Tokens(Recorded(taken))[f] <= CurrentTotals[f]
                /\ Based(ev) # {} => Base.tok[f] <= CurrentTotals[f] - Tokens(Recorded(taken))[f]
    <2>1. Tokens(Recorded(taken))[f] = Tokens(K)[f] + TokensOf(taken)[f] + Tokens(Z)[f]
      BY <1>2, <1>5, <1>9, <1>10
    <2>2. /\ Tokens(ev)[f] \in Nat /\ CurrentTotals[f] \in Nat /\ Tokens(ev)[f] <= CurrentTotals[f]
          /\ TokensOf(taken)[f] \in Nat /\ TokensOf(taken)[f] <= CurrentTotals[f] - Tokens(ev)[f]
      BY SyncTypes, RoomLeft, TakenFits
    <2>3. Tokens(Z)[f] \in Nat /\ TokensOf(taken)[f] + Tokens(Z)[f] <= CurrentTotals[f] - Tokens(ev)[f]
      BY <1>7, <2>2
    <2>4. Tokens(K)[f] \in Nat
      BY <1>6
    <2>5. CASE Based(ev) # {}
      <3>1. Base.tok[f] \in Nat
        BY <2>5, BaseOf DEF EvidenceRecord
      <3>2. Tokens(ev)[f] = Tokens(K)[f] + Base.tok[f]
        BY <1>6, <2>5
      <3> QED
        BY <2>1, <2>2, <2>3, <2>4, <3>1, <3>2
    <2>6. CASE Based(ev) = {}
      <3>1. Tokens(K)[f] = 0
        BY <1>6, <2>6
      <3> QED
        BY <2>1, <2>2, <2>3, <2>6, <3>1
    <2> QED
      BY <2>5, <2>6
  <1>12. Calls(Recorded(taken)) \in Nat /\ Calls(Recorded(taken)) <= Count
    <2>1. Calls(Recorded(taken)) = Calls(K) + Cardinality(taken) + Calls(Z)
      BY <1>2, <1>5, <1>9, <1>10
    <2>2. /\ Calls(ev) \in Nat /\ Count \in Nat /\ Calls(ev) <= Count
          /\ Cardinality(taken) \in Nat /\ Cardinality(taken) <= Count - Calls(ev)
      BY SyncTypes, RoomLeft, TakenFits
    <2>3. Calls(Z) \in Nat /\ Cardinality(taken) + Calls(Z) <= Count - Calls(ev)
      BY <1>7, <2>2
    <2>4. Calls(K) \in Nat
      BY <1>6
    <2>5. CASE Based(ev) # {}
      <3>1. Base.calls \in Nat
        BY <2>5, BaseOf DEF EvidenceRecord
      <3>2. Calls(ev) = Calls(K) + Base.calls
        BY <1>6, <2>5
      <3> QED
        BY <2>1, <2>2, <2>3, <2>4, <3>1, <3>2
    <2>6. CASE Based(ev) = {}
      <3>1. Calls(K) = 0
        BY <1>6, <2>6
      <3> QED
        BY <2>1, <2>2, <2>3, <3>1
    <2> QED
      BY <2>5, <2>6
  <1> QED
    BY <1>5, <1>8, <1>10, <1>11, <1>12

\* The new baseline is the old one for its revision, and grows for another.
LEMMA NewBaseFits ==
    ASSUME EvidenceFits, ~Stale, NEW visible \in Visible, NEW taken \in Match(visible)
    PROVE  /\ NewBase(taken) \in EvidenceRecord /\ NewBase(taken).id = BaseId /\ NewBase(taken).seq = Revision
           /\ \A f \in Field : NewBase(taken).tok[f] = CurrentTotals[f] - Tokens(Recorded(taken))[f]
           /\ NewBase(taken).calls = Count - Calls(Recorded(taken))
           /\ Based(ev) # {} => /\ Base.seq <= Revision
                                /\ Fits(Base.tok, NewBase(taken).tok)
                                /\ Base.seq = Revision => NewBase(taken) = Base
  <1> DEFINE R == Recorded(taken)
  <1>1. NewBase(taken) = [id |-> BaseId, tok |-> Residual(Tokens(R)), calls |-> Count - Calls(R), seq |-> Revision, end |-> End]
    BY DEF NewBase
  <1>2. /\ \A f \in Field : Tokens(R)[f] \in Nat /\ Tokens(R)[f] <= CurrentTotals[f]
        /\ Calls(R) \in Nat /\ Calls(R) <= Count
    BY RecordedSums
  <1>3. /\ CurrentTotals \in [Field -> Nat] /\ Count \in Nat /\ Revision \in Nat /\ End \in Int
    BY SyncTypes
  <1>4. \A f \in Field : Residual(Tokens(R))[f] = CurrentTotals[f] - Tokens(R)[f]
    BY DEF Residual, Minus
  <1>5. \A f \in Field : Residual(Tokens(R))[f] \in Nat
    <2> SUFFICES ASSUME NEW f \in Field PROVE Residual(Tokens(R))[f] \in Nat
      OBVIOUS
    <2>1. CurrentTotals[f] \in Nat
      BY <1>3
    <2> QED
      BY <1>2, <1>4, <2>1
  <1>6. Residual(Tokens(R)) \in [Field -> Nat]
    BY <1>5 DEF Residual, Minus
  <1>7. Count - Calls(R) \in Nat
    BY <1>2, <1>3
  <1>8. BaseId \in RecordId
    BY DEF RecordId
  <1>9. NewBase(taken) \in EvidenceRecord
    BY <1>1, <1>3, <1>6, <1>7, <1>8 DEF EvidenceRecord
  <1>10. ASSUME Based(ev) # {} PROVE Base.seq <= Revision /\ Fits(Base.tok, Residual(Tokens(R)))
    <2>1. Base.seq <= Revision
      BY <1>10, RoomLeft
    <2>2. \A f \in Field : Base.tok[f] <= CurrentTotals[f] - Tokens(R)[f]
      BY <1>10, RecordedSums
    <2> QED
      BY <1>4, <2>1, <2>2 DEF Fits
  <1>11. ASSUME Based(ev) # {}, Base.seq = Revision PROVE NewBase(taken) = Base
    <2>1. R = ev \ Based(ev)
      BY <1>11, RecordedSums
    <2>2. /\ \A f \in Field : Tokens(ev)[f] = Tokens(R)[f] + Base.tok[f]
          /\ Calls(ev) = Calls(R) + Base.calls
      BY <1>11, <2>1, KeptSums
    <2>3. (\A f \in Field : Tokens(ev)[f] = CurrentTotals[f]) /\ Calls(ev) = Count
      BY <1>11, RoomLeft
    <2>4. Base \in EvidenceRecord /\ Base.id = BaseId
      BY <1>11, BaseOf
    <2>5. Base.tok \in [Field -> Nat] /\ Base.calls \in Nat
      BY <2>4 DEF EvidenceRecord
    <2>6. ASSUME NEW f \in Field PROVE Residual(Tokens(R))[f] = Base.tok[f]
      <3>1. Base.tok[f] \in Nat /\ Tokens(R)[f] \in Nat
        BY <1>2, <2>5
      <3> QED
        BY <1>4, <2>2, <2>3, <3>1
    <2>7. Residual(Tokens(R)) = Base.tok
      BY <1>6, <2>5, <2>6
    <2>8. Count - Calls(R) = Base.calls
      BY <1>2, <2>2, <2>3, <2>5
    <2>9. End = Base.end
      BY <1>11 DEF End
    <2>10. Base = [id |-> Base.id, tok |-> Base.tok, calls |-> Base.calls, seq |-> Base.seq, end |-> Base.end]
      BY <2>4 DEF EvidenceRecord
    <2> QED
      BY <1>1, <1>11, <2>4, <2>7, <2>8, <2>9, <2>10
  <1> HIDE DEF R
  <1>12. /\ NewBase(taken).id = BaseId /\ NewBase(taken).seq = Revision
         /\ NewBase(taken).tok = Residual(Tokens(R)) /\ NewBase(taken).calls = Count - Calls(R)
    BY <1>1
  <1> QED
    BY <1>4, <1>9, <1>10, <1>11, <1>12 DEF R

\* What the ledger is after a sync of a row that is not stale.
Merged(taken) == Recorded(taken) \cup {NewBase(taken)}

\* A sync meets the record of an identity again only as the same record or in
\* a later revision.
LEMMA CollectedSupersede ==
    ASSUME EvidenceFits, ~Stale, NEW visible \in Visible, NEW taken \in Match(visible),
           NEW r \in CollectEvidence(taken), NEW prev \in ev, prev.id = r.id
    PROVE  r = NewBase(taken) /\ prev = Base /\ Based(ev) # {} /\ ~Older(r, prev) /\ ~(r.seq = prev.seq /\ r # prev)
  <1>1. r \in Fresh(taken) \cup {NewBase(taken)}
    BY CollectedParts DEF Fresh
  <1>2. r = NewBase(taken)
    BY <1>1, FreshIsNew
  <1>3. r.id = BaseId /\ r.seq = Revision
    BY <1>2, NewBaseFits
  <1>4. prev \in Based(ev)
    BY <1>3 DEF Based
  <1>5. prev = Base
    BY <1>4, BaseOf
  <1>6. Base.seq <= Revision /\ (Base.seq = Revision => NewBase(taken) = Base)
    BY <1>4, NewBaseFits
  <1>7. Base.seq \in Nat /\ Revision \in Nat
    BY <1>4, BaseOf, SyncTypes DEF EvidenceRecord
  <1> QED
    BY <1>2, <1>3, <1>4, <1>5, <1>6, <1>7 DEF Older

\* EvidenceQueue.merge: the new baseline takes the place of the old one.
LEMMA MergeOf ==
    ASSUME EvidenceFits, ~Stale, NEW visible \in Visible, NEW taken \in Match(visible)
    PROVE  {r \in ev : ~\E n \in CollectEvidence(taken) : n.id = r.id /\ ~Older(n, r)}
             \cup {n \in CollectEvidence(taken) : ~\E r \in ev : r.id = n.id /\ Older(n, r)} = Merged(taken)
  <1> DEFINE out == CollectEvidence(taken)
  <1>1. out = Fresh(taken) \cup {NewBase(taken)}
    BY CollectedParts DEF Fresh
  <1>2. \A n \in out : ~\E r \in ev : r.id = n.id /\ Older(n, r)
    BY CollectedSupersede
  <1>3. {n \in out : ~\E r \in ev : r.id = n.id /\ Older(n, r)} = out
    BY <1>2
  <1>4. ASSUME NEW r \in ev PROVE (\E n \in out : n.id = r.id /\ ~Older(n, r)) <=> r \in Based(ev)
    <2>1. ASSUME NEW n \in out, n.id = r.id PROVE r \in Based(ev)
      BY <2>1, CollectedSupersede, BaseOf
    <2>2. ASSUME r \in Based(ev) PROVE \E n \in out : n.id = r.id /\ ~Older(n, r)
      <3>1. r.id = BaseId /\ NewBase(taken).id = BaseId /\ NewBase(taken) \in out
        BY <1>1, <2>2, NewBaseFits DEF Based
      <3>2. ~Older(NewBase(taken), r)
        BY <1>2, <3>1
      <3> QED
        BY <3>1, <3>2
    <2> QED
      BY <2>1, <2>2
  <1>5. {r \in ev : ~\E n \in out : n.id = r.id /\ ~Older(n, r)} = ev \ Based(ev)
    BY <1>4
  <1>6. Merged(taken) = (ev \ Based(ev)) \cup Fresh(taken) \cup {NewBase(taken)}
    BY DEF Merged, Recorded, Fresh
  <1> HIDE DEF out
  <1>7. {r \in ev : ~\E n \in out : n.id = r.id /\ ~Older(n, r)}
             \cup {n \in out : ~\E r \in ev : r.id = n.id /\ Older(n, r)} = Merged(taken)
    BY <1>1, <1>3, <1>5, <1>6, Zenon
  <1> QED
    BY <1>7 DEF out

\* The merged records are the row.
LEMMA MergedFits ==
    ASSUME EvidenceFits, ~Stale, NEW visible \in Visible, NEW taken \in Match(visible)
    PROVE  /\ IsFiniteSet(Merged(taken)) /\ Merged(taken) \subseteq EvidenceRecord
           /\ Tokens(Merged(taken)) = CurrentTotals /\ Calls(Merged(taken)) = Count
           /\ \A r, s \in Merged(taken) : r.id = s.id => r = s
           /\ NewBase(taken) \in Based(Merged(taken))
           /\ \A r \in Merged(taken) : r.id = BaseId => r.seq = Revision
           /\ \A r \in Merged(taken) : \A a, b \in Nat : r.id = <<"interval", a, b>> => b <= Revision
           /\ \A r \in ev : \E t \in Merged(taken) : t.id = r.id /\ (t = r \/ (t.seq > r.seq /\ Fits(r.tok, t.tok)))
  <1> DEFINE R == Recorded(taken)
             B == NewBase(taken)
  <1>1. /\ IsFiniteSet(R) /\ R \subseteq EvidenceRecord
        /\ \A f \in Field : Tokens(R)[f] \in Nat /\ Tokens(R)[f] <= CurrentTotals[f]
        /\ Calls(R) \in Nat /\ Calls(R) <= Count
    BY RecordedSums
  <1>2. /\ B \in EvidenceRecord /\ B.id = BaseId /\ B.seq = Revision
        /\ \A f \in Field : B.tok[f] = CurrentTotals[f] - Tokens(R)[f]
        /\ B.calls = Count - Calls(R)
    BY NewBaseFits
  <1>3. R = (ev \ Based(ev)) \cup Fresh(taken)
    BY DEF Recorded, Fresh
  <1>4. \A r \in R : r.id # BaseId
    BY <1>3, FreshIsNew DEF Based
  <1>5. R \cap {B} = {}
    BY <1>2, <1>4
  <1>6. /\ CurrentTotals \in [Field -> Nat] /\ Count \in Nat /\ Revision \in Nat
    BY SyncTypes
  <1>7. Merged(taken) = R \cup {B}
    BY DEF Merged
  <1>8. \A r, s \in R : r.id = s.id => r = s
    <2> SUFFICES ASSUME NEW r \in R, NEW s \in R, r.id = s.id PROVE r = s
      OBVIOUS
    <2>1. CASE r \in ev /\ s \in ev
      BY <2>1 DEF EvidenceFits, RecordsFit
    <2>2. CASE (r \in ev /\ s \in Fresh(taken)) \/ (s \in ev /\ r \in Fresh(taken))
      BY <2>2, FreshIsNew
    <2>3. CASE r \in ExactRecords(taken) /\ s \in ExactRecords(taken)
      <3>1. PICK m \in taken : r = ExactRecord(m)
        BY <2>3 DEF ExactRecords
      <3>2. PICK n \in taken : s = ExactRecord(n)
        BY <2>3 DEF ExactRecords
      <3>6. ExactRecord(m).id = <<"call", m, 0>> /\ ExactRecord(n).id = <<"call", n, 0>>
        BY DEF ExactRecord
      <3>3. ExactRecord(m).id = ExactRecord(n).id
        BY <3>1, <3>2
      <3>4. <<"call", m, 0>> = <<"call", n, 0>>
        BY <3>3, <3>6
      <3>5. m = n
        BY <3>4
      <3> QED
        BY <3>1, <3>2, <3>5
    <2>4. CASE (r \in ExactRecords(taken) /\ s \in Span(taken)) \/ (s \in ExactRecords(taken) /\ r \in Span(taken))
      BY <2>4, FreshIsNew
    <2>5. CASE r \in Span(taken) /\ s \in Span(taken)
      BY <2>5, SpanSums
    <2> QED
      BY <1>3, <2>1, <2>2, <2>3, <2>4, <2>5 DEF Fresh
  <1>9. \A r \in R : \A a, b \in Nat : r.id = <<"interval", a, b>> => b <= Revision
    <2> SUFFICES ASSUME NEW r \in R, NEW a \in Nat, NEW b \in Nat, r.id = <<"interval", a, b>> PROVE b <= Revision
      OBVIOUS
    <2>1. CASE r \in ev \ Based(ev)
      <3>1. b <= 1 + Total(Tokens(ev)) + Calls(ev)
        BY <2>1 DEF EvidenceFits, RecordsFit
      <3>2. Based(ev) # {}
        BY <2>1, SyncTypes
      <3>3. Base.seq = 1 + Total(Tokens(ev)) + Calls(ev) /\ Base.seq <= Revision /\ Base.seq \in Nat
        BY <3>2, BaseOf, RoomLeft DEF EvidenceRecord
      <3> QED
        BY <1>6, <3>1, <3>3
    <2>2. CASE r \in ExactRecords(taken)
      <3>1. PICK n \in taken : r = ExactRecord(n)
        BY <2>2 DEF ExactRecords
      <3>2. r.id = <<"call", n, 0>>
        BY <3>1 DEF ExactRecord
      <3>3. r.id[1] = "call" /\ r.id[1] = "interval"
        BY <3>2
      <3> QED
        BY <3>3
    <2>3. CASE r \in Span(taken)
      <3>1. r.id = <<"interval", Base.seq, Revision>>
        BY <2>3, SpanSums
      <3>2. r.id[3] = b /\ r.id[3] = Revision
        BY <3>1
      <3> QED
        BY <1>6, <3>2
    <2> QED
      BY <1>3, <2>1, <2>2, <2>3 DEF Fresh
  <1>10. ASSUME NEW r \in ev PROVE \E t \in R \cup {B} : t.id = r.id /\ (t = r \/ (t.seq > r.seq /\ Fits(r.tok, t.tok)))
    <2>1. CASE r \notin Based(ev)
      BY <1>3, <2>1
    <2>2. CASE r \in Based(ev)
      <3>1. r = Base /\ r.id = BaseId /\ r \in EvidenceRecord
        BY <2>2, BaseOf
      <3>2. Base.seq <= Revision /\ Fits(Base.tok, B.tok) /\ (Base.seq = Revision => B = Base)
        BY <2>2, NewBaseFits
      <3>3. r.seq \in Nat
        BY <3>1 DEF EvidenceRecord
      <3>4. B = r \/ (B.seq > r.seq /\ Fits(r.tok, B.tok))
        BY <1>2, <1>6, <3>1, <3>2, <3>3
      <3> QED
        BY <1>2, <3>1, <3>4
    <2> QED
      BY <2>1, <2>2
  <1> HIDE DEF R, B
  <1>11. IsFiniteSet({B}) /\ {B} \subseteq EvidenceRecord /\ (\A f \in Field : Tokens({B})[f] = B.tok[f]) /\ Calls({B}) = B.calls
    BY <1>2, SumOfOne
  <1>12. /\ IsFiniteSet(R \cup {B})
         /\ \A f \in Field : Tokens(R \cup {B})[f] = Tokens(R)[f] + Tokens({B})[f]
         /\ Calls(R \cup {B}) = Calls(R) + Calls({B})
    BY <1>1, <1>5, <1>11, SumsAdd
  <1>13. \A f \in Field : Tokens(R \cup {B})[f] = CurrentTotals[f]
    <2> SUFFICES ASSUME NEW f \in Field PROVE Tokens(R \cup {B})[f] = CurrentTotals[f]
      OBVIOUS
    <2>1. Tokens(R)[f] \in Nat /\ CurrentTotals[f] \in Nat
      BY <1>1, <1>6
    <2>2. Tokens({B})[f] = CurrentTotals[f] - Tokens(R)[f]
      BY <1>2, <1>11 DEF R
    <2>3. Tokens(R \cup {B})[f] = Tokens(R)[f] + Tokens({B})[f]
      BY <1>12
    <2> QED
      BY <2>1, <2>2, <2>3
  <1>14. Calls(R \cup {B}) = Count
    BY <1>1, <1>2, <1>6, <1>11, <1>12
  <1>15. Tokens(R \cup {B}) = CurrentTotals
    <2>1. Tokens(R \cup {B}) \in [Field -> Nat]
      BY <1>1, <1>11, <1>12, SumsAreNat
    <2> QED
      BY <1>6, <1>13, <2>1
  <1>16. IsFiniteSet(R \cup {B}) /\ R \cup {B} \subseteq EvidenceRecord
    BY <1>1, <1>2, <1>12
  <1>17. \A r, s \in R \cup {B} : r.id = s.id => r = s
    BY <1>2, <1>4, <1>8
  <1>18. B \in Based(R \cup {B})
    BY <1>2 DEF Based
  <1>19. \A r \in R \cup {B} : r.id = BaseId => r.seq = Revision
    BY <1>2, <1>4
  <1>20. \A r \in R \cup {B} : \A a, b \in Nat : r.id = <<"interval", a, b>> => b <= Revision
    <2>1. \A a, b \in Nat : B.id # <<"interval", a, b>>
      BY <1>2 DEF BaseId
    <2> QED
      BY <1>9, <2>1
  <1> QED
    BY <1>7, <1>10, <1>14, <1>15, <1>16, <1>17, <1>18, <1>19, <1>20 DEF B

-----------------------------------------------------------------------------
LEMMA EvidenceInitFits == EvidenceInit => EvidenceFits
  <1> SUFFICES ASSUME EvidenceInit PROVE EvidenceFits
    OBVIOUS
  <1>1. /\ evidenceNow = 1 /\ calls = <<>> /\ led = NoRow /\ copy = led
        /\ keepsCount \in BOOLEAN /\ phase = "idle" /\ q = NoRow /\ ev = {}
        /\ restores = 0 /\ accepted = {}
    BY DEF EvidenceInit
  <1>2. EvidenceTypeOK
    <2>1. 0 \in Nat /\ calls \in [1..0 -> CallMade]
      BY <1>1
    <2>2. NoRow \in LedgerRow
      BY DEF NoRow, LedgerRow
    <2>3. IsFiniteSet(ev) /\ ev \subseteq EvidenceRecord
      BY <1>1, FS_EmptySet
    <2>4. \E k \in Nat : calls \in [1..k -> CallMade]
      BY <2>1
    <2> QED
      BY <1>1, <2>2, <2>3, <2>4 DEF EvidenceTypeOK
  <1>3. RowsHaveRecorded
    BY <1>1 DEF RowsHaveRecorded
  <1>4. RecordsFit
    BY <1>1, SumOfNone DEF RecordsFit
  <1>5. Conserved
    BY <1>1 DEF Conserved
  <1> QED
    BY <1>2, <1>3, <1>4, <1>5 DEF EvidenceFits

\* A call made changes nothing of the calls made before.
LEMMA MakeCallKeeps ==
    ASSUME EvidenceFits, MakeCall
    PROVE  EvidenceFits'
  <1>1. PICK k \in Nat : calls \in [1..k -> CallMade]
    BY DEF EvidenceFits, EvidenceTypeOK
  <1>2. Cardinality(DOMAIN calls) = k /\ DOMAIN calls = 1..k
    BY <1>1, FS_Interval
  <1>3. UNCHANGED <<evidenceNow, led, copy, keepsCount, restores, phase, q, ev, accepted>>
    BY DEF MakeCall
  <1>4. PICK f \in Field, logged \in BOOLEAN :
          calls' = [n \in 1..(k + 1) |-> IF n \in DOMAIN calls THEN calls[n] ELSE [field |-> f, time |-> IF logged THEN evidenceNow ELSE Never]]
    <2>1. \E f \in IF calls = <<>> THEN {"in"} ELSE Field, logged \in BOOLEAN :
            calls' = [n \in 1..(Cardinality(DOMAIN calls) + 1) |->
                      IF n \in DOMAIN calls THEN calls[n] ELSE [field |-> f, time |-> IF logged THEN evidenceNow ELSE Never]]
      BY DEF MakeCall
    <2>2. (IF calls = <<>> THEN {"in"} ELSE Field) \subseteq Field
      BY DEF Field
    <2> QED
      BY <1>2, <2>1, <2>2
  <1>5. [field |-> f, time |-> IF logged THEN evidenceNow ELSE Never] \in CallMade
    BY DEF EvidenceFits, EvidenceTypeOK, CallMade, Never
  <1>6. calls' \in [1..(k + 1) -> CallMade]
    BY <1>1, <1>2, <1>4, <1>5
  <1>7. DOMAIN calls \subseteq DOMAIN calls' /\ \A n \in DOMAIN calls : calls'[n] = calls[n]
    BY <1>2, <1>4
  <1>8. EvidenceTypeOK'
    <2>1. k + 1 \in Nat
      OBVIOUS
    <2>2. \E j \in Nat : calls' \in [1..j -> CallMade]
      BY <1>6, <2>1
    <2>3. LedgerRow \subseteq LedgerRow'
      BY <1>7 DEF LedgerRow
    <2>4. led' \in LedgerRow' /\ copy' \in LedgerRow' /\ q' \in LedgerRow'
      BY <1>3, <2>3 DEF EvidenceFits, EvidenceTypeOK
    <2> QED
      BY <1>3, <1>7, <2>2, <2>4 DEF EvidenceFits, EvidenceTypeOK
  <1>9. TokensOf(accepted)' = TokensOf(accepted)
    <2>1. accepted \subseteq DOMAIN calls
      BY DEF EvidenceFits, EvidenceTypeOK
    <2>2. \A g \in Field : {n \in accepted : calls'[n].field = g} = {n \in accepted : calls[n].field = g}
      BY <1>7, <2>1
    <2> QED
      BY <1>3, <2>2 DEF TokensOf
  <1>10. Conserved'
    BY <1>3, <1>9 DEF EvidenceFits, Conserved
  <1>11. RowsHaveRecorded' /\ RecordsFit'
    BY <1>3 DEF EvidenceFits, RowsHaveRecorded, RecordsFit, Based
  <1> QED
    BY <1>8, <1>10, <1>11 DEF EvidenceFits

\* Hermes's own steps, but for a new call, and a sync's start and end without records.
LEMMA RowStepsKeep ==
    ASSUME EvidenceFits, EvidenceTick \/ Bill \/ Copy \/ Restore \/ Query \/ Crash
    PROVE  EvidenceFits'
  <1>1. calls' = calls /\ keepsCount' = keepsCount /\ ev' = ev /\ accepted' = accepted
    BY DEF EvidenceTick, Bill, Copy, Restore, Query, Crash, hermes
  <1>2. evidenceNow' \in Nat /\ restores' \in Nat /\ phase' \in {"idle", "read"}
    BY DEF EvidenceFits, EvidenceTypeOK, EvidenceTick, Bill, Copy, Restore, Query, Crash, hermes
  <1>3. led' \in LedgerRow /\ copy' \in LedgerRow /\ q' \in LedgerRow
    <2>1. led \in LedgerRow /\ copy \in LedgerRow /\ q \in LedgerRow /\ evidenceNow \in Nat
      BY DEF EvidenceFits, EvidenceTypeOK
    <2>2. NoRow \in LedgerRow
      BY DEF NoRow, LedgerRow
    <2>3. CASE EvidenceTick
      BY <2>1, <2>3 DEF EvidenceTick
    <2>4. CASE Bill
      <3>1. PICK ns \in {led.who, led.who \cup (DOMAIN calls \cap {Cardinality(DOMAIN calls)})}, seen \in {led.seen, evidenceNow} :
              led' = [who |-> ns, seen |-> seen]
        BY <2>4 DEF Bill
      <3>2. ns \in SUBSET DOMAIN calls /\ seen \in Nat
        BY <2>1 DEF LedgerRow
      <3>3. led' \in LedgerRow
        BY <3>1, <3>2 DEF LedgerRow
      <3> QED
        BY <2>1, <2>4, <3>3 DEF Bill
    <2>5. CASE Copy
      BY <2>1, <2>5 DEF Copy
    <2>6. CASE Restore
      BY <2>1, <2>6 DEF Restore
    <2>7. CASE Query
      BY <2>1, <2>7 DEF Query, hermes
    <2>8. CASE Crash
      BY <2>1, <2>2, <2>8 DEF Crash, hermes
    <2> QED
      BY <2>3, <2>4, <2>5, <2>6, <2>7, <2>8
  <1>4. LedgerRow' = LedgerRow /\ TokensOf(accepted)' = TokensOf(accepted)
    BY <1>1 DEF LedgerRow, TokensOf
  <1>5. EvidenceTypeOK'
    BY <1>1, <1>2, <1>3, <1>4 DEF EvidenceFits, EvidenceTypeOK
  <1>6. Conserved'
    BY <1>1, <1>4 DEF EvidenceFits, Conserved
  <1>7. RecordsFit'
    BY <1>1 DEF EvidenceFits, RecordsFit, Based
  <1>8. RowsHaveRecorded'
    <2>1. CASE EvidenceTick
      BY <2>1 DEF EvidenceFits, RowsHaveRecorded, EvidenceTick
    <2>2. CASE Bill
      <3>1. led.who \subseteq led'.who
        BY <2>2 DEF Bill
      <3> QED
        BY <2>2, <3>1 DEF EvidenceFits, RowsHaveRecorded, Bill
    <2>3. CASE Copy
      BY <2>3 DEF EvidenceFits, RowsHaveRecorded, Copy
    <2>4. CASE Restore
      <3>1. restores' # 0
        BY <2>4 DEF EvidenceFits, EvidenceTypeOK, Restore
      <3> QED
        BY <3>1 DEF RowsHaveRecorded
    <2>5. CASE Query
      BY <2>5 DEF EvidenceFits, RowsHaveRecorded, Query, hermes
    <2>6. CASE Crash
      BY <2>6 DEF EvidenceFits, RowsHaveRecorded, Crash, hermes
    <2> QED
      BY <2>1, <2>2, <2>3, <2>4, <2>5, <2>6
  <1> QED
    BY <1>5, <1>6, <1>7, <1>8 DEF EvidenceFits

\* A sync's merge: what it makes of the records, and that they only grow.
LEMMA MergeKeeps ==
    ASSUME EvidenceFits, Merge
    PROVE  EvidenceFits' /\ EvidenceGrows
  <1>0. PICK visible \in Visible : \E taken \in Match(visible) :
         LET out == CollectEvidence(taken)
         IN  /\ ev' = {r \in ev : ~\E n \in out : n.id = r.id /\ ~Older(n, r)}
                      \cup {n \in out : ~\E r \in ev : r.id = n.id /\ Older(n, r)}
             /\ accepted' = IF out = {} /\ restores > 0 THEN accepted ELSE q.who
    BY DEF Merge
  <1>1. PICK taken \in Match(visible) :
           /\ ev' = {r \in ev : ~\E n \in CollectEvidence(taken) : n.id = r.id /\ ~Older(n, r)}
                      \cup {n \in CollectEvidence(taken) : ~\E r \in ev : r.id = n.id /\ Older(n, r)}
           /\ accepted' = IF CollectEvidence(taken) = {} /\ restores > 0 THEN accepted ELSE q.who
    BY <1>0
  <1>2. /\ phase = "read" /\ phase' = "idle" /\ q' = NoRow
        /\ evidenceNow' = evidenceNow /\ calls' = calls /\ led' = led /\ copy' = copy
        /\ keepsCount' = keepsCount /\ restores' = restores
    BY DEF Merge, hermes
  <1>3. NoRow \in LedgerRow /\ LedgerRow' = LedgerRow
    BY <1>2 DEF NoRow, LedgerRow
  <1>4. q.who \in SUBSET DOMAIN calls /\ EvidenceTypeOK
    BY DEF EvidenceFits, EvidenceTypeOK, LedgerRow
  <1>5. CASE Stale
    <2>1. CollectEvidence(taken) = {}
      BY <1>5, CollectedParts
    <2>2. restores # 0
      BY <1>2, <1>5, SameRowIsNotStale
    <2>3. restores > 0
      BY <1>4, <2>2 DEF EvidenceTypeOK
    <2>4. ev' = ev /\ accepted' = accepted
      BY <1>1, <2>1, <2>3
    <2>5. EvidenceTypeOK'
      BY <1>2, <1>3, <1>4, <2>4 DEF EvidenceTypeOK
    <2>6. RowsHaveRecorded'
      BY <1>2, <2>2 DEF RowsHaveRecorded
    <2>7. RecordsFit' /\ Conserved'
      BY <1>2, <2>4 DEF EvidenceFits, RecordsFit, Based, Conserved, TokensOf
    <2>8. EvidenceGrows
      BY <2>4 DEF EvidenceGrows
    <2> QED
      BY <2>5, <2>6, <2>7, <2>8 DEF EvidenceFits
  <1>6. CASE ~Stale
    <2> DEFINE M == Merged(taken)
    <2>1. ev' = M
      BY <1>1, <1>6, MergeOf
    <2>2. CollectEvidence(taken) # {}
      BY <1>6, CollectedParts
    <2>3. accepted' = q.who
      BY <1>1, <2>2
    <2>4. /\ IsFiniteSet(M) /\ M \subseteq EvidenceRecord
          /\ Tokens(M) = CurrentTotals /\ Calls(M) = Count
      BY <1>6, MergedFits
    <2>5. /\ \A r, s \in M : r.id = s.id => r = s
          /\ Based(M) # {}
          /\ \A r \in M : r.id = BaseId => r.seq = Revision
          /\ \A r \in M : \A a, b \in Nat : r.id = <<"interval", a, b>> => b <= Revision
      BY <1>6, MergedFits
    <2>6. Revision = 1 + Total(Tokens(M)) + Calls(M) /\ (~keepsCount => Calls(M) = 0)
      BY <2>4, SyncTypes
    <2>7. \A r \in ev : \E t \in M : t.id = r.id /\ (t = r \/ (t.seq > r.seq /\ Fits(r.tok, t.tok)))
      BY <1>6, MergedFits
    <2> HIDE DEF M
    <2>8. EvidenceGrows
      BY <2>1, <2>7 DEF EvidenceGrows
    <2>9. EvidenceTypeOK'
      BY <1>2, <1>3, <1>4, <2>1, <2>3, <2>4 DEF EvidenceTypeOK
    <2>10. RowsHaveRecorded'
      <3>1. restores = 0 => q.who \subseteq led.who
        BY <1>2 DEF EvidenceFits, RowsHaveRecorded
      <3> QED
        BY <1>2, <2>3, <3>1 DEF RowsHaveRecorded
    <2>11. RecordsFit'
      <3>1. /\ \A r, s \in M : r.id = s.id => r = s
            /\ M # {} => Based(M) # {}
            /\ \A r \in M : r.id = BaseId => r.seq = 1 + Total(Tokens(M)) + Calls(M)
            /\ \A r \in M : \A a, b \in Nat : r.id = <<"interval", a, b>> => b <= 1 + Total(Tokens(M)) + Calls(M)
            /\ ~keepsCount => Calls(M) = 0
        BY <2>5, <2>6
      <3> QED
        BY <1>2, <2>1, <3>1 DEF RecordsFit
    <2>12. Conserved'
      <3>1. TokensOf(q.who)' = [f \in Field |-> Cardinality({n \in q'.who : calls[n].field = f})]
        BY <1>2 DEF TokensOf
      <3>2. Tokens(M) = [f \in Field |-> Cardinality({n \in q.who : calls[n].field = f})]
        BY <2>4 DEF CurrentTotals, TokensOf
      <3>3. TokensOf(accepted)' = [f \in Field |-> Cardinality({n \in accepted' : calls'[n].field = f})]
        BY DEF TokensOf
      <3>4. Tokens(M) = TokensOf(accepted)'
        BY <1>2, <2>3, <3>2, <3>3
      <3>5. keepsCount => Calls(M) = Cardinality(accepted')
        BY <2>3, <2>4 DEF Count
      <3> QED
        BY <1>2, <2>1, <3>4, <3>5 DEF Conserved
    <2> QED
      BY <2>8, <2>9, <2>10, <2>11, <2>12 DEF EvidenceFits
  <1> QED
    BY <1>5, <1>6

LEMMA EvidenceStutter ==
    ASSUME EvidenceFits, UNCHANGED evidenceVars
    PROVE  EvidenceFits'
  BY DEF EvidenceFits, EvidenceTypeOK, LedgerRow, RowsHaveRecorded, RecordsFit, Based, Conserved, TokensOf, evidenceVars

LEMMA EvidenceStepFits ==
    ASSUME EvidenceFits, [EvidenceNext]_evidenceVars
    PROVE  EvidenceFits' /\ EvidenceGrows
  <1>1. ASSUME ev' = ev PROVE EvidenceGrows
    BY <1>1 DEF EvidenceGrows
  <1>2. CASE MakeCall
    BY <1>1, <1>2, MakeCallKeeps DEF MakeCall
  <1>3. CASE EvidenceTick \/ Bill \/ Copy \/ Restore \/ Query \/ Crash
    <2>1. ev' = ev
      BY <1>3 DEF EvidenceTick, Bill, Copy, Restore, Query, Crash, hermes
    <2> QED
      BY <1>1, <1>3, <2>1, RowStepsKeep
  <1>4. CASE Merge
    BY <1>4, MergeKeeps
  <1>5. CASE UNCHANGED evidenceVars
    BY <1>1, <1>5, EvidenceStutter DEF evidenceVars
  <1> QED
    BY <1>2, <1>3, <1>4, <1>5 DEF EvidenceNext

LEMMA FitsNeverConflict == EvidenceFits => NeverConflictingSnapshot
  <1> SUFFICES ASSUME EvidenceFits, NEW visible \in Visible, NEW taken \in Match(visible),
                      NEW r \in CollectEvidence(taken)
               PROVE  ~Conflicting(r)
    BY DEF NeverConflictingSnapshot
  <1>1. ~Stale
    BY CollectedParts
  <1> QED
    BY <1>1, CollectedSupersede DEF Conflicting

-----------------------------------------------------------------------------
(* What the session collectors leave of the files they read.               *)

LEMMA MaxIs ==
    ASSUME NEW S \in SUBSET Nat, S # {}, NEW n \in Nat, \A v \in S : v <= n
    PROVE  Max(S) \in S /\ \A w \in S : w <= Max(S)
  <1>1. \E v \in S : \A w \in S : v >= w
    <2>1. PICK v \in S : \A w \in S : w <= v
      BY HasLatest
    <2>2. \A w \in S : v >= w
      BY <2>1
    <2> QED
      BY <2>2
  <1>2. Max(S) \in S /\ \A w \in S : Max(S) >= w
    BY <1>1 DEF Max
  <1> QED
    BY <1>2

LEMMA MinIs ==
    ASSUME NEW S \in SUBSET Nat, S # {}
    PROVE  Min(S) \in S /\ \A w \in S : Min(S) <= w
  <1>1. PICK x \in S : \A y \in S : ~(<<y, x>> \in OpToRel(<, Nat))
    BY WFMin, NatLessThanWellFounded, Zenon
  <1>4. \A y \in S : ~(y < x)
    BY <1>1 DEF OpToRel
  <1>2. \A y \in S : x <= y
    <2> SUFFICES ASSUME NEW y \in S PROVE x <= y
      OBVIOUS
    <2>1. x \in Nat /\ y \in Nat
      OBVIOUS
    <2> QED
      BY <1>4, <2>1
  <1>3. \E v \in S : \A w \in S : v <= w
    BY <1>2
  <1> QED
    BY <1>3 DEF Min

-----------------------------------------------------------------------------
\* What a log of one file says of a session, from its lines alone.
CollectorLine == [type : {"header", "user", "assistant", "other"}, id : Id \cup {"none"}, time : 0..MaxTime]
CollectorRow == [total : Nat, user : Nat, assistant : Nat, start : Nat, last : Nat]

TypesIn(s, types) == {i \in DOMAIN s : s[i].type \in types}
TimesIn(s, places) == {s[i].time : i \in places} \ {0}
OwnIn(kind, s, k) == IF kind = "claude" THEN {i \in DOMAIN s : s[i].id = k} ELSE DOMAIN s
UsersIn(kind, s, k) == IF kind = "openclaw" THEN {} ELSE OwnIn(kind, s, k) \cap TypesIn(s, {"user"})
AssistantsIn(kind, s, k) ==
    OwnIn(kind, s, k) \cap TypesIn(s, IF kind = "openclaw" THEN {"user", "assistant"} ELSE {"assistant"})
TotalIn(kind, s, k) == OwnIn(kind, s, k) \ (IF kind = "pi" THEN TypesIn(s, {"header"}) ELSE {})

KeysOf(kind, s, f) ==
    IF kind = "claude" THEN {s[i].id : i \in DOMAIN s}
    ELSE IF kind = "openclaw" THEN {f}
    ELSE IF TypesIn(s, {"header"}) # {} THEN {s[Max(TypesIn(s, {"header"}))].id}
    ELSE IF kind = "codex" THEN {f} ELSE {}

RowFor(kind, s, k) ==
    IF TimesIn(s, OwnIn(kind, s, k)) = {} THEN NoSession
    ELSE [total |-> Cardinality(TotalIn(kind, s, k)), user |-> Cardinality(UsersIn(kind, s, k)),
          assistant |-> Cardinality(AssistantsIn(kind, s, k)),
          start |-> Min(TimesIn(s, OwnIn(kind, s, k))), last |-> Max(TimesIn(s, OwnIn(kind, s, k)))]

LEMMA TimesAreTimes ==
    ASSUME NEW s \in Seq(CollectorLine), NEW places \in SUBSET DOMAIN s
    PROVE  TimesIn(s, places) \in SUBSET Nat /\ \A v \in TimesIn(s, places) : v <= MaxTime
  <1>1. \A i \in places : s[i].time \in 0..MaxTime
    <2>1. \A i \in places : s[i] \in CollectorLine
      OBVIOUS
    <2> QED
      BY <2>1 DEF CollectorLine
  <1> QED
    BY <1>1, CollectorAssumption DEF TimesIn

LEMMA PlacesAreFinite ==
    ASSUME NEW s \in Seq(CollectorLine), NEW places \in SUBSET DOMAIN s
    PROVE  IsFiniteSet(places) /\ Cardinality(places) \in Nat
  <1>1. DOMAIN s = 1..Len(s) /\ Len(s) \in Nat
    OBVIOUS
  <1>2. IsFiniteSet(1..Len(s))
    BY <1>1, FS_Interval
  <1>3. IsFiniteSet(places)
    BY <1>1, <1>2, FS_Subset
  <1> QED
    BY <1>3, FS_CardinalityType

LEMMA PlacesOf ==
    ASSUME NEW kind, NEW s, NEW k
    PROVE  /\ OwnIn(kind, s, k) \in SUBSET DOMAIN s /\ UsersIn(kind, s, k) \in SUBSET DOMAIN s
           /\ AssistantsIn(kind, s, k) \in SUBSET DOMAIN s /\ TotalIn(kind, s, k) \in SUBSET DOMAIN s
  BY DEF OwnIn, UsersIn, AssistantsIn, TotalIn

\* A row that there is, and its fields.
LEMMA RowForIs ==
    ASSUME NEW s \in Seq(CollectorLine), NEW kind, NEW k
    PROVE  /\ RowFor(kind, s, k) \in CollectorRow \cup {NoSession}
           /\ RowFor(kind, s, k) # NoSession <=> TimesIn(s, OwnIn(kind, s, k)) # {}
           /\ RowFor(kind, s, k) # NoSession =>
                /\ RowFor(kind, s, k) \in CollectorRow
                /\ RowFor(kind, s, k).total = Cardinality(TotalIn(kind, s, k))
                /\ RowFor(kind, s, k).user = Cardinality(UsersIn(kind, s, k))
                /\ RowFor(kind, s, k).assistant = Cardinality(AssistantsIn(kind, s, k))
                /\ RowFor(kind, s, k).start = Min(TimesIn(s, OwnIn(kind, s, k)))
                /\ RowFor(kind, s, k).last = Max(TimesIn(s, OwnIn(kind, s, k)))
  <1> DEFINE T == TimesIn(s, OwnIn(kind, s, k))
             r == [total |-> Cardinality(TotalIn(kind, s, k)), user |-> Cardinality(UsersIn(kind, s, k)),
                   assistant |-> Cardinality(AssistantsIn(kind, s, k)), start |-> Min(T), last |-> Max(T)]
  <1>1. T = {} => RowFor(kind, s, k) = NoSession
    BY DEF RowFor
  <1>2. T # {} => RowFor(kind, s, k) = r
    BY DEF RowFor
  <1>3. T \in SUBSET Nat /\ \A v \in T : v <= MaxTime
    BY PlacesOf, TimesAreTimes
  <1>4. ASSUME T # {} PROVE r \in CollectorRow
    <2>1. Min(T) \in Nat
      BY <1>3, <1>4, MinIs
    <2>2. Max(T) \in Nat
      BY <1>3, <1>4, MaxIs, CollectorAssumption
    <2>3. /\ Cardinality(TotalIn(kind, s, k)) \in Nat /\ Cardinality(UsersIn(kind, s, k)) \in Nat
          /\ Cardinality(AssistantsIn(kind, s, k)) \in Nat
      BY PlacesOf, PlacesAreFinite
    <2> HIDE DEF T
    <2> QED
      BY <2>1, <2>2, <2>3 DEF CollectorRow
  <1>5. r # NoSession
    <2>1. "user" \in DOMAIN r /\ "user" \notin DOMAIN NoSession
      BY DEF NoSession
    <2> QED
      BY <2>1
  <1>6. /\ r.total = Cardinality(TotalIn(kind, s, k)) /\ r.user = Cardinality(UsersIn(kind, s, k))
        /\ r.assistant = Cardinality(AssistantsIn(kind, s, k)) /\ r.start = Min(T) /\ r.last = Max(T)
    OBVIOUS
  <1> HIDE DEF r, T
  <1>7. T = {} \/ T # {}
    OBVIOUS
  <1>8. RowFor(kind, s, k) # NoSession <=> T # {}
    BY <1>1, <1>2, <1>5
  <1>9. ASSUME T # {} PROVE RowFor(kind, s, k) = r /\ r \in CollectorRow
    BY <1>2, <1>4, <1>9
  <1>10. RowFor(kind, s, k) \in CollectorRow \cup {NoSession}
    BY <1>1, <1>9
  <1> QED
    BY <1>6, <1>8, <1>9, <1>10 DEF T

\* Lines written after others only make a row grow.
LEMMA RowsGrowWithLines ==
    ASSUME NEW s \in Seq(CollectorLine), NEW t \in Seq(CollectorLine), Len(s) <= Len(t),
           \A i \in DOMAIN s : t[i] = s[i], NEW kind, NEW k, RowFor(kind, s, k) # NoSession
    PROVE  RowFor(kind, t, k) # NoSession /\ Grown(RowFor(kind, s, k), RowFor(kind, t, k))
  <1>1. DOMAIN s \subseteq DOMAIN t
    OBVIOUS
  <1>2. OwnIn(kind, s, k) \subseteq OwnIn(kind, t, k)
    BY <1>1 DEF OwnIn
  <1>3. \A T : TypesIn(s, T) \subseteq TypesIn(t, T) /\ TypesIn(t, T) \cap DOMAIN s \subseteq TypesIn(s, T)
    BY <1>1 DEF TypesIn
  <1>4. UsersIn(kind, s, k) \subseteq UsersIn(kind, t, k) /\ AssistantsIn(kind, s, k) \subseteq AssistantsIn(kind, t, k)
    BY <1>2, <1>3 DEF UsersIn, AssistantsIn
  <1>5. TotalIn(kind, s, k) \subseteq TotalIn(kind, t, k)
    BY <1>2, <1>3, PlacesOf DEF TotalIn
  <1> DEFINE S == TimesIn(s, OwnIn(kind, s, k))
             T == TimesIn(t, OwnIn(kind, t, k))
  <1>6. S \subseteq T
    <2> SUFFICES ASSUME NEW v \in S PROVE v \in T
      OBVIOUS
    <2>1. PICK i \in OwnIn(kind, s, k) : v = s[i].time /\ v # 0
      BY DEF TimesIn
    <2>2. i \in OwnIn(kind, t, k) /\ t[i] = s[i]
      BY <1>2, PlacesOf
    <2> QED
      BY <2>1, <2>2 DEF TimesIn
  <1>7. S # {} /\ T # {}
    BY <1>6, RowForIs
  <1>8. /\ S \in SUBSET Nat /\ T \in SUBSET Nat
        /\ (\A v \in S : v <= MaxTime) /\ (\A v \in T : v <= MaxTime)
    BY PlacesOf, TimesAreTimes
  <1>9. RowFor(kind, t, k) # NoSession
    BY <1>7, RowForIs
  <1>10. Min(S) \in S /\ Min(T) \in T /\ \A w \in T : Min(T) <= w
    BY <1>7, <1>8, MinIs
  <1>11. Max(S) \in S /\ Max(T) \in T /\ \A w \in T : w <= Max(T)
    BY <1>7, <1>8, MaxIs, CollectorAssumption
  <1> HIDE DEF S, T
  <1>12. Min(T) <= Min(S) /\ Max(S) <= Max(T)
    BY <1>6, <1>10, <1>11
  <1>13. /\ IsFiniteSet(TotalIn(kind, t, k)) /\ IsFiniteSet(UsersIn(kind, t, k)) /\ IsFiniteSet(AssistantsIn(kind, t, k))
         /\ Cardinality(TotalIn(kind, s, k)) \in Nat /\ Cardinality(TotalIn(kind, t, k)) \in Nat
         /\ Cardinality(UsersIn(kind, s, k)) \in Nat /\ Cardinality(UsersIn(kind, t, k)) \in Nat
         /\ Cardinality(AssistantsIn(kind, s, k)) \in Nat /\ Cardinality(AssistantsIn(kind, t, k)) \in Nat
    BY PlacesOf, PlacesAreFinite
  <1>14. /\ Cardinality(TotalIn(kind, s, k)) <= Cardinality(TotalIn(kind, t, k))
         /\ Cardinality(UsersIn(kind, s, k)) <= Cardinality(UsersIn(kind, t, k))
         /\ Cardinality(AssistantsIn(kind, s, k)) <= Cardinality(AssistantsIn(kind, t, k))
    BY <1>4, <1>5, <1>13, FS_Subset
  <1> DEFINE a == RowFor(kind, s, k)
             b == RowFor(kind, t, k)
  <1>15. /\ a.total = Cardinality(TotalIn(kind, s, k)) /\ a.user = Cardinality(UsersIn(kind, s, k))
         /\ a.assistant = Cardinality(AssistantsIn(kind, s, k)) /\ a.start = Min(S) /\ a.last = Max(S)
    BY RowForIs DEF S
  <1>16. /\ b.total = Cardinality(TotalIn(kind, t, k)) /\ b.user = Cardinality(UsersIn(kind, t, k))
         /\ b.assistant = Cardinality(AssistantsIn(kind, t, k)) /\ b.start = Min(T) /\ b.last = Max(T)
    BY <1>9, RowForIs DEF T
  <1>17. Min(S) \in Nat /\ Min(T) \in Nat /\ Max(S) \in Nat /\ Max(T) \in Nat
    BY <1>8, <1>10, <1>11
  <1> HIDE DEF a, b
  <1>18. Grown(a, b)
    BY <1>12, <1>13, <1>14, <1>15, <1>16, <1>17 DEF Grown
  <1> QED
    BY <1>9, <1>18 DEF a, b

LEMMA GrowingOn ==
    ASSUME NEW a \in CollectorRow, NEW b \in CollectorRow, NEW c \in CollectorRow, Grown(a, b), Grown(b, c)
    PROVE  Grown(a, c) /\ Grown(a, a)
  BY DEF Grown, CollectorRow

-----------------------------------------------------------------------------
CollectorTypeOK ==
    /\ collectorKind \in CollectorKinds
    /\ collectorLines \in [File -> Seq(CollectorLine)]
    /\ half \in [File -> CollectorLine \cup {NoLine}]
    /\ collectorCursor \in [File -> Nat \X BOOLEAN]
    /\ collectorRows \in [Id \cup File -> CollectorRow \cup {NoSession}]
    /\ mixed \in BOOLEAN

\* A line of Claude Code and a header name a session; a file of the others
\* begins with its header, and the line that is half written is of its kind.
LinesFit ==
    /\ \A f \in File : \A i \in DOMAIN collectorLines[f] :
          collectorKind = "claude" \/ collectorLines[f][i].type = "header" => collectorLines[f][i].id \in Id
    /\ \A f \in File : collectorKind # "claude" /\ collectorLines[f] # <<>> => collectorLines[f][1].type = "header"
    /\ \A f \in File : half[f] # NoLine => half[f] \in SessionWrites(f)

NotSpread == ~mixed => ~Spread

Keys(f) == KeysOf(collectorKind, collectorLines[f], f)
RowOf(f, k) == RowFor(collectorKind, collectorLines[f], k)

\* What has been read of a file is in the rows, and a row is of what a file
\* tells, or told when it was shorter.
RowsAreRead ==
    /\ \A f \in File : collectorCursor[f][1] <= Len(collectorLines[f])
    /\ ~mixed => \A f \in File, k \in Id \cup File :
          /\ collectorCursor[f][1] = Len(collectorLines[f]) /\ k \in Keys(f)
          /\ RowOf(f, k) # NoSession
          => collectorRows[k] = RowOf(f, k)
    /\ ~mixed => \A k \in Id \cup File : collectorRows[k] # NoSession =>
          \E f \in File : k \in Keys(f) /\ RowOf(f, k) # NoSession /\ Grown(collectorRows[k], RowOf(f, k))

CollectorFits == CollectorTypeOK /\ LinesFit /\ NotSpread /\ RowsAreRead

\* The collectors by the lines of a file.
LEMMA Collecting ==
    ASSUME collectorKind \in CollectorKinds, NEW f \in File
    PROVE  /\ \A k : Tells(f, k) <=> k \in KeysOf(collectorKind, collectorLines[f], f)
           /\ \A k : Tells(f, k) => Collect(f)[k] = RowFor(collectorKind, collectorLines[f], k)
  <1> DEFINE s == collectorLines[f]
  <1>1. /\ \A T : Of(f, T) = TypesIn(s, T)
        /\ Every(f) = DOMAIN s
        /\ \A places : Times(f, places) = TimesIn(s, places)
        /\ \A places : MaxTimestamp(f, places) = Max(TimesIn(s, places))
        /\ HeaderId(f) = s[Max(TypesIn(s, {"header"}))].id
    BY DEF Of, TypesIn, Every, Times, TimesIn, MaxTimestamp, HeaderId
  <1>2. \A places, u, a, n : SessionRow(f, places, u, a, n) =
           IF TimesIn(s, places) = {} THEN NoSession
           ELSE [total |-> Cardinality(n), user |-> Cardinality(u), assistant |-> Cardinality(a),
                 start |-> Min(TimesIn(s, places)), last |-> Max(TimesIn(s, places))]
    BY <1>1 DEF SessionRow
  <1>3. CASE collectorKind = "claude"
    <2>1. Collect(f) = CollectClaudeSessions(f)
      BY <1>3 DEF Collect
    <2>2. DOMAIN CollectClaudeSessions(f) = KeysOf("claude", s, f)
      BY <1>1 DEF CollectClaudeSessions, KeysOf
    <2>3. ASSUME NEW k, k \in KeysOf("claude", s, f) PROVE CollectClaudeSessions(f)[k] = RowFor("claude", s, k)
      <3> DEFINE own == {i \in DOMAIN s : s[i].id = k}
      <3>0. own = {i \in Every(f) : collectorLines[f][i].id = k}
        BY <1>1
      <3>3. k \in DOMAIN CollectClaudeSessions(f)
        BY <2>2, <2>3
      <3>4. CollectClaudeSessions(f)[k] =
              LET o == {i \in Every(f) : collectorLines[f][i].id = k}
              IN  SessionRow(f, o, o \cap Of(f, {"user"}), o \cap Of(f, {"assistant"}), o)
        BY <3>3 DEF CollectClaudeSessions
      <3>1. CollectClaudeSessions(f)[k] = SessionRow(f, own, own \cap TypesIn(s, {"user"}), own \cap TypesIn(s, {"assistant"}), own)
        <4>1. Of(f, {"user"}) = TypesIn(s, {"user"}) /\ Of(f, {"assistant"}) = TypesIn(s, {"assistant"})
          BY <1>1
        <4> HIDE DEF own, s
        <4> QED
          BY <3>0, <3>4, <4>1
      <3>2. /\ OwnIn("claude", s, k) = own /\ UsersIn("claude", s, k) = own \cap TypesIn(s, {"user"})
            /\ AssistantsIn("claude", s, k) = own \cap TypesIn(s, {"assistant"}) /\ TotalIn("claude", s, k) = own
        BY DEF OwnIn, UsersIn, AssistantsIn, TotalIn
      <3> HIDE DEF own, s
      <3> QED
        BY <1>2, <3>1, <3>2 DEF RowFor
    <2> QED
      BY <1>3, <2>1, <2>2, <2>3 DEF Tells
  <1>4. CASE collectorKind = "codex"
    <2>1. Collect(f) = CollectCodexSessions(f)
      BY <1>4 DEF Collect
    <2>2. DOMAIN CollectCodexSessions(f) = KeysOf("codex", s, f)
      BY <1>1 DEF CollectCodexSessions, KeysOf
    <2>3. ASSUME NEW k, k \in KeysOf("codex", s, f) PROVE CollectCodexSessions(f)[k] = RowFor("codex", s, k)
      <3>1. CollectCodexSessions(f)[k] = SessionRow(f, DOMAIN s, TypesIn(s, {"user"}), TypesIn(s, {"assistant"}), DOMAIN s)
        BY <1>1, <2>2, <2>3 DEF CollectCodexSessions
      <3>2. /\ OwnIn("codex", s, k) = DOMAIN s /\ UsersIn("codex", s, k) = TypesIn(s, {"user"})
            /\ AssistantsIn("codex", s, k) = TypesIn(s, {"assistant"}) /\ TotalIn("codex", s, k) = DOMAIN s
        BY DEF OwnIn, UsersIn, AssistantsIn, TotalIn, TypesIn
      <3> HIDE DEF s
      <3> QED
        BY <1>2, <3>1, <3>2 DEF RowFor
    <2> QED
      BY <1>4, <2>1, <2>2, <2>3 DEF Tells
  <1>5. CASE collectorKind = "pi"
    <2>1. Collect(f) = CollectPiSessions(f)
      BY <1>5 DEF Collect
    <2>2. DOMAIN CollectPiSessions(f) = KeysOf("pi", s, f)
      BY <1>1 DEF CollectPiSessions, KeysOf
    <2>3. ASSUME NEW k, k \in KeysOf("pi", s, f) PROVE CollectPiSessions(f)[k] = RowFor("pi", s, k)
      <3>1. CollectPiSessions(f)[k] = SessionRow(f, DOMAIN s, TypesIn(s, {"user"}), TypesIn(s, {"assistant"}), DOMAIN s \ TypesIn(s, {"header"}))
        BY <1>1, <2>2, <2>3 DEF CollectPiSessions
      <3>2. /\ OwnIn("pi", s, k) = DOMAIN s /\ UsersIn("pi", s, k) = TypesIn(s, {"user"})
            /\ AssistantsIn("pi", s, k) = TypesIn(s, {"assistant"}) /\ TotalIn("pi", s, k) = DOMAIN s \ TypesIn(s, {"header"})
        BY DEF OwnIn, UsersIn, AssistantsIn, TotalIn, TypesIn
      <3> HIDE DEF s
      <3> QED
        BY <1>2, <3>1, <3>2 DEF RowFor
    <2> QED
      BY <1>5, <2>1, <2>2, <2>3 DEF Tells
  <1>6. CASE collectorKind = "openclaw"
    <2>1. Collect(f) = CollectOpenClawSessions(f)
      BY <1>6 DEF Collect
    <2>2. DOMAIN CollectOpenClawSessions(f) = KeysOf("openclaw", s, f)
      BY <1>1 DEF CollectOpenClawSessions, KeysOf
    <2>3. ASSUME NEW k, k \in KeysOf("openclaw", s, f) PROVE CollectOpenClawSessions(f)[k] = RowFor("openclaw", s, k)
      <3>1. CollectOpenClawSessions(f)[k] = SessionRow(f, DOMAIN s, {}, TypesIn(s, {"user", "assistant"}), DOMAIN s)
        BY <1>1, <2>2, <2>3 DEF CollectOpenClawSessions
      <3>2. /\ OwnIn("openclaw", s, k) = DOMAIN s /\ UsersIn("openclaw", s, k) = {}
            /\ AssistantsIn("openclaw", s, k) = TypesIn(s, {"user", "assistant"}) /\ TotalIn("openclaw", s, k) = DOMAIN s
        BY DEF OwnIn, UsersIn, AssistantsIn, TotalIn, TypesIn
      <3> HIDE DEF s
      <3> QED
        BY <1>2, <3>1, <3>2 DEF RowFor
    <2> QED
      BY <1>6, <2>1, <2>2, <2>3 DEF Tells
  <1> QED
    BY <1>3, <1>4, <1>5, <1>6 DEF CollectorKinds

\* A session is told of by one file.
LEMMA OneFileTells ==
    ASSUME CollectorFits, ~mixed, NEW f \in File, NEW g \in File, NEW k \in Id \cup File, k \in Keys(f), k \in Keys(g)
    PROVE  f = g
  <1>1. collectorKind \in CollectorKinds
    BY DEF CollectorFits, CollectorTypeOK
  <1>2. Tells(f, k) /\ Tells(g, k)
    BY <1>1, Collecting DEF Keys
  <1>3. CASE k \in Id
    BY <1>2, <1>3 DEF CollectorFits, NotSpread, Spread
  <1>4. CASE k \notin Id
    <2>1. ASSUME NEW h \in File, k \in Keys(h) PROVE h = k
      <3> DEFINE s == collectorLines[h]
                 H == TypesIn(s, {"header"})
      <3>1. CASE collectorKind = "claude"
        <4>1. PICK i \in DOMAIN s : k = s[i].id
          BY <2>1, <3>1 DEF Keys, KeysOf
        <4> QED
          BY <1>4, <3>1, <4>1 DEF CollectorFits, LinesFit
      <3>2. CASE collectorKind = "openclaw"
        BY <2>1, <3>2 DEF Keys, KeysOf
      <3>3. CASE collectorKind \notin {"claude", "openclaw"} /\ H # {}
        <4>1. k = s[Max(H)].id
          BY <2>1, <3>3 DEF Keys, KeysOf
        <4>2. s \in Seq(CollectorLine)
          BY DEF CollectorFits, CollectorTypeOK
        <4>3. H \in SUBSET Nat /\ Len(s) \in Nat /\ \A i \in H : i <= Len(s)
          BY <4>2 DEF TypesIn
        <4>4. Max(H) \in H
          BY <3>3, <4>3, MaxIs
        <4>5. Max(H) \in DOMAIN s /\ s[Max(H)].type = "header"
          BY <4>4 DEF TypesIn
        <4>6. s[Max(H)].id \in Id
          BY <4>5 DEF CollectorFits, LinesFit
        <4> QED
          BY <1>4, <4>1, <4>6
      <3>4. CASE collectorKind \notin {"claude", "openclaw"} /\ H = {}
        BY <2>1, <3>4 DEF Keys, KeysOf
      <3> QED
        BY <3>1, <3>2, <3>3, <3>4
    <2> QED
      BY <2>1
  <1> QED
    BY <1>3, <1>4

\* A file that grows by a line which does not rename its session tells of the
\* same session still.
LEMMA TellsStill ==
    ASSUME CollectorFits, NEW f \in File, half[f] # NoLine, ~Renamed(f), NEW k, k \in Keys(f), RowOf(f, k) # NoSession
    PROVE  k \in KeysOf(collectorKind, Append(collectorLines[f], half[f]), f)
  <1> DEFINE s == collectorLines[f]
             l == half[f]
             t == Append(s, l)
             H == TypesIn(s, {"header"})
             G == TypesIn(t, {"header"})
  <1>1. s \in Seq(CollectorLine) /\ l \in CollectorLine /\ collectorKind \in CollectorKinds
    BY DEF CollectorFits, CollectorTypeOK
  <1>2. /\ t \in Seq(CollectorLine) /\ Len(t) = Len(s) + 1 /\ t[Len(s) + 1] = l /\ \A i \in DOMAIN s : t[i] = s[i]
        /\ DOMAIN t = DOMAIN s \cup {Len(s) + 1} /\ DOMAIN s = 1..Len(s) /\ Len(s) \in Nat
    BY <1>1
  <1>3. s # <<>>
    <2>1. TimesIn(s, OwnIn(collectorKind, s, k)) # {}
      BY <1>1, RowForIs DEF RowOf
    <2>2. OwnIn(collectorKind, s, k) # {}
      BY <2>1 DEF TimesIn
    <2>3. DOMAIN s # {}
      BY <2>2, PlacesOf
    <2> QED
      BY <1>2, <2>3
  <1>4. CASE collectorKind = "claude"
    <2>1. PICK i \in DOMAIN s : k = s[i].id
      BY <1>4 DEF Keys, KeysOf
    <2>2. i \in DOMAIN t /\ t[i].id = k
      BY <1>2, <2>1
    <2>3. k \in {t[j].id : j \in DOMAIN t}
      BY <2>2
    <2> QED
      BY <1>4, <2>3 DEF KeysOf
  <1>5. CASE collectorKind = "openclaw"
    BY <1>5 DEF Keys, KeysOf
  <1>6. CASE collectorKind \in {"codex", "pi"}
    <2>1. 1 \in H
      <3>1. s[1].type = "header" /\ 1 \in DOMAIN s
        BY <1>2, <1>3, <1>6 DEF CollectorFits, LinesFit
      <3> QED
        BY <3>1 DEF TypesIn
    <2>2. k = s[Max(H)].id
      BY <1>6, <2>1 DEF Keys, KeysOf
    <2>3. H \in SUBSET Nat /\ \A i \in H : i <= Len(s)
      BY <1>2 DEF TypesIn
    <2>4. Max(H) \in H /\ \A i \in H : i <= Max(H)
      BY <1>2, <2>1, <2>3, MaxIs
    <2>5. G \in SUBSET Nat /\ \A i \in G : i <= Len(s) + 1
      BY <1>2 DEF TypesIn
    <2>6. H \subseteq G /\ G \subseteq H \cup {Len(s) + 1}
      BY <1>2 DEF TypesIn
    <2>7. Max(G) \in G /\ \A i \in G : i <= Max(G)
      <3>1. Len(s) + 1 \in Nat /\ G # {}
        BY <1>2, <2>1, <2>6
      <3> HIDE DEF G
      <3> QED
        BY <2>5, <3>1, MaxIs
    <2>8. t[Max(G)].id = k
      <3>1. CASE Len(s) + 1 \in G
        <4>1. Max(G) = Len(s) + 1
          BY <1>2, <2>5, <2>7, <3>1
        <4>2. l.type = "header"
          BY <1>2, <3>1 DEF TypesIn
        <4>3. collectorKind = "codex"
          <5>1. l \in SessionWrites(f)
            BY DEF CollectorFits, LinesFit
          <5> QED
            BY <1>3, <1>6, <4>2, <5>1 DEF SessionWrites, SessionLine
        <4>4. Every(f) # {}
          BY <1>2, <2>1, <2>3 DEF Every, TypesIn
        <4>5. HeaderId(f) = half[f].id
          BY <4>2, <4>3, <4>4 DEF Renamed
        <4>6. HeaderId(f) = s[Max(H)].id
          BY DEF HeaderId, Of, TypesIn
        <4> QED
          BY <1>2, <2>2, <4>1, <4>5, <4>6
      <3>2. CASE Len(s) + 1 \notin G
        <4>1. G = H
          BY <2>6, <3>2
        <4> HIDE DEF t, G, H
        <4>2. Max(H) \in DOMAIN s
          BY <2>4 DEF H, TypesIn
        <4> QED
          BY <1>2, <2>2, <4>1, <4>2
      <3> QED
        BY <3>1, <3>2
    <2>9. G # {}
      BY <2>1, <2>6
    <2>10. KeysOf(collectorKind, t, f) = {t[Max(G)].id}
      BY <1>6, <2>9 DEF KeysOf
    <2> QED
      BY <2>8, <2>10
  <1> QED
    BY <1>1, <1>4, <1>5, <1>6 DEF CollectorKinds

-----------------------------------------------------------------------------
LEMMA CollectorsStart == CollectorsInit => CollectorFits
  <1> SUFFICES ASSUME CollectorsInit PROVE CollectorFits
    OBVIOUS
  <1>1. /\ collectorKind \in CollectorKinds /\ collectorLines = [f \in File |-> <<>>] /\ half = [f \in File |-> NoLine]
        /\ collectorCursor = [f \in File |-> <<0, FALSE>>] /\ collectorRows = [k \in Id \cup File |-> NoSession] /\ mixed = FALSE
    BY DEF CollectorsInit
  <1>2. CollectorTypeOK
    <2>1. <<>> \in Seq(CollectorLine)
      OBVIOUS
    <2>2. collectorLines \in [File -> Seq(CollectorLine)]
      BY <1>1, <2>1
    <2> QED
      BY <1>1, <2>2 DEF CollectorTypeOK
  <1>3. \A f \in File : collectorLines[f] = <<>> /\ Len(collectorLines[f]) = 0 /\ DOMAIN collectorLines[f] = {}
    BY <1>1
  <1>4. LinesFit
    BY <1>1, <1>3 DEF LinesFit
  <1>5. ASSUME NEW f \in File, NEW k PROVE RowOf(f, k) = NoSession
    <2>1. OwnIn(collectorKind, collectorLines[f], k) = {}
      BY <1>3, PlacesOf
    <2>2. TimesIn(collectorLines[f], {}) = {}
      BY DEF TimesIn
    <2> QED
      BY <2>1, <2>2 DEF RowOf, RowFor
  <1>6. \A f \in File, k \in Id : ~Tells(f, k)
    <2> SUFFICES ASSUME NEW f \in File, NEW k \in Id, k \in KeysOf(collectorKind, collectorLines[f], f) PROVE FALSE
      BY <1>1, Collecting
    <2>1. TypesIn(collectorLines[f], {"header"}) = {}
      BY <1>3 DEF TypesIn
    <2>2. k = f
      BY <1>3, <2>1 DEF KeysOf
    <2> QED
      BY <2>2, CollectorAssumption
  <1>7. NotSpread
    BY <1>6 DEF NotSpread, Spread
  <1>8. RowsAreRead
    <2>1. \A f \in File : collectorCursor[f][1] <= Len(collectorLines[f])
      BY <1>1, <1>3
    <2>2. \A k \in Id \cup File : collectorRows[k] = NoSession
      BY <1>1
    <2> QED
      BY <1>5, <2>1, <2>2 DEF RowsAreRead
  <1> QED
    BY <1>2, <1>4, <1>7, <1>8 DEF CollectorFits

LEMMA WritesAreLines ==
    ASSUME NEW f \in File, collectorKind \in CollectorKinds, NEW l \in SessionWrites(f)
    PROVE  /\ l \in CollectorLine
           /\ collectorKind = "claude" \/ l.type = "header" => l.id \in Id
           /\ collectorKind # "claude" /\ collectorLines[f] = <<>> => l.type = "header"
  <1>1. \/ collectorKind = "claude" /\ l \in SessionLine({"user", "assistant"}, Id)
        \/ collectorKind # "claude" /\ l \in SessionLine({"header"}, Id)
        \/ /\ collectorKind # "claude" /\ collectorLines[f] # <<>>
           /\ l \in SessionLine({"user", "assistant", "other"}, {"none"})
    BY DEF SessionWrites, SessionLine
  <1>2. CASE collectorKind = "claude" /\ l \in SessionLine({"user", "assistant"}, Id)
    BY <1>2 DEF SessionLine, CollectorLine
  <1>3. CASE collectorKind # "claude" /\ l \in SessionLine({"header"}, Id)
    BY <1>3 DEF SessionLine, CollectorLine
  <1>4. CASE collectorKind # "claude" /\ collectorLines[f] # <<>> /\ l \in SessionLine({"user", "assistant", "other"}, {"none"})
    BY <1>4 DEF SessionLine, CollectorLine
  <1> QED
    BY <1>1, <1>2, <1>3, <1>4

LEMMA BeginLineKeeps ==
    ASSUME CollectorFits, NEW f \in File, BeginLine(f)
    PROVE  CollectorFits'
  <1>1. PICK l \in SessionWrites(f) : half' = [half EXCEPT ![f] = l]
    BY DEF BeginLine
  <1>2. UNCHANGED <<collectorKind, collectorLines, collectorCursor, collectorRows, mixed>>
    BY DEF BeginLine
  <1>3. CollectorTypeOK /\ collectorKind \in CollectorKinds
    BY DEF CollectorFits, CollectorTypeOK
  <1>4. l \in CollectorLine
    BY <1>3, WritesAreLines
  <1>5. CollectorTypeOK'
    BY <1>1, <1>2, <1>3, <1>4 DEF CollectorTypeOK
  <1>6. LinesFit'
    <2>1. \A g \in File : SessionWrites(g)' = SessionWrites(g)
      BY <1>2 DEF SessionWrites
    <2>2. \A g \in File : half'[g] = IF g = f THEN l ELSE half[g]
      BY <1>1, <1>3 DEF CollectorTypeOK
    <2> QED
      BY <1>2, <2>1, <2>2 DEF CollectorFits, LinesFit
  <1>7. NotSpread'
    <2>1. Spread' = Spread
      BY <1>2 DEF Spread, Tells, Collect, CollectClaudeSessions, CollectCodexSessions, CollectPiSessions,
                  CollectOpenClawSessions, SessionRow, Times, MaxTimestamp, Every, Of, HeaderId
    <2> QED
      BY <1>2, <2>1 DEF CollectorFits, NotSpread
  <1>8. RowsAreRead'
    BY <1>2 DEF CollectorFits, RowsAreRead, Keys, RowOf
  <1> QED
    BY <1>5, <1>6, <1>7, <1>8 DEF CollectorFits

LEMMA ReadKeeps ==
    ASSUME CollectorFits, NEW f \in File, Read(f)
    PROVE  CollectorFits' /\ NoRowShrinks
  <1>1. /\ collectorCursor' = [collectorCursor EXCEPT ![f] = FileStat(f)]
        /\ collectorRows' = [k \in Id \cup File |-> IF Tells(f, k) /\ Collect(f)[k] # NoSession THEN Collect(f)[k] ELSE collectorRows[k]]
        /\ UNCHANGED <<collectorKind, collectorLines, half, mixed>>
    BY DEF Read
  <1>2. CollectorTypeOK /\ collectorKind \in CollectorKinds
    BY DEF CollectorFits, CollectorTypeOK
  <1>3. \A k \in Id \cup File : collectorRows'[k] = IF k \in Keys(f) /\ RowOf(f, k) # NoSession THEN RowOf(f, k) ELSE collectorRows[k]
    BY <1>1, <1>2, Collecting DEF Keys, RowOf
  <1>4. \A g \in File : \A k : RowOf(g, k) \in CollectorRow \cup {NoSession}
    BY <1>2, RowForIs DEF RowOf, CollectorTypeOK
  <1>5. \A g \in File : Keys(g)' = Keys(g) /\ \A k : RowOf(g, k)' = RowOf(g, k)
    BY <1>1 DEF Keys, RowOf
  <1>6. FileStat(f) \in Nat \X BOOLEAN /\ FileStat(f)[1] = Len(collectorLines[f])
    <2>1. Len(collectorLines[f]) \in Nat
      BY <1>2 DEF CollectorTypeOK
    <2>2. (half[f] # NoLine) \in BOOLEAN
      OBVIOUS
    <2>3. <<Len(collectorLines[f]), half[f] # NoLine>> \in Nat \X BOOLEAN
      BY <2>1, <2>2
    <2> QED
      BY <2>3 DEF FileStat
  <1>7. CollectorTypeOK'
    <2>1. collectorCursor' \in [File -> Nat \X BOOLEAN]
      BY <1>1, <1>2, <1>6 DEF CollectorTypeOK
    <2>2. \A k \in Id \cup File : collectorRows'[k] \in CollectorRow \cup {NoSession}
      BY <1>2, <1>3, <1>4 DEF CollectorTypeOK
    <2>3. collectorRows' \in [Id \cup File -> CollectorRow \cup {NoSession}]
      BY <1>1, <2>2
    <2> QED
      BY <1>1, <1>2, <2>1, <2>3 DEF CollectorTypeOK
  <1>8. LinesFit'
    <2>1. \A g \in File : SessionWrites(g)' = SessionWrites(g)
      BY <1>1 DEF SessionWrites
    <2> QED
      BY <1>1, <2>1 DEF CollectorFits, LinesFit
  <1>9. NotSpread'
    <2>0. collectorKind' = collectorKind /\ collectorLines' = collectorLines
      BY <1>1
    <2>1. Spread' = Spread
      BY <2>0 DEF Spread, Tells, Collect, CollectClaudeSessions, CollectCodexSessions, CollectPiSessions,
                  CollectOpenClawSessions, SessionRow, Times, MaxTimestamp, Every, Of, HeaderId
    <2> QED
      BY <1>1, <2>1 DEF CollectorFits, NotSpread
  <1>10. \A g \in File : collectorCursor'[g] = IF g = f THEN FileStat(f) ELSE collectorCursor[g]
    BY <1>1, <1>2 DEF CollectorTypeOK
  <1>11. ASSUME ~mixed, NEW k \in Id \cup File, collectorRows[k] # NoSession
         PROVE  \E g \in File : /\ k \in Keys(g) /\ RowOf(g, k) # NoSession /\ Grown(collectorRows[k], RowOf(g, k))
                               /\ Grown(collectorRows[k], collectorRows'[k]) /\ Grown(collectorRows'[k], RowOf(g, k))
    <2>1. PICK g \in File : k \in Keys(g) /\ RowOf(g, k) # NoSession /\ Grown(collectorRows[k], RowOf(g, k))
      BY <1>11 DEF CollectorFits, RowsAreRead
    <2>2. collectorRows[k] \in CollectorRow /\ RowOf(g, k) \in CollectorRow
      BY <1>2, <1>4, <1>11, <2>1 DEF CollectorTypeOK
    <2>3. Grown(collectorRows[k], collectorRows[k]) /\ Grown(RowOf(g, k), RowOf(g, k))
      <3>1. \A r \in CollectorRow : Grown(r, r)
        BY DEF Grown, CollectorRow
      <3> QED
        BY <2>2, <3>1
    <2>4. CASE k \in Keys(f) /\ RowOf(f, k) # NoSession
      <3>1. g = f
        BY <1>11, <2>1, <2>4, OneFileTells
      <3>2. collectorRows'[k] = RowOf(g, k)
        BY <1>3, <2>4, <3>1
      <3> QED
        BY <2>1, <2>3, <3>2
    <2>5. CASE ~(k \in Keys(f) /\ RowOf(f, k) # NoSession)
      BY <1>3, <2>1, <2>3, <2>5
    <2> QED
      BY <2>4, <2>5
  <1>12. RowsAreRead'
    <2>1. \A g \in File : collectorCursor'[g][1] <= Len(collectorLines'[g])
      <3> SUFFICES ASSUME NEW g \in File PROVE collectorCursor'[g][1] <= Len(collectorLines'[g])
        OBVIOUS
      <3>1. Len(collectorLines[g]) \in Nat
        BY <1>2 DEF CollectorTypeOK
      <3> QED
        BY <1>1, <1>6, <1>10, <3>1 DEF CollectorFits, RowsAreRead
    <2>2. ASSUME ~mixed, NEW g \in File, NEW k \in Id \cup File,
                 collectorCursor'[g][1] = Len(collectorLines[g]), k \in Keys(g), RowOf(g, k) # NoSession
          PROVE  collectorRows'[k] = RowOf(g, k)
      <3>1. CASE g = f
        BY <1>3, <2>2, <3>1
      <3>2. CASE g # f
        <4>1. collectorRows[k] = RowOf(g, k)
          BY <1>10, <2>2, <3>2 DEF CollectorFits, RowsAreRead
        <4>2. k \notin Keys(f)
          BY <2>2, <3>2, OneFileTells
        <4> QED
          BY <1>3, <4>1, <4>2
      <3> QED
        BY <3>1, <3>2
    <2>3. ASSUME ~mixed, NEW k \in Id \cup File, collectorRows'[k] # NoSession
          PROVE  \E g \in File : k \in Keys(g) /\ RowOf(g, k) # NoSession /\ Grown(collectorRows'[k], RowOf(g, k))
      <3>1. CASE collectorRows[k] # NoSession
        BY <1>11, <2>3, <3>1
      <3>2. CASE collectorRows[k] = NoSession
        <4>1. k \in Keys(f) /\ RowOf(f, k) # NoSession /\ collectorRows'[k] = RowOf(f, k)
          BY <1>3, <2>3, <3>2
        <4>2. RowOf(f, k) \in CollectorRow
          BY <1>4, <4>1
        <4>3. Grown(RowOf(f, k), RowOf(f, k))
          BY <4>2, GrowingOn DEF Grown, CollectorRow
        <4> QED
          BY <4>1, <4>3
      <3> QED
        BY <3>1, <3>2
    <2>4. mixed' = mixed /\ collectorLines' = collectorLines
      BY <1>1
    <2>5. ASSUME ~mixed', NEW g \in File, NEW k \in Id \cup File,
                 collectorCursor'[g][1] = Len(collectorLines'[g]), k \in Keys(g)', RowOf(g, k)' # NoSession
          PROVE  collectorRows'[k] = RowOf(g, k)'
      BY <1>5, <2>2, <2>4, <2>5
    <2>6. ASSUME ~mixed', NEW k \in Id \cup File, collectorRows'[k] # NoSession
          PROVE  \E g \in File : k \in Keys(g)' /\ RowOf(g, k)' # NoSession /\ Grown(collectorRows'[k], RowOf(g, k)')
      BY <1>5, <2>3, <2>4, <2>6
    <2> QED
      BY <2>1, <2>5, <2>6, Zenon DEF RowsAreRead
  <1>13. NoRowShrinks
    BY <1>1, <1>11 DEF NoRowShrinks
  <1> QED
    BY <1>7, <1>8, <1>9, <1>12, <1>13 DEF CollectorFits

LEMMA EndLineKeeps ==
    ASSUME CollectorFits, NEW f \in File, EndLine(f)
    PROVE  CollectorFits'
  <1> DEFINE s == collectorLines[f]
             t == Append(collectorLines[f], half[f])
  <1>1. /\ half[f] # NoLine /\ collectorLines' = [collectorLines EXCEPT ![f] = Append(@, half[f])] /\ half' = [half EXCEPT ![f] = NoLine]
        /\ UNCHANGED <<collectorKind, collectorCursor, collectorRows>>
        /\ mixed' = (mixed \/ Spread' \/ Renamed(f))
    BY DEF EndLine
  <1>2. CollectorTypeOK /\ collectorKind \in CollectorKinds /\ s \in Seq(CollectorLine) /\ half[f] \in CollectorLine
    BY <1>1 DEF CollectorFits, CollectorTypeOK
  <1>3. /\ t \in Seq(CollectorLine) /\ Len(t) = Len(s) + 1 /\ t[Len(s) + 1] = half[f] /\ \A i \in DOMAIN s : t[i] = s[i]
        /\ DOMAIN t = DOMAIN s \cup {Len(s) + 1} /\ DOMAIN s = 1..Len(s) /\ Len(s) \in Nat
    BY <1>2
  <1>4. \A g \in File : collectorLines'[g] = IF g = f THEN t ELSE collectorLines[g]
    BY <1>1, <1>2 DEF CollectorTypeOK
  <1>5. \A g \in File : half'[g] = IF g = f THEN NoLine ELSE half[g]
    BY <1>1, <1>2 DEF CollectorTypeOK
  <1> HIDE DEF t
  <1>6. mixed \in BOOLEAN
    BY <1>2 DEF CollectorTypeOK
  <1>7. CollectorTypeOK'
    <2>1. collectorLines' \in [File -> Seq(CollectorLine)]
      BY <1>1, <1>2, <1>3, <1>4 DEF CollectorTypeOK
    <2>2. half' \in [File -> CollectorLine \cup {NoLine}]
      BY <1>1, <1>2, <1>5 DEF CollectorTypeOK
    <2>3. mixed' \in BOOLEAN
      BY <1>1, <1>6, Zenon
    <2>4. collectorKind' = collectorKind /\ collectorCursor' = collectorCursor /\ collectorRows' = collectorRows
      BY <1>1
    <2> QED
      BY <1>2, <2>1, <2>2, <2>3, <2>4 DEF CollectorTypeOK
  <1>8. LinesFit'
    <2>1. half[f] \in SessionWrites(f)
      BY <1>1 DEF CollectorFits, LinesFit
    <2>2. \A g \in File \ {f} : SessionWrites(g)' = SessionWrites(g)
      BY <1>1, <1>4 DEF SessionWrites
    <2>3. /\ collectorKind = "claude" \/ half[f].type = "header" => half[f].id \in Id
          /\ collectorKind # "claude" /\ s = <<>> => half[f].type = "header"
      BY <1>2, <2>1, WritesAreLines
    <2>4. \A i \in DOMAIN t : collectorKind = "claude" \/ t[i].type = "header" => t[i].id \in Id
      <3>1. \A i \in DOMAIN s : collectorKind = "claude" \/ s[i].type = "header" => s[i].id \in Id
        BY DEF CollectorFits, LinesFit
      <3> QED
        BY <1>3, <2>3, <3>1
    <2>5. collectorKind # "claude" => t[1].type = "header"
      <3>1. CASE s = <<>>
        BY <1>3, <2>3, <3>1
      <3>2. CASE s # <<>>
        <4>1. 1 \in DOMAIN s
          BY <1>2, <3>2
        <4>2. collectorKind # "claude" => s[1].type = "header"
          BY <3>2 DEF CollectorFits, LinesFit
        <4> QED
          BY <1>3, <4>1, <4>2
      <3> QED
        BY <3>1, <3>2
    <2>6. \A g \in File : \A i \in DOMAIN collectorLines'[g] :
             collectorKind = "claude" \/ collectorLines'[g][i].type = "header" => collectorLines'[g][i].id \in Id
      BY <1>4, <2>4 DEF CollectorFits, LinesFit
    <2>7. \A g \in File : collectorKind # "claude" /\ collectorLines'[g] # <<>> => collectorLines'[g][1].type = "header"
      BY <1>4, <2>5 DEF CollectorFits, LinesFit
    <2>8. \A g \in File : half'[g] # NoLine => half'[g] \in SessionWrites(g)'
      BY <1>5, <2>2 DEF CollectorFits, LinesFit
    <2>9. collectorKind' = collectorKind
      BY <1>1
    <2> QED
      BY <2>6, <2>7, <2>8, <2>9 DEF LinesFit
  <1>9. NotSpread'
    BY <1>1 DEF NotSpread
  <1>10. collectorKind' = collectorKind /\ collectorCursor' = collectorCursor /\ collectorRows' = collectorRows
    BY <1>1
  <1>11. ~mixed' => ~mixed /\ ~Renamed(f)
    BY <1>1
  <1>12. ASSUME NEW g \in File \ {f} PROVE Keys(g)' = Keys(g) /\ \A k : RowOf(g, k)' = RowOf(g, k)
    BY <1>4, <1>10 DEF Keys, RowOf
  <1>13. Keys(f)' = KeysOf(collectorKind, t, f) /\ \A k : RowOf(f, k)' = RowFor(collectorKind, t, k)
    BY <1>4, <1>10 DEF Keys, RowOf
  <1>14. RowsAreRead'
    <2>1. \A g \in File : collectorCursor'[g][1] <= Len(collectorLines'[g]) /\ (g = f => collectorCursor'[g][1] # Len(collectorLines'[g]))
      <3> SUFFICES ASSUME NEW g \in File
                   PROVE  collectorCursor'[g][1] <= Len(collectorLines'[g]) /\ (g = f => collectorCursor'[g][1] # Len(collectorLines'[g]))
        OBVIOUS
      <3>1. collectorCursor[g][1] \in Nat /\ collectorCursor[g][1] <= Len(collectorLines[g])
        <4>1. collectorCursor[g] \in Nat \X BOOLEAN
          BY <1>2 DEF CollectorTypeOK
        <4>2. collectorCursor[g][1] \in Nat
          BY <4>1
        <4> QED
          BY <4>2 DEF CollectorFits, RowsAreRead
      <3>2. Len(collectorLines[g]) \in Nat
        BY <1>2 DEF CollectorTypeOK
      <3>3. collectorLines'[g] = (IF g = f THEN t ELSE collectorLines[g]) /\ collectorCursor'[g] = collectorCursor[g]
        BY <1>4, <1>10
      <3>4. CASE g = f
        <4>1. Len(collectorLines'[g]) = Len(collectorLines[g]) + 1
          BY <1>3, <3>3, <3>4
        <4> QED
          BY <3>1, <3>2, <3>3, <4>1
      <3>5. CASE g # f
        BY <3>1, <3>3, <3>5
      <3> QED
        BY <3>4, <3>5
    <2>2. ASSUME ~mixed', NEW g \in File, NEW k \in Id \cup File,
                 collectorCursor'[g][1] = Len(collectorLines'[g]), k \in Keys(g)', RowOf(g, k)' # NoSession
          PROVE  collectorRows'[k] = RowOf(g, k)'
      <3>1. g # f
        BY <2>1, <2>2
      <3>2. Keys(g)' = Keys(g) /\ RowOf(g, k)' = RowOf(g, k)
        BY <1>12, <3>1
      <3>3. collectorCursor[g][1] = Len(collectorLines[g])
        BY <1>4, <1>10, <2>2, <3>1
      <3>4. collectorRows[k] = RowOf(g, k)
        BY <1>11, <2>2, <3>2, <3>3 DEF CollectorFits, RowsAreRead
      <3> QED
        BY <1>10, <3>2, <3>4
    <2>3. ASSUME ~mixed', NEW k \in Id \cup File, collectorRows'[k] # NoSession
          PROVE  \E g \in File : k \in Keys(g)' /\ RowOf(g, k)' # NoSession /\ Grown(collectorRows'[k], RowOf(g, k)')
      <3>1. PICK g \in File : k \in Keys(g) /\ RowOf(g, k) # NoSession /\ Grown(collectorRows[k], RowOf(g, k))
        BY <1>10, <1>11, <2>3 DEF CollectorFits, RowsAreRead
      <3>2. CASE g # f
        BY <1>10, <1>12, <3>1, <3>2
      <3>3. CASE g = f
        <4>1. k \in KeysOf(collectorKind, t, f)
          BY <1>1, <1>11, <2>3, <3>1, <3>3, TellsStill DEF t
        <4>2. RowFor(collectorKind, s, k) # NoSession
          BY <3>1, <3>3 DEF RowOf
        <4>3. Len(s) <= Len(t)
          BY <1>3
        <4>4. RowFor(collectorKind, t, k) # NoSession /\ Grown(RowFor(collectorKind, s, k), RowFor(collectorKind, t, k))
          BY <1>2, <1>3, <4>2, <4>3, RowsGrowWithLines
        <4>5. /\ RowFor(collectorKind, s, k) \in CollectorRow /\ RowFor(collectorKind, t, k) \in CollectorRow
              /\ collectorRows[k] \in CollectorRow
          BY <1>2, <1>3, <1>10, <2>3, <4>2, <4>4, RowForIs DEF CollectorTypeOK
        <4>6. Grown(collectorRows[k], RowFor(collectorKind, s, k))
          BY <3>1, <3>3 DEF RowOf
        <4>7. Grown(collectorRows[k], RowFor(collectorKind, t, k))
          BY <4>4, <4>5, <4>6, GrowingOn
        <4> QED
          BY <1>10, <1>13, <4>1, <4>4, <4>7
      <3> QED
        BY <3>2, <3>3
    <2> QED
      BY <2>1, <2>2, <2>3, Zenon DEF RowsAreRead
  <1> QED
    BY <1>7, <1>8, <1>9, <1>14 DEF CollectorFits

LEMMA CollectorsStep ==
    ASSUME CollectorFits, [CollectorsNext]_collectorVars
    PROVE  CollectorFits' /\ NoRowShrinks
  <1>1. ASSUME collectorRows' = collectorRows PROVE NoRowShrinks
    <2>1. ASSUME NEW k \in Id \cup File, collectorRows[k] # NoSession PROVE Grown(collectorRows[k], collectorRows'[k])
      <3>1. collectorRows[k] \in CollectorRow
        BY <2>1 DEF CollectorFits, CollectorTypeOK
      <3> QED
        BY <1>1, <3>1 DEF Grown, CollectorRow
    <2> QED
      BY <2>1 DEF NoRowShrinks
  <1>2. ASSUME NEW f \in File, BeginLine(f) PROVE CollectorFits' /\ NoRowShrinks
    BY <1>1, <1>2, BeginLineKeeps DEF BeginLine
  <1>3. ASSUME NEW f \in File, EndLine(f) PROVE CollectorFits' /\ NoRowShrinks
    BY <1>1, <1>3, EndLineKeeps DEF EndLine
  <1>4. ASSUME NEW f \in File, Read(f) PROVE CollectorFits' /\ NoRowShrinks
    BY <1>4, ReadKeeps
  <1>5. CASE UNCHANGED collectorVars
    <2>1. collectorKind' = collectorKind /\ collectorLines' = collectorLines /\ half' = half
          /\ collectorCursor' = collectorCursor /\ collectorRows' = collectorRows /\ mixed' = mixed
      BY <1>5 DEF collectorVars
    <2>2. Spread' = Spread
      BY <2>1 DEF Spread, Tells, Collect, CollectClaudeSessions, CollectCodexSessions, CollectPiSessions,
                  CollectOpenClawSessions, SessionRow, Times, MaxTimestamp, Every, Of, HeaderId
    <2>3. \A g \in File : SessionWrites(g)' = SessionWrites(g)
      BY <2>1 DEF SessionWrites
    <2>4. CollectorTypeOK' /\ RowsAreRead'
      BY <2>1 DEF CollectorFits, CollectorTypeOK, RowsAreRead, Keys, RowOf
    <2>5. LinesFit' /\ NotSpread'
      BY <2>1, <2>2, <2>3 DEF CollectorFits, LinesFit, NotSpread
    <2> QED
      BY <1>1, <2>1, <2>4, <2>5 DEF CollectorFits
  <1> QED
    BY <1>2, <1>3, <1>4, <1>5 DEF CollectorsNext

\* Once every file has been read, the rows are of their sessions' lines.
LEMMA FitsIsItsSession == CollectorFits => RowIsItsSession
  <1> SUFFICES ASSUME CollectorFits, ~mixed, NEW f \in File, collectorCursor[f] = FileStat(f), NEW k \in Id \cup File,
                      Times(f, Own(f, k)) # {}
               PROVE  /\ collectorRows[k] # NoSession
                      /\ collectorRows[k].user + collectorRows[k].assistant <= collectorRows[k].total
                      /\ collectorRows[k].total = Cardinality(IF collectorKind = "pi" THEN Own(f, k) \ Of(f, {"header"}) ELSE Own(f, k))
                      /\ collectorRows[k].start = Min(Times(f, Own(f, k)))
    BY Zenon DEF RowIsItsSession
  <1> DEFINE s == collectorLines[f]
             own == OwnIn(collectorKind, s, k)
  <1>1. s \in Seq(CollectorLine) /\ collectorKind \in CollectorKinds
    BY DEF CollectorFits, CollectorTypeOK
  <1>2. (\A T : Of(f, T) = TypesIn(s, T)) /\ (\A places : Times(f, places) = TimesIn(s, places)) /\ Every(f) = DOMAIN s
    BY DEF Of, TypesIn, Times, TimesIn, Every
  <1>3. Own(f, k) # {}
    BY DEF Times
  <1>4. Own(f, k) = own /\ k \in Keys(f)
    <2>1. CASE collectorKind = "claude"
      <3>1. Own(f, k) = {i \in DOMAIN s : s[i].id = k}
        BY <1>2, <2>1 DEF Own
      <3>2. PICK i \in DOMAIN s : s[i].id = k
        BY <1>3, <3>1
      <3> QED
        BY <2>1, <3>1, <3>2 DEF OwnIn, Keys, KeysOf
    <2>2. CASE collectorKind = "openclaw"
      <3>1. k = f
        BY <1>3, <2>2 DEF Own
      <3>2. Own(f, k) = DOMAIN s
        BY <1>2, <2>2, <3>1 DEF Own
      <3> QED
        BY <2>2, <3>1, <3>2 DEF OwnIn, Keys, KeysOf
    <2>3. CASE collectorKind \in {"codex", "pi"}
      <3>1. Of(f, {"header"}) # {} /\ HeaderId(f) = k
        BY <1>3, <2>3 DEF Own
      <3>2. Own(f, k) = DOMAIN s
        BY <1>2, <2>3, <3>1 DEF Own
      <3>3. k = s[Max(TypesIn(s, {"header"}))].id /\ TypesIn(s, {"header"}) # {}
        BY <1>2, <3>1 DEF HeaderId
      <3> QED
        BY <2>3, <3>2, <3>3 DEF OwnIn, Keys, KeysOf
    <2> QED
      BY <1>1, <2>1, <2>2, <2>3 DEF CollectorKinds
  <1>5. TimesIn(s, own) # {}
    BY <1>2, <1>4
  <1>6. RowOf(f, k) # NoSession
    BY <1>1, <1>5, RowForIs DEF RowOf
  <1>7. collectorRows[k] = RowFor(collectorKind, s, k)
    <2>1. collectorCursor[f][1] = Len(collectorLines[f])
      BY DEF FileStat
    <2> QED
      BY <1>4, <1>6, <2>1 DEF CollectorFits, RowsAreRead, RowOf
  <1> DEFINE total == TotalIn(collectorKind, s, k)
             users == UsersIn(collectorKind, s, k)
             assistants == AssistantsIn(collectorKind, s, k)
  <1>8. /\ collectorRows[k].total = Cardinality(total) /\ collectorRows[k].user = Cardinality(users)
        /\ collectorRows[k].assistant = Cardinality(assistants) /\ collectorRows[k].start = Min(TimesIn(s, own))
    BY <1>1, <1>6, <1>7, RowForIs DEF RowOf
  <1>9. total = IF collectorKind = "pi" THEN own \ Of(f, {"header"}) ELSE own
    BY <1>2 DEF TotalIn
  <1>10. users \subseteq total /\ assistants \subseteq total /\ users \cap assistants = {}
    BY DEF TotalIn, UsersIn, AssistantsIn, TypesIn
  <1>11. IsFiniteSet(total) /\ IsFiniteSet(users) /\ IsFiniteSet(assistants)
         /\ Cardinality(total) \in Nat /\ Cardinality(users) \in Nat /\ Cardinality(assistants) \in Nat
    BY <1>1, PlacesOf, PlacesAreFinite
  <1> HIDE DEF total, users, assistants, own, s
  <1>12. Cardinality(users \cup assistants) = Cardinality(users) + Cardinality(assistants) - Cardinality({})
    BY <1>10, <1>11, FS_Union
  <1>13. Cardinality(users \cup assistants) <= Cardinality(total)
    BY <1>10, <1>11, FS_Subset
  <1>14. Cardinality(users) + Cardinality(assistants) <= Cardinality(total)
    BY <1>11, <1>12, <1>13, FS_EmptySet
  <1> QED
    BY <1>2, <1>4, <1>6, <1>7, <1>8, <1>9, <1>14 DEF RowOf, s, own

-----------------------------------------------------------------------------
(* What the session drivers' passes leave of the stores.                   *)

StoreMsg == [role : {"user", "assistant"}, start : Nat, end : Nat, whole : BOOLEAN]
StoreCursors == [times : [StoreId -> Nat], last : Nat, ids : SUBSET StoreId, inode : {0, 1, 2}]

\* The row of a session, from what its store says of it.
RowNow(kind, ms, when, sum, sig) ==
    LET whole == {j \in DOMAIN ms : ms[j].whole}
        told == IF sig.whole THEN 1..sig.count ELSE {}
    IN  IF kind = "sqlite"
        THEN IF ms # <<>> THEN Summed(ms, DOMAIN ms)
             ELSE [total |-> 0, user |-> 0, assistant |-> 0, start |-> when, last |-> when]
        ELSE IF kind = "json" THEN IF whole = {} THEN NoStoreRow ELSE Summed(ms, whole)
        ELSE [total |-> sum, user |-> Roles(ms, told, "user"),
              assistant |-> Roles(ms, told, "assistant"), last |-> when]
StoreRow(i) == RowNow(storeKind, msgs[i], stamp[i], summary[i], signals[i])

StoreTypeOK ==
    /\ storeKind \in StoreKinds /\ storeNow \in Nat \ {0} /\ inode \in {1, 2}
    /\ msgs \in [StoreId -> Seq(StoreMsg)] /\ stamp \in [StoreId -> Nat]
    /\ storeCursor \in StoreCursors /\ (storeBatch = Idle \/ storeBatch \subseteq StoreId)
    /\ summary \in [StoreId -> Nat] /\ DOMAIN signals = StoreId
    /\ quiet \in 0..3 /\ stamped \in [StoreId -> BOOLEAN]

\* Nothing is stamped with a time to come.
StampsFit == storeCursor.last <= storeNow /\ \A i \in StoreId : stamp[i] <= storeNow

\* Files are read until the cursor has their stamps.
FilesFit ==
    storeKind # "sqlite" =>
        /\ \A i \in StoreId : /\ storeCursor.times[i] <= stamp[i]
                              /\ stamped[i] => storeRows[i] = StoreRow(i) \/ storeCursor.times[i] # stamp[i]
        /\ quiet >= 1 => \A i \in StoreId : storeCursor.times[i] = stamp[i]
        /\ quiet >= 2 => emitted = {}
        /\ storeKind = "json" => \A i \in StoreId :
               storeRows[i] # NoStoreRow => \E j \in DOMAIN msgs[i] : msgs[i][j].whole

\* The watermark is at the latest stamp, and its ids are all that have it.
Settled ==
    /\ storeCursor.inode = inode
    /\ \A i \in StoreId : /\ stamp[i] <= storeCursor.last
                          /\ stamp[i] = storeCursor.last /\ stamp[i] # 0 => i \in storeCursor.ids

\* A session that a pass is about to read, that the next one asks for, or
\* that the next one passes over and masks.
Due(i) ==
    \/ i \in storeBatch
    \/ stamp[i] # 0 /\ storeCursor.inode # inode
    \/ stamp[i] # 0 /\ stamp[i] >= storeCursor.last /\ i \notin storeCursor.ids
    \/ storeCursor.inode = inode /\ i \in storeCursor.ids /\ stamp[i] > storeCursor.last

DatabaseFits ==
    storeKind = "sqlite" =>
        /\ storeCursor.inode <= inode
        /\ storeCursor.inode = inode => \A i \in storeCursor.ids : stamp[i] >= storeCursor.last
        /\ quiet >= 2 => Settled
        /\ quiet >= 1 /\ storeBatch # Idle => Settled
        /\ quiet >= 2 /\ storeBatch # Idle => storeBatch = {}
        /\ quiet >= 3 => emitted = {}
        /\ \A i \in StoreId \ masked : stamped[i] => storeRows[i] = StoreRow(i) \/ Due(i)

StoresFit == StoreTypeOK /\ StampsFit /\ FilesFit /\ DatabaseFits

-----------------------------------------------------------------------------

LEMMA StoresStart == StoresInit => StoresFit
  <1> SUFFICES ASSUME StoresInit PROVE StoresFit
    OBVIOUS
  <1>1. /\ storeKind \in StoreKinds /\ storeNow = 1 /\ inode = 1
        /\ msgs = [i \in StoreId |-> <<>>] /\ stamp = [i \in StoreId |-> 0]
        /\ storeCursor = [times |-> [i \in StoreId |-> 0], last |-> 0, ids |-> {}, inode |-> 0]
        /\ storeBatch = Idle /\ storeRows = [i \in StoreId |-> NoStoreRow] /\ quiet = 0
        /\ summary = [i \in StoreId |-> 0] /\ signals = [i \in StoreId |-> [count |-> 0, whole |-> TRUE]]
        /\ stamped = [i \in StoreId |-> FALSE]
    BY DEF StoresInit
  <1>2. storeCursor \in StoreCursors
    <2>1. [i \in StoreId |-> 0] \in [StoreId -> Nat]
      OBVIOUS
    <2> QED
      BY <1>1, <2>1 DEF StoreCursors
  <1>3. msgs \in [StoreId -> Seq(StoreMsg)]
    BY <1>1
  <1>4. StoreTypeOK
    BY <1>1, <1>2, <1>3 DEF StoreTypeOK
  <1>5. StampsFit
    BY <1>1 DEF StampsFit
  <1>6. FilesFit
    BY <1>1 DEF FilesFit
  <1>7. DatabaseFits
    BY <1>1 DEF DatabaseFits
  <1> QED
    BY <1>4, <1>5, <1>6, <1>7 DEF StoresFit

\* The clock goes on: the store counts as changed.
LEMMA TickKeeps == ASSUME StoresFit, StoreTick PROVE StoresFit'
  <1>1. /\ storeNow' = storeNow + 1 /\ quiet' = 0
        /\ UNCHANGED <<storeKind, msgs, stamp, summary, signals, inode, reader, stamped, masked>>
    BY DEF StoreTick
  <1>2. StoreTypeOK /\ StampsFit
    BY DEF StoresFit
  <1>3. StoreTypeOK'
    BY <1>1, <1>2 DEF StoreTypeOK, reader
  <1>4. storeNow \in Nat /\ storeCursor.last \in Nat /\ \A i \in StoreId : stamp[i] \in Nat
    BY <1>2 DEF StoreTypeOK, StoreCursors
  <1>5. StampsFit'
    BY <1>1, <1>2, <1>4 DEF StampsFit, reader
  <1>6. \A i \in StoreId : StoreRow(i)' = StoreRow(i)
    BY <1>1 DEF StoreRow
  <1>7. FilesFit'
    BY <1>1, <1>6 DEF StoresFit, FilesFit, reader
  <1>8. \A i \in StoreId : Due(i)' <=> Due(i)
    BY <1>1 DEF Due, reader
  <1>9. DatabaseFits'
    BY <1>1, <1>6, <1>8 DEF StoresFit, DatabaseFits, reader
  <1> QED
    BY <1>3, <1>5, <1>7, <1>9 DEF StoresFit

\* What a tool writes: a session with a stamp of now or the one it had, or
\* another database.
ToolWrites(i) ==
    /\ UNCHANGED <<storeKind, storeNow, reader, masked>> /\ quiet' = 0
    /\ \A j \in StoreId \ {i} : /\ msgs'[j] = msgs[j] /\ stamp'[j] = stamp[j] /\ summary'[j] = summary[j]
                                /\ signals'[j] = signals[j] /\ stamped'[j] = stamped[j]
    /\ \/ inode' = inode /\ stamp'[i] \in {stamp[i], storeNow}
       \/ inode' = 2 /\ inode = 1 /\ storeKind = "sqlite" /\ stamp'[i] = 1
    /\ stamped'[i] => inode' # inode \/ (stamp'[i] = storeNow /\ storeNow > stamp[i])
    /\ (\E j \in DOMAIN msgs[i] : msgs[i][j].whole) => \E j \in DOMAIN msgs'[i] : msgs'[i][j].whole

LEMMA ToolKeeps ==
    ASSUME StoresFit, NEW i \in StoreId, ToolWrites(i), StoreTypeOK'
    PROVE  StoresFit'
  <1>1. /\ storeKind' = storeKind /\ storeNow' = storeNow /\ storeCursor' = storeCursor
        /\ storeBatch' = storeBatch /\ storeRows' = storeRows /\ emitted' = emitted
        /\ masked' = masked /\ quiet' = 0
    BY DEF ToolWrites, reader
  <1>2. \A j \in StoreId \ {i} : /\ msgs'[j] = msgs[j] /\ stamp'[j] = stamp[j] /\ summary'[j] = summary[j]
                                 /\ signals'[j] = signals[j] /\ stamped'[j] = stamped[j]
    BY DEF ToolWrites
  <1>3. /\ \/ inode' = inode /\ stamp'[i] \in {stamp[i], storeNow}
           \/ inode' = 2 /\ inode = 1 /\ storeKind = "sqlite" /\ stamp'[i] = 1
        /\ stamped'[i] => inode' # inode \/ (stamp'[i] = storeNow /\ storeNow > stamp[i])
    BY DEF ToolWrites
  <1>4. StoreTypeOK /\ StampsFit
    BY DEF StoresFit
  <1>5. /\ storeNow \in Nat \ {0} /\ inode \in {1, 2} /\ storeCursor.last \in Nat /\ storeCursor.inode \in {0, 1, 2}
        /\ storeCursor.ids \subseteq StoreId
    BY <1>4 DEF StoreTypeOK, StoreCursors
  <1>6. \A j \in StoreId : stamp[j] \in Nat /\ stamp[j] <= storeNow /\ storeCursor.times[j] \in Nat
    BY <1>4 DEF StoreTypeOK, StoreCursors, StampsFit
  <1>7. StampsFit'
    <2>1. storeCursor.last <= storeNow
      BY <1>4 DEF StampsFit
    <2>2. \A j \in StoreId : stamp'[j] <= storeNow
      BY <1>2, <1>3, <1>5, <1>6
    <2> QED
      BY <1>1, <2>1, <2>2 DEF StampsFit
  <1>8. \A j \in StoreId \ {i} : StoreRow(j)' = StoreRow(j)
    BY <1>1, <1>2 DEF StoreRow
  <1>9. ASSUME storeKind # "sqlite" PROVE FilesFit'
    <2>1. /\ \A j \in StoreId : /\ storeCursor.times[j] <= stamp[j]
                                /\ stamped[j] => storeRows[j] = StoreRow(j) \/ storeCursor.times[j] # stamp[j]
          /\ storeKind = "json" => \A j \in StoreId :
                 storeRows[j] # NoStoreRow => \E k \in DOMAIN msgs[j] : msgs[j][k].whole
      BY <1>9 DEF StoresFit, FilesFit
    <2>2. stamp'[i] \in {stamp[i], storeNow} /\ inode' = inode
      BY <1>3, <1>9
    <2>3. \A j \in StoreId : storeCursor.times[j] <= stamp'[j]
      BY <1>2, <1>5, <1>6, <2>1, <2>2
    <2>4. stamped'[i] => storeCursor.times[i] # stamp'[i]
      BY <1>3, <1>5, <1>6, <2>1, <2>2
    <2>5. \A j \in StoreId \ {i} : stamped'[j] => storeRows[j] = StoreRow(j)' \/ storeCursor.times[j] # stamp'[j]
      BY <1>2, <1>8, <2>1
    <2>6. storeKind = "json" => \A j \in StoreId :
              storeRows[j] # NoStoreRow => \E k \in DOMAIN msgs'[j] : msgs'[j][k].whole
      <3>1. \A j \in StoreId :
              (\E k \in DOMAIN msgs[j] : msgs[j][k].whole) => \E k \in DOMAIN msgs'[j] : msgs'[j][k].whole
        <4> SUFFICES ASSUME NEW j \in StoreId, \E k \in DOMAIN msgs[j] : msgs[j][k].whole
                     PROVE  \E k \in DOMAIN msgs'[j] : msgs'[j][k].whole
          OBVIOUS
        <4>1. CASE j = i
          BY <4>1 DEF ToolWrites
        <4>2. CASE j # i
          <5>1. msgs'[j] = msgs[j]
            BY <1>2, <4>2
          <5> QED
            BY <5>1
        <4> QED
          BY <4>1, <4>2
      <3> QED
        BY <2>1, <3>1
    <2> QED
      BY <1>1, <2>3, <2>4, <2>5, <2>6 DEF FilesFit
  <1>10. ASSUME storeKind = "sqlite" PROVE DatabaseFits'
    <2>1. /\ storeCursor.inode <= inode
          /\ storeCursor.inode = inode => \A j \in storeCursor.ids : stamp[j] >= storeCursor.last
          /\ \A j \in StoreId \ masked : stamped[j] => storeRows[j] = StoreRow(j) \/ Due(j)
      BY <1>10 DEF StoresFit, DatabaseFits
    <2>2. storeCursor.inode <= inode' /\ (inode' # inode => storeCursor.inode # inode')
      BY <1>3, <1>5, <2>1
    <2>3. storeCursor.inode = inode' => \A j \in storeCursor.ids : stamp'[j] >= storeCursor.last
      <3> SUFFICES ASSUME storeCursor.inode = inode', NEW j \in storeCursor.ids PROVE stamp'[j] >= storeCursor.last
        OBVIOUS
      <3>1. j \in StoreId /\ inode' = inode /\ stamp[j] >= storeCursor.last
        BY <1>5, <2>1, <2>2
      <3>2. stamp'[j] \in {stamp[j], storeNow}
        BY <1>2, <1>3, <3>1
      <3> QED
        BY <1>5, <1>6, <3>1, <3>2
    <2>4. \A j \in StoreId \ {i} : Due(j) => Due(j)'
      <3> SUFFICES ASSUME NEW j \in StoreId \ {i}, Due(j) PROVE Due(j)'
        OBVIOUS
      <3>1. stamp'[j] = stamp[j] /\ stamp[j] \in Nat
        BY <1>2, <1>6
      <3>2. CASE inode' = inode
        BY <1>1, <3>1, <3>2 DEF Due
      <3>3. CASE inode' # inode
        <4>1. storeCursor.inode # inode'
          BY <2>2, <3>3
        <4>2. j \in storeBatch \/ stamp[j] # 0
          BY <1>5, <3>1 DEF Due
        <4> QED
          BY <1>1, <3>1, <4>1, <4>2 DEF Due
      <3> QED
        BY <3>2, <3>3
    <2>5. stamped'[i] => Due(i)'
      <3> SUFFICES ASSUME stamped'[i] PROVE Due(i)'
        OBVIOUS
      <3>1. CASE inode' # inode
        BY <1>1, <1>3, <1>5, <2>2, <3>1 DEF Due
      <3>2. CASE inode' = inode
        <4>1. stamp'[i] = storeNow /\ storeNow > stamp[i] /\ storeNow # 0
          BY <1>3, <1>5, <3>2
        <4>2. CASE storeCursor.inode # inode
          BY <1>1, <3>2, <4>1, <4>2 DEF Due
        <4>3. CASE i \notin storeCursor.ids
          <5>1. storeNow >= storeCursor.last
            BY <1>4, <1>5 DEF StampsFit
          <5> QED
            BY <1>1, <4>1, <4>3, <5>1 DEF Due
        <4>4. CASE storeCursor.inode = inode /\ i \in storeCursor.ids
          <5>1. stamp[i] >= storeCursor.last
            BY <2>1, <4>4
          <5>2. storeNow > storeCursor.last
            BY <1>5, <1>6, <4>1, <5>1
          <5> QED
            BY <1>1, <3>2, <4>1, <4>4, <5>2 DEF Due
        <4> QED
          BY <4>2, <4>3, <4>4
      <3> QED
        BY <3>1, <3>2
    <2>6. \A j \in StoreId \ masked : stamped'[j] => storeRows[j] = StoreRow(j)' \/ Due(j)'
      <3> SUFFICES ASSUME NEW j \in StoreId \ masked, stamped'[j] PROVE storeRows[j] = StoreRow(j)' \/ Due(j)'
        OBVIOUS
      <3>1. CASE j = i
        BY <2>5, <3>1
      <3>2. CASE j # i
        <4>1. stamped[j] /\ StoreRow(j)' = StoreRow(j)
          BY <1>2, <1>8, <3>2
        <4>2. storeRows[j] = StoreRow(j) \/ Due(j)
          BY <2>1, <4>1
        <4> QED
          BY <2>4, <3>2, <4>1, <4>2
      <3> QED
        BY <3>1, <3>2
    <2> QED
      BY <1>1, <2>2, <2>3, <2>6 DEF DatabaseFits
  <1>11. FilesFit' /\ DatabaseFits'
    BY <1>1, <1>9, <1>10 DEF FilesFit, DatabaseFits
  <1> QED
    BY <1>7, <1>11 DEF StoresFit

\* The types of what a tool writes.
LEMMA WrittenIsTyped ==
    ASSUME StoreTypeOK,
           storeKind' = storeKind, storeNow' = storeNow, UNCHANGED <<reader, masked>>, quiet' = 0,
           stamped' \in [StoreId -> BOOLEAN], inode' \in {1, 2},
           msgs' \in [StoreId -> Seq(StoreMsg)], stamp' \in [StoreId -> Nat],
           summary' \in [StoreId -> Nat], DOMAIN signals' = StoreId
    PROVE  StoreTypeOK'
  <1>1. storeCursor' = storeCursor /\ storeBatch' = storeBatch
    BY DEF reader
  <1>3. /\ storeKind \in StoreKinds /\ storeNow \in Nat \ {0} /\ storeCursor \in StoreCursors
        /\ (storeBatch = Idle \/ storeBatch \subseteq StoreId)
    BY DEF StoreTypeOK
  <1>4. storeCursor' \in StoreCursors /\ (storeBatch' = Idle \/ storeBatch' \subseteq StoreId)
    BY <1>1, <1>3
  <1>5. storeKind' \in StoreKinds /\ storeNow' \in Nat \ {0} /\ quiet' \in 0..3
    BY <1>3
  <1> QED
    BY <1>4, <1>5 DEF StoreTypeOK

LEMMA AddKeeps == ASSUME StoresFit, NEW i \in StoreId, AddMessage(i) PROVE StoresFit'
  <1>1. StoreTypeOK
    BY DEF StoresFit
  <1>2. PICK m \in StoreMsg : msgs' = [msgs EXCEPT ![i] = Append(@, m)]
    <2>1. PICK role \in {"user", "assistant"} : \E whole \in (IF storeKind = "json" THEN BOOLEAN ELSE {TRUE}) :
             msgs' = [msgs EXCEPT ![i] = Append(@, [role |-> role, start |-> storeNow, end |-> 0, whole |-> whole])]
      BY DEF AddMessage
    <2>2. PICK whole \in (IF storeKind = "json" THEN BOOLEAN ELSE {TRUE}) :
             msgs' = [msgs EXCEPT ![i] = Append(@, [role |-> role, start |-> storeNow, end |-> 0, whole |-> whole])]
      BY <2>1
    <2>3. whole \in BOOLEAN
      OBVIOUS
    <2>4. storeNow \in Nat
      BY <1>1 DEF StoreTypeOK
    <2>5. [role |-> role, start |-> storeNow, end |-> 0, whole |-> whole] \in StoreMsg
      BY <2>3, <2>4 DEF StoreMsg
    <2> QED
      BY <2>2, <2>5
  <1>3. /\ stamp' = (IF storeKind = "json" THEN [stamp EXCEPT ![i] = storeNow] ELSE stamp)
        /\ quiet' = 0 /\ stamped' = [stamped EXCEPT ![i] = (storeKind = "json" /\ storeNow > stamp[i])]
        /\ UNCHANGED <<reader, masked>> /\ UNCHANGED <<storeKind, storeNow, summary, signals, inode>>
    BY DEF AddMessage, StoreChanged
  <1>5. msgs \in [StoreId -> Seq(StoreMsg)] /\ stamp \in [StoreId -> Nat] /\ storeNow \in Nat
        /\ stamped \in [StoreId -> BOOLEAN] /\ inode \in {1, 2}
    BY <1>1 DEF StoreTypeOK
  <1>6. msgs' \in [StoreId -> Seq(StoreMsg)] /\ msgs'[i] = Append(msgs[i], m)
    BY <1>2, <1>5
  <1>7. stamp' \in [StoreId -> Nat]
    BY <1>3, <1>5
  <1>8. stamped' \in [StoreId -> BOOLEAN]
    BY <1>3, <1>5
  <1>15. summary' \in [StoreId -> Nat] /\ DOMAIN signals' = StoreId
    BY <1>1, <1>3 DEF StoreTypeOK
  <1>9. StoreTypeOK'
    BY <1>1, <1>3, <1>5, <1>6, <1>7, <1>8, <1>15, WrittenIsTyped
  <1>10. stamped'[i] => storeKind = "json" /\ storeNow > stamp[i]
    BY <1>3, <1>5
  <1>11. stamp'[i] = (IF storeKind = "json" THEN storeNow ELSE stamp[i])
    BY <1>3, <1>5
  <1>12. (\E j \in DOMAIN msgs[i] : msgs[i][j].whole) => \E j \in DOMAIN msgs'[i] : msgs'[i][j].whole
    <2> SUFFICES ASSUME NEW j \in DOMAIN msgs[i], msgs[i][j].whole PROVE \E k \in DOMAIN msgs'[i] : msgs'[i][k].whole
      OBVIOUS
    <2>1. msgs[i] \in Seq(StoreMsg)
      BY <1>5
    <2>2. j \in DOMAIN msgs'[i] /\ msgs'[i][j] = msgs[i][j]
      BY <1>6, <2>1
    <2> QED
      BY <2>2
  <1>13. \A j \in StoreId \ {i} : /\ msgs'[j] = msgs[j] /\ stamp'[j] = stamp[j] /\ summary'[j] = summary[j]
                                  /\ signals'[j] = signals[j] /\ stamped'[j] = stamped[j]
    BY <1>2, <1>3, <1>5
  <1>14. ToolWrites(i)
    BY <1>3, <1>10, <1>11, <1>12, <1>13 DEF ToolWrites
  <1> QED
    BY <1>9, <1>14, ToolKeeps

LEMMA CompleteKeeps == ASSUME StoresFit, NEW i \in StoreId, CompleteMessage(i) PROVE StoresFit'
  <1>1. StoreTypeOK
    BY DEF StoresFit
  <1> DEFINE n == [j \in DOMAIN msgs[i] |-> IF j < Len(msgs[i]) THEN msgs[i][j]
                     ELSE [role |-> msgs[i][j].role, start |-> msgs[i][j].start, end |-> storeNow, whole |-> TRUE]]
  <1>2. /\ msgs' = [msgs EXCEPT ![i] = n]
        /\ quiet' = 0 /\ stamped' = [stamped EXCEPT ![i] = FALSE]
        /\ UNCHANGED <<reader, masked>> /\ UNCHANGED <<storeKind, storeNow, stamp, summary, signals, inode>>
    BY DEF CompleteMessage, StoreChanged
  <1>3. msgs \in [StoreId -> Seq(StoreMsg)] /\ stamp \in [StoreId -> Nat] /\ storeNow \in Nat
        /\ stamped \in [StoreId -> BOOLEAN] /\ inode \in {1, 2}
    BY <1>1 DEF StoreTypeOK
  <1>4. msgs[i] \in Seq(StoreMsg)
    BY <1>3
  <1>5. DOMAIN msgs[i] = 1..Len(msgs[i]) /\ Len(msgs[i]) \in Nat /\ \A j \in DOMAIN msgs[i] : msgs[i][j] \in StoreMsg
    BY <1>4
  <1>6. \A j \in DOMAIN msgs[i] : n[j] \in StoreMsg
    BY <1>3, <1>5 DEF StoreMsg
  <1>7. n \in Seq(StoreMsg)
    <2>1. n \in [1..Len(msgs[i]) -> StoreMsg]
      BY <1>5, <1>6
    <2> HIDE DEF n
    <2> QED
      BY <1>5, <2>1
  <1>8. \A j \in DOMAIN msgs[i] : j \in DOMAIN n /\ (msgs[i][j].whole => n[j].whole)
    OBVIOUS
  <1> HIDE DEF n
  <1>9. msgs' \in [StoreId -> Seq(StoreMsg)] /\ msgs'[i] = n
    BY <1>2, <1>3, <1>7
  <1>16. stamped' \in [StoreId -> BOOLEAN]
    BY <1>2, <1>3
  <1>15. summary' \in [StoreId -> Nat] /\ DOMAIN signals' = StoreId
    BY <1>1, <1>2 DEF StoreTypeOK
  <1>10. StoreTypeOK'
    BY <1>1, <1>2, <1>3, <1>9, <1>15, <1>16, WrittenIsTyped
  <1>11. ~stamped'[i]
    BY <1>2, <1>3
  <1>12. (\E j \in DOMAIN msgs[i] : msgs[i][j].whole) => \E j \in DOMAIN msgs'[i] : msgs'[i][j].whole
    BY <1>8, <1>9
  <1>13. \A j \in StoreId \ {i} : /\ msgs'[j] = msgs[j] /\ stamp'[j] = stamp[j] /\ summary'[j] = summary[j]
                                  /\ signals'[j] = signals[j] /\ stamped'[j] = stamped[j]
    BY <1>2, <1>3
  <1>14. ToolWrites(i)
    BY <1>2, <1>11, <1>12, <1>13 DEF ToolWrites
  <1> QED
    BY <1>10, <1>14, ToolKeeps

LEMMA TouchKeeps ==
    ASSUME StoresFit, NEW i \in StoreId, TouchSession(i) \/ WriteSummary(i) \/ WriteSignals(i)
    PROVE  StoresFit'
  <1>1. StoreTypeOK
    BY DEF StoresFit
  <1>0. summary \in [StoreId -> Nat] /\ DOMAIN signals = StoreId
    BY <1>1 DEF StoreTypeOK
  <1>2. /\ \/ stamp' = [stamp EXCEPT ![i] = storeNow] /\ stamped' = [stamped EXCEPT ![i] = (storeNow > stamp[i])]
           \/ stamp' = stamp /\ stamped' = [stamped EXCEPT ![i] = FALSE]
        /\ quiet' = 0 /\ UNCHANGED <<reader, masked>> /\ UNCHANGED <<storeKind, storeNow, msgs, inode>>
    BY DEF TouchSession, WriteSummary, WriteSignals, StoreChanged
  <1>3. msgs \in [StoreId -> Seq(StoreMsg)] /\ stamp \in [StoreId -> Nat] /\ storeNow \in Nat
        /\ stamped \in [StoreId -> BOOLEAN] /\ inode \in {1, 2}
    BY <1>1 DEF StoreTypeOK
  <1>4. stamp' \in [StoreId -> Nat]
    BY <1>2, <1>3
  <1>5. /\ summary' \in [StoreId -> Nat] /\ DOMAIN signals' = StoreId
        /\ \A j \in StoreId \ {i} : summary'[j] = summary[j] /\ signals'[j] = signals[j]
    <2>1. CASE TouchSession(i)
      BY <1>0, <2>1 DEF TouchSession
    <2>2. CASE WriteSummary(i)
      <3>1. Len(msgs[i]) \in Nat
        BY <1>3
      <3> QED
        BY <1>0, <2>2, <3>1 DEF WriteSummary
    <2>3. CASE WriteSignals(i)
      BY <1>0, <2>3 DEF WriteSignals
    <2> QED
      BY <2>1, <2>2, <2>3
  <1>6. stamped' \in [StoreId -> BOOLEAN]
    <2>1. (storeNow > stamp[i]) \in BOOLEAN
      OBVIOUS
    <2>2. [stamped EXCEPT ![i] = (storeNow > stamp[i])] \in [StoreId -> BOOLEAN]
      BY <1>3, <2>1, Zenon
    <2>3. [stamped EXCEPT ![i] = FALSE] \in [StoreId -> BOOLEAN]
      BY <1>3
    <2> QED
      BY <1>2, <2>2, <2>3, Zenon
  <1>7. StoreTypeOK'
    BY <1>1, <1>2, <1>3, <1>4, <1>5, <1>6, WrittenIsTyped
  <1>8. stamped'[i] => stamp'[i] = storeNow /\ storeNow > stamp[i]
    BY <1>2, <1>3
  <1>9. stamp'[i] \in {stamp[i], storeNow}
    BY <1>2, <1>3
  <1>10. \A j \in StoreId \ {i} : /\ msgs'[j] = msgs[j] /\ stamp'[j] = stamp[j] /\ summary'[j] = summary[j]
                                  /\ signals'[j] = signals[j] /\ stamped'[j] = stamped[j]
    BY <1>2, <1>3, <1>5
  <1>11. ToolWrites(i)
    BY <1>2, <1>8, <1>9, <1>10 DEF ToolWrites
  <1> QED
    BY <1>7, <1>11, ToolKeeps

LEMMA ReplaceKeeps == ASSUME StoresFit, NEW i \in StoreId, ReplaceDb(i) PROVE StoresFit'
  <1>1. StoreTypeOK
    BY DEF StoresFit
  <1> DEFINE s == <<[role |-> "user", start |-> 1, end |-> 1, whole |-> TRUE]>>
  <1>2. /\ storeKind = "sqlite" /\ inode = 1 /\ inode' = 2 /\ msgs[i] = <<>> /\ msgs' = [msgs EXCEPT ![i] = s]
        /\ stamp' = [stamp EXCEPT ![i] = 1] /\ quiet' = 0 /\ stamped' = [stamped EXCEPT ![i] = TRUE]
        /\ UNCHANGED <<storeKind, storeNow, summary, signals>> /\ UNCHANGED <<reader, masked>>
    BY DEF ReplaceDb, reader
  <1>3. msgs \in [StoreId -> Seq(StoreMsg)] /\ stamp \in [StoreId -> Nat] /\ stamped \in [StoreId -> BOOLEAN]
    BY <1>1 DEF StoreTypeOK
  <1>4. s \in Seq(StoreMsg)
    BY DEF StoreMsg
  <1> HIDE DEF s
  <1>5. msgs' \in [StoreId -> Seq(StoreMsg)]
    BY <1>2, <1>3, <1>4
  <1>6. stamp' \in [StoreId -> Nat] /\ stamp'[i] = 1
    BY <1>2, <1>3
  <1>16. stamped' \in [StoreId -> BOOLEAN]
    BY <1>2, <1>3
  <1>15. summary' \in [StoreId -> Nat] /\ DOMAIN signals' = StoreId
    BY <1>1, <1>2 DEF StoreTypeOK
  <1>7. StoreTypeOK'
    BY <1>1, <1>2, <1>5, <1>6, <1>15, <1>16, WrittenIsTyped
  <1>8. ~\E j \in DOMAIN msgs[i] : msgs[i][j].whole
    BY <1>2
  <1>9. \A j \in StoreId \ {i} : /\ msgs'[j] = msgs[j] /\ stamp'[j] = stamp[j] /\ summary'[j] = summary[j]
                                 /\ signals'[j] = signals[j] /\ stamped'[j] = stamped[j]
    BY <1>2, <1>3
  <1>10. ToolWrites(i)
    BY <1>2, <1>6, <1>8, <1>9 DEF ToolWrites
  <1> QED
    BY <1>7, <1>10, ToolKeeps

\* What a pass collects of a session is its row, from the store's kind.
LEMMA CollectedIs ==
    ASSUME StoreTypeOK, NEW i \in StoreId
    PROVE  /\ storeKind # "sqlite" => Collected(i) = StoreRow(i)
           /\ storeKind = "sqlite" => CollectOpenCodeSqliteSessions(i) = StoreRow(i)
           /\ IsCurrent(i) <=> storeRows[i] = StoreRow(i)
  <1>1. storeKind = "sqlite" => CollectOpenCodeSqliteSessions(i) = StoreRow(i)
    BY DEF CollectOpenCodeSqliteSessions, StoreRow, RowNow
  <1>2. storeKind = "json" => Collected(i) = StoreRow(i)
    BY DEF Collected, CollectOpenCodeSessions, StoreRow, RowNow
  <1>3. storeKind = "grok" => Collected(i) = StoreRow(i)
    BY DEF Collected, ParseGrokSession, StoreRow, RowNow
  <1>4. storeKind # "sqlite" => Collected(i) = StoreRow(i)
    BY <1>2, <1>3 DEF StoreTypeOK, StoreKinds
  <1> QED
    BY <1>1, <1>4 DEF IsCurrent

\* Only a directory without a whole message has no row.
LEMMA RowIsThere ==
    ASSUME StoreTypeOK, NEW i \in StoreId, storeKind # "sqlite"
    PROVE  StoreRow(i) = NoStoreRow => storeKind = "json" /\ ~\E j \in DOMAIN msgs[i] : msgs[i][j].whole
  <1> SUFFICES ASSUME StoreRow(i) = NoStoreRow
               PROVE  storeKind = "json" /\ ~\E j \in DOMAIN msgs[i] : msgs[i][j].whole
    OBVIOUS
  <1>1. DOMAIN NoStoreRow = {"total"}
    BY DEF NoStoreRow
  <1>2. storeKind # "grok"
    <2> SUFFICES ASSUME storeKind = "grok" PROVE FALSE
      OBVIOUS
    <2>1. "user" \in DOMAIN StoreRow(i)
      BY DEF StoreRow, RowNow
    <2> QED
      BY <1>1, <2>1
  <1>3. storeKind = "json"
    BY <1>2 DEF StoreTypeOK, StoreKinds
  <1>4. {j \in DOMAIN msgs[i] : msgs[i][j].whole} = {}
    <2> SUFFICES ASSUME {j \in DOMAIN msgs[i] : msgs[i][j].whole} # {} PROVE FALSE
      OBVIOUS
    <2>1. StoreRow(i) = Summed(msgs[i], {j \in DOMAIN msgs[i] : msgs[i][j].whole})
      BY <1>3 DEF StoreRow, RowNow
    <2>2. "user" \in DOMAIN StoreRow(i)
      BY <2>1 DEF Summed
    <2> QED
      BY <1>1, <2>2
  <1> QED
    BY <1>3, <1>4

LEMMA FilePassKeeps == ASSUME StoresFit, FilePass PROVE StoresFit'
  <1> DEFINE read == {i \in StoreId : ~ShouldSkip(i)}
             given == {i \in read : Collected(i) # NoStoreRow}
  <1>1. /\ storeKind # "sqlite"
        /\ storeRows' = [i \in StoreId |-> IF i \in given THEN Collected(i) ELSE storeRows[i]]
        /\ storeCursor' = [times |-> stamp, last |-> 0, ids |-> {}, inode |-> 0]
        /\ emitted' = given /\ quiet' = (IF quiet < 3 THEN quiet + 1 ELSE 3)
        /\ UNCHANGED <<env, storeBatch, stamped, masked>>
    BY DEF FilePass, Passed
  <1>2. /\ storeKind' = storeKind /\ storeNow' = storeNow /\ msgs' = msgs /\ stamp' = stamp
        /\ summary' = summary /\ signals' = signals /\ inode' = inode /\ storeBatch' = storeBatch /\ stamped' = stamped
    BY <1>1 DEF env
  <1>3. StoreTypeOK /\ StampsFit
    BY DEF StoresFit
  <1>4. stamp \in [StoreId -> Nat] /\ storeNow \in Nat /\ quiet \in 0..3
    BY <1>3 DEF StoreTypeOK
  <1>5. storeCursor' \in StoreCursors
    BY <1>1, <1>4 DEF StoreCursors
  <1>6. quiet' \in 0..3 /\ (quiet' >= 2 => quiet >= 1)
    BY <1>1, <1>4
  <1>7. StoreTypeOK'
    <2>1. /\ storeKind \in StoreKinds /\ storeNow \in Nat \ {0} /\ inode \in {1, 2}
          /\ msgs \in [StoreId -> Seq(StoreMsg)] /\ (storeBatch = Idle \/ storeBatch \subseteq StoreId)
          /\ summary \in [StoreId -> Nat] /\ DOMAIN signals = StoreId /\ stamped \in [StoreId -> BOOLEAN]
      BY <1>3 DEF StoreTypeOK
    <2>2. /\ storeKind' \in StoreKinds /\ storeNow' \in Nat \ {0} /\ inode' \in {1, 2}
          /\ msgs' \in [StoreId -> Seq(StoreMsg)] /\ (storeBatch' = Idle \/ storeBatch' \subseteq StoreId)
          /\ summary' \in [StoreId -> Nat] /\ DOMAIN signals' = StoreId /\ stamped' \in [StoreId -> BOOLEAN]
      BY <1>2, <2>1
    <2>3. stamp' \in [StoreId -> Nat]
      BY <1>2, <1>4
    <2> QED
      BY <1>5, <1>6, <2>2, <2>3 DEF StoreTypeOK
  <1>8. StampsFit'
    BY <1>1, <1>2, <1>3, <1>4 DEF StampsFit
  <1>9. \A i \in StoreId : StoreRow(i)' = StoreRow(i) /\ Collected(i) = StoreRow(i)
    BY <1>1, <1>2, <1>3, CollectedIs DEF StoreRow
  <1>10. /\ \A i \in StoreId : stamped[i] => storeRows[i] = StoreRow(i) \/ storeCursor.times[i] # stamp[i]
         /\ quiet >= 1 => \A i \in StoreId : storeCursor.times[i] = stamp[i]
         /\ storeKind = "json" => \A i \in StoreId :
               storeRows[i] # NoStoreRow => \E j \in DOMAIN msgs[i] : msgs[i][j].whole
    BY <1>1 DEF StoresFit, FilesFit
  <1>11. \A i \in StoreId : i \notin given => storeCursor.times[i] = stamp[i] \/ StoreRow(i) = NoStoreRow
    BY <1>9 DEF ShouldSkip
  <1>12. \A i \in given : i \in StoreId /\ storeCursor.times[i] # stamp[i] /\ StoreRow(i) # NoStoreRow
    BY <1>9 DEF ShouldSkip
  <1> HIDE DEF given
  <1>13. \A i \in StoreId : storeRows'[i] = IF i \in given THEN StoreRow(i) ELSE storeRows[i]
    BY <1>1, <1>9
  <1>14. \A i \in StoreId : stamped[i] => storeRows'[i] = StoreRow(i)
    <2> SUFFICES ASSUME NEW i \in StoreId, stamped[i] PROVE storeRows'[i] = StoreRow(i)
      OBVIOUS
    <2>1. CASE i \in given
      BY <1>13, <2>1
    <2>2. CASE i \notin given /\ storeCursor.times[i] = stamp[i]
      BY <1>10, <1>13, <2>2
    <2>3. CASE i \notin given /\ StoreRow(i) = NoStoreRow
      <3>1. storeKind = "json" /\ ~\E j \in DOMAIN msgs[i] : msgs[i][j].whole
        BY <1>1, <1>3, <2>3, RowIsThere
      <3>2. storeRows[i] = NoStoreRow
        BY <1>10, <3>1
      <3> QED
        BY <1>13, <2>3, <3>2
    <2> QED
      BY <1>11, <2>1, <2>2, <2>3
  <1>15. quiet' >= 2 => given = {}
    BY <1>6, <1>10, <1>12
  <1>16. storeKind = "json" => \A i \in StoreId :
             storeRows'[i] # NoStoreRow => \E j \in DOMAIN msgs[i] : msgs[i][j].whole
    <2> SUFFICES ASSUME storeKind = "json", NEW i \in StoreId, storeRows'[i] # NoStoreRow
                 PROVE  \E j \in DOMAIN msgs[i] : msgs[i][j].whole
      OBVIOUS
    <2>1. CASE i \in given
      <3>1. StoreRow(i) # NoStoreRow
        BY <1>12, <2>1
      <3>2. storeKind = "json" /\ ~(\E j \in DOMAIN msgs[i] : msgs[i][j].whole) => StoreRow(i) = NoStoreRow
        <4> SUFFICES ASSUME ~(\E j \in DOMAIN msgs[i] : msgs[i][j].whole) PROVE StoreRow(i) = NoStoreRow
          OBVIOUS
        <4>1. {j \in DOMAIN msgs[i] : msgs[i][j].whole} = {}
          OBVIOUS
        <4> QED
          BY <4>1 DEF StoreRow, RowNow
      <3> QED
        BY <3>1, <3>2
    <2>2. CASE i \notin given
      BY <1>10, <1>13, <2>2
    <2> QED
      BY <2>1, <2>2
  <1>17. FilesFit'
    <2>1. \A i \in StoreId : stamp[i] <= stamp[i]
      BY <1>4
    <2>2. storeCursor'.times = stamp
      BY <1>1
    <2> QED
      BY <1>1, <1>2, <1>9, <1>14, <1>15, <1>16, <2>1, <2>2 DEF FilesFit
  <1>18. DatabaseFits'
    BY <1>1, <1>2 DEF DatabaseFits
  <1> QED
    BY <1>7, <1>8, <1>17, <1>18 DEF StoresFit

\* After the first query of a pass the watermark is settled, and every
\* session that was due is about to be read or masked.
LEMMA DbSessionsKeeps == ASSUME StoresFit, DbSessions PROVE StoresFit'
  <1> DEFINE raw == QuerySessions
             mark == Watermark.last
             seen == Watermark.ids
             last == IF raw = {} THEN mark ELSE Max({stamp[i] : i \in raw})
             ids == IdsAtMax(raw, last)
  <1>1. /\ storeKind = "sqlite" /\ storeBatch = Idle /\ storeBatch' = raw \ seen
        /\ storeCursor' = [times |-> storeCursor.times, last |-> last, ids |-> ids, inode |-> inode]
        /\ masked' = (masked \ (raw \ seen)) \cup {i \in raw \cap seen : stamp[i] > mark}
        /\ UNCHANGED <<env, storeRows, emitted, quiet, stamped>>
    BY DEF DbSessions, NotProcessed
  <1>2. /\ storeKind' = storeKind /\ storeNow' = storeNow /\ msgs' = msgs /\ stamp' = stamp
        /\ summary' = summary /\ signals' = signals /\ inode' = inode /\ stamped' = stamped
        /\ storeRows' = storeRows /\ emitted' = emitted /\ quiet' = quiet
    BY <1>1 DEF env
  <1>3. StoreTypeOK /\ StampsFit
    BY DEF StoresFit
  <1>4. /\ \A i \in StoreId : stamp[i] \in Nat /\ stamp[i] <= storeNow
        /\ storeNow \in Nat /\ quiet \in 0..3 /\ inode \in {1, 2} /\ storeCursor \in StoreCursors
    BY <1>3 DEF StoreTypeOK, StampsFit
  <1>5. /\ storeCursor.last \in Nat /\ storeCursor.last <= storeNow /\ storeCursor.ids \subseteq StoreId
        /\ storeCursor.times \in [StoreId -> Nat]
    BY <1>3, <1>4 DEF StoreCursors, StampsFit
  <1>6. /\ storeCursor.inode = inode => mark = storeCursor.last /\ seen = storeCursor.ids
        /\ storeCursor.inode # inode => mark = 0 /\ seen = {}
    BY DEF Watermark
  <1>7. mark \in Nat /\ mark <= storeNow /\ seen \subseteq StoreId
    BY <1>4, <1>5, <1>6
  <1>8. \A i : i \in raw <=> i \in StoreId /\ stamp[i] # 0 /\ stamp[i] >= mark
    BY DEF QuerySessions
  <1> HIDE DEF raw, mark, seen
  <1>9. /\ last \in Nat /\ last <= storeNow /\ mark <= last
        /\ \A i \in raw : stamp[i] <= last
    <2>1. CASE raw = {}
      BY <1>7, <2>1
    <2>2. CASE raw # {}
      <3> DEFINE T == {stamp[i] : i \in raw}
      <3>1. T \in SUBSET Nat /\ T # {} /\ \A v \in T : v <= storeNow
        BY <1>4, <1>8, <2>2
      <3>2. Max(T) \in T /\ \A w \in T : w <= Max(T)
        BY <1>4, <3>1, MaxIs
      <3>3. last = Max(T)
        BY <2>2
      <3> HIDE DEF last
      <3>4. PICK i \in raw : Max(T) = stamp[i]
        BY <3>2
      <3>5. mark <= stamp[i] /\ stamp[i] \in Nat /\ stamp[i] <= storeNow
        BY <1>4, <1>8
      <3>6. \A j \in raw : stamp[j] <= last
        BY <3>2, <3>3
      <3> QED
        BY <3>3, <3>4, <3>5, <3>6
    <2> QED
      BY <2>1, <2>2
  <1>10. \A i : i \in ids <=> i \in raw /\ stamp[i] = last
    BY DEF IdsAtMax
  <1> HIDE DEF last, ids
  <1>11. storeCursor'.last = last /\ storeCursor'.ids = ids /\ storeCursor'.inode = inode
    BY <1>1
  <1>12. storeCursor' \in StoreCursors
    <2>1. ids \in SUBSET StoreId /\ inode \in {0, 1, 2}
      BY <1>4, <1>8, <1>10
    <2> QED
      BY <1>1, <1>5, <1>9, <2>1 DEF StoreCursors
  <1>13. StoreTypeOK'
    <2>1. /\ storeKind \in StoreKinds /\ storeNow \in Nat \ {0} /\ inode \in {1, 2}
          /\ msgs \in [StoreId -> Seq(StoreMsg)] /\ stamp \in [StoreId -> Nat]
          /\ summary \in [StoreId -> Nat] /\ DOMAIN signals = StoreId
          /\ quiet \in 0..3 /\ stamped \in [StoreId -> BOOLEAN]
      BY <1>3 DEF StoreTypeOK
    <2>2. storeBatch' \subseteq StoreId
      BY <1>1, <1>8
    <2>3. /\ storeKind' \in StoreKinds /\ storeNow' \in Nat \ {0} /\ inode' \in {1, 2}
          /\ msgs' \in [StoreId -> Seq(StoreMsg)] /\ stamp' \in [StoreId -> Nat]
          /\ summary' \in [StoreId -> Nat] /\ DOMAIN signals' = StoreId
          /\ quiet' \in 0..3 /\ stamped' \in [StoreId -> BOOLEAN]
      BY <1>2, <2>1
    <2> QED
      BY <1>12, <2>2, <2>3 DEF StoreTypeOK
  <1>14. StampsFit'
    BY <1>2, <1>4, <1>9, <1>11 DEF StampsFit
  <1>15. FilesFit'
    BY <1>1, <1>2 DEF FilesFit
  <1>16. /\ quiet >= 2 => Settled
         /\ quiet >= 3 => emitted = {}
         /\ \A i \in StoreId \ masked : stamped[i] => storeRows[i] = StoreRow(i) \/ Due(i)
    BY <1>1 DEF StoresFit, DatabaseFits
  <1>17. Settled'
    <2>1. \A i \in StoreId : /\ stamp[i] <= last
                             /\ stamp[i] = last /\ stamp[i] # 0 => i \in ids
      <3> SUFFICES ASSUME NEW i \in StoreId PROVE stamp[i] <= last /\ (stamp[i] = last /\ stamp[i] # 0 => i \in ids)
        OBVIOUS
      <3>1. CASE i \in raw
        BY <1>9, <1>10, <3>1
      <3>2. CASE i \notin raw
        <4>1. stamp[i] = 0 \/ stamp[i] < mark
          BY <1>4, <1>7, <1>8, <3>2
        <4> QED
          BY <1>4, <1>7, <1>9, <4>1
      <3> QED
        BY <3>1, <3>2
    <2> QED
      BY <1>2, <1>11, <2>1 DEF Settled
  <1>18. quiet >= 2 => storeBatch' = {}
    <2> SUFFICES ASSUME quiet >= 2 PROVE raw \ seen = {}
      BY <1>1
    <2>1. Settled
      BY <1>16
    <2>2. mark = storeCursor.last /\ seen = storeCursor.ids
      BY <1>6, <2>1 DEF Settled
    <2>3. \A i \in raw : i \in StoreId /\ stamp[i] = mark /\ stamp[i] # 0
      BY <1>4, <1>7, <1>8, <2>1, <2>2 DEF Settled
    <2> QED
      BY <2>1, <2>2, <2>3 DEF Settled
  <1>19. \A i \in StoreId \ masked' : stamped[i] => storeRows[i] = StoreRow(i) \/ i \in storeBatch'
    <2> SUFFICES ASSUME NEW i \in StoreId \ masked', stamped[i], storeRows[i] # StoreRow(i) PROVE i \in storeBatch'
      OBVIOUS
    <2>1. CASE i \in masked
      BY <1>1, <2>1
    <2>2. CASE i \notin masked
      <3>1. Due(i)
        BY <1>16, <2>2
      <3>2. i \notin storeBatch
        BY <1>1, StoreAssumption DEF Idle
      <3>3. CASE stamp[i] # 0 /\ storeCursor.inode # inode
        BY <1>1, <1>4, <1>6, <1>8, <3>3
      <3>4. CASE storeCursor.inode = inode /\ stamp[i] # 0 /\ stamp[i] >= storeCursor.last /\ i \notin storeCursor.ids
        BY <1>1, <1>6, <1>8, <3>4
      <3>5. CASE storeCursor.inode = inode /\ i \in storeCursor.ids /\ stamp[i] > storeCursor.last
        <4>1. i \in raw /\ i \in seen /\ stamp[i] > mark
          BY <1>4, <1>5, <1>6, <1>8, <3>5
        <4> QED
          BY <1>1, <4>1
      <3> QED
        BY <3>1, <3>2, <3>3, <3>4, <3>5 DEF Due
    <2> QED
      BY <2>1, <2>2
  <1>20. \A i \in StoreId : StoreRow(i)' = StoreRow(i)
    BY <1>2 DEF StoreRow
  <1>21. \A i \in StoreId \ masked' : stamped'[i] => storeRows'[i] = StoreRow(i)' \/ Due(i)'
    BY <1>2, <1>19, <1>20 DEF Due
  <1>22. \A i \in ids : stamp[i] >= last
    BY <1>4, <1>8, <1>9, <1>10
  <1>23. storeCursor'.inode <= inode'
    BY <1>2, <1>4, <1>11
  <1>24. DatabaseFits'
    BY <1>2, <1>11, <1>16, <1>17, <1>18, <1>21, <1>22, <1>23 DEF DatabaseFits
  <1> QED
    BY <1>13, <1>14, <1>15, <1>24 DEF StoresFit

LEMMA DbMessagesKeeps == ASSUME StoresFit, DbMessages PROVE StoresFit'
  <1>1. /\ storeKind = "sqlite" /\ storeBatch # Idle /\ storeBatch' = Idle
        /\ storeRows' = [i \in StoreId |-> IF i \in storeBatch THEN CollectOpenCodeSqliteSessions(i) ELSE storeRows[i]]
        /\ emitted' = storeBatch /\ quiet' = (IF quiet < 3 THEN quiet + 1 ELSE 3)
        /\ UNCHANGED <<env, storeCursor, stamped, masked>>
    BY DEF DbMessages, Passed
  <1>2. /\ storeKind' = storeKind /\ storeNow' = storeNow /\ msgs' = msgs /\ stamp' = stamp
        /\ summary' = summary /\ signals' = signals /\ inode' = inode /\ stamped' = stamped
        /\ storeCursor' = storeCursor /\ masked' = masked
    BY <1>1 DEF env
  <1>3. StoreTypeOK /\ StampsFit
    BY DEF StoresFit
  <1>4. /\ quiet \in 0..3 /\ storeBatch \subseteq StoreId
        /\ quiet' \in 0..3 /\ (quiet' >= 2 => quiet >= 1) /\ (quiet' >= 3 => quiet >= 2)
    BY <1>1, <1>3 DEF StoreTypeOK
  <1>5. StoreTypeOK'
    <2>1. /\ storeKind \in StoreKinds /\ storeNow \in Nat \ {0} /\ inode \in {1, 2}
          /\ msgs \in [StoreId -> Seq(StoreMsg)] /\ stamp \in [StoreId -> Nat] /\ storeCursor \in StoreCursors
          /\ summary \in [StoreId -> Nat] /\ DOMAIN signals = StoreId /\ stamped \in [StoreId -> BOOLEAN]
      BY <1>3 DEF StoreTypeOK
    <2>2. /\ storeKind' \in StoreKinds /\ storeNow' \in Nat \ {0} /\ inode' \in {1, 2}
          /\ msgs' \in [StoreId -> Seq(StoreMsg)] /\ stamp' \in [StoreId -> Nat] /\ storeCursor' \in StoreCursors
          /\ summary' \in [StoreId -> Nat] /\ DOMAIN signals' = StoreId /\ stamped' \in [StoreId -> BOOLEAN]
      BY <1>2, <2>1
    <2>3. storeBatch' = Idle /\ quiet' \in 0..3
      BY <1>1, <1>4
    <2> QED
      BY <2>2, <2>3 DEF StoreTypeOK
  <1>6. StampsFit'
    BY <1>2, <1>3 DEF StampsFit
  <1>7. FilesFit'
    BY <1>1, <1>2 DEF FilesFit
  <1>8. /\ storeCursor.inode <= inode
        /\ storeCursor.inode = inode => \A i \in storeCursor.ids : stamp[i] >= storeCursor.last
        /\ quiet >= 1 => Settled
        /\ quiet >= 2 => storeBatch = {}
        /\ \A i \in StoreId \ masked : stamped[i] => storeRows[i] = StoreRow(i) \/ Due(i)
    BY <1>1 DEF StoresFit, DatabaseFits
  <1>9. \A i \in StoreId : StoreRow(i)' = StoreRow(i) /\ CollectOpenCodeSqliteSessions(i) = StoreRow(i)
    BY <1>1, <1>2, <1>3, CollectedIs DEF StoreRow
  <1>10. \A i \in StoreId : storeRows'[i] = IF i \in storeBatch THEN StoreRow(i) ELSE storeRows[i]
    BY <1>1, <1>9
  <1>11. \A i \in StoreId : i \notin storeBatch => (Due(i) => Due(i)')
    BY <1>2 DEF Due
  <1>12. \A i \in StoreId \ masked : stamped[i] => storeRows'[i] = StoreRow(i) \/ Due(i)'
    BY <1>8, <1>10, <1>11
  <1>13. Settled => Settled'
    BY <1>2 DEF Settled
  <1>14. DatabaseFits'
    BY <1>1, <1>2, <1>4, <1>8, <1>9, <1>12, <1>13 DEF DatabaseFits
  <1> QED
    BY <1>5, <1>6, <1>7, <1>14 DEF StoresFit

LEMMA StoresStep == ASSUME StoresFit, [StoresNext]_storeVars PROVE StoresFit'
  <1>1. CASE UNCHANGED storeVars
    <2>1. /\ UNCHANGED <<storeKind, storeNow, msgs, stamp, summary, signals, inode>>
          /\ UNCHANGED <<storeCursor, storeBatch, storeRows, emitted, quiet, stamped, masked>>
      BY <1>1 DEF storeVars, env, reader
    <2>2. \A i \in StoreId : StoreRow(i)' = StoreRow(i) /\ (Due(i)' <=> Due(i))
      BY <2>1 DEF StoreRow, Due
    <2>3. StoreTypeOK' /\ StampsFit'
      BY <2>1 DEF StoresFit, StoreTypeOK, StampsFit
    <2>4. FilesFit'
      BY <2>1, <2>2 DEF StoresFit, FilesFit
    <2>5. Settled => Settled'
      BY <2>1 DEF Settled
    <2>6. DatabaseFits'
      BY <2>1, <2>2, <2>5 DEF StoresFit, DatabaseFits
    <2> QED
      BY <2>3, <2>4, <2>6 DEF StoresFit
  <1>2. CASE \E i \in StoreId : AddMessage(i) \/ CompleteMessage(i) \/ TouchSession(i)
                                \/ WriteSummary(i) \/ WriteSignals(i) \/ ReplaceDb(i)
    BY <1>2, AddKeeps, CompleteKeeps, TouchKeeps, ReplaceKeeps
  <1>3. CASE StoreTick \/ FilePass \/ DbSessions \/ DbMessages
    BY <1>3, TickKeeps, FilePassKeeps, DbSessionsKeeps, DbMessagesKeeps
  <1> QED
    BY <1>1, <1>2, <1>3 DEF StoresNext

LEMMA StoresFollow == StoresFit => OthersAreCurrent /\ SilentWhenQuiet
  <1> SUFFICES ASSUME StoresFit PROVE OthersAreCurrent /\ SilentWhenQuiet
    OBVIOUS
  <1>1. StoreTypeOK
    BY DEF StoresFit
  <1>2. quiet \in 0..3 /\ storeKind \in StoreKinds /\ (storeBatch = Idle \/ storeBatch \subseteq StoreId)
        /\ \A i \in StoreId : stamp[i] \in Nat
    BY <1>1 DEF StoreTypeOK
  <1>3. quiet >= 2 => quiet >= 1
    BY <1>2
  <1>4. SilentWhenQuiet
    BY <1>2 DEF StoresFit, FilesFit, DatabaseFits, SilentWhenQuiet
  <1>5. ASSUME quiet >= 2, NEW i \in StoreId \ masked, stamped[i] PROVE storeRows[i] = StoreRow(i)
    <2>1. CASE storeKind # "sqlite"
      BY <1>3, <1>5, <2>1 DEF StoresFit, FilesFit
    <2>2. CASE storeKind = "sqlite"
      <3>1. Settled /\ (storeRows[i] = StoreRow(i) \/ Due(i)) /\ (storeBatch # Idle => storeBatch = {})
        BY <1>5, <2>2 DEF StoresFit, DatabaseFits
      <3>2. i \notin storeBatch
        BY <3>1, StoreAssumption DEF Idle
      <3>3. storeCursor.last \in Nat
        BY <1>1 DEF StoreTypeOK, StoreCursors
      <3>4. ~Due(i)
        BY <1>2, <3>1, <3>2, <3>3 DEF Due, Settled
      <3> QED
        BY <3>1, <3>4
    <2> QED
      BY <2>1, <2>2
  <1>6. OthersAreCurrent
    BY <1>1, <1>5, CollectedIs DEF OthersAreCurrent
  <1> QED
    BY <1>4, <1>6

-----------------------------------------------------------------------------
(* What the passes over the logs of pi, OpenClaw and Copilot count.        *)

LogTypes == {"session", "change", "message", "compaction", "span", "plain", "marker", "open", "close"}
LogRecord == [type : LogTypes, model : Model \cup {Unknown}, id : EventId \cup {"none"}, tokens : {0, 1}]
ParserDelta == [line : Nat, model : Model \cup {Unknown}, from : Nat]

ParserTypeOK ==
    /\ parserKind \in ParserKinds /\ parserLines \in Seq(LogRecord) /\ offset \in 0..Len(parserLines)
    /\ deltas \subseteq ParserDelta /\ cut \subseteq Nat

\* What a tool may write behind a line of type last.
LineFits(kind, l, last) ==
    /\ l \in LogRecord
    /\ kind = "pi" /\ l.type = "message" => l.id = "none"
    /\ kind \in {"openclaw", "copilot"} => l.id = "none"
    /\ kind = "copilot" => /\ l.type = "open" => last = "marker"
                           /\ l.type = "close" => last = "open"

LogFits ==
    /\ \A i \in DOMAIN parserLines : LineFits(parserKind, parserLines[i], IF i = 1 THEN "plain" ELSE parserLines[i - 1].type)
    /\ torn # <<>> => LineFits(parserKind, torn[1], LastType)

\* The lines that one pass counts, with their models.
Counts(i) ==
    CASE parserKind = "pi" ->
            \/ parserLines[i].type = "message" /\ PiUsage(i)
            \/ i \in Compactions(i) /\ \A k \in Compactions(i - 1) : parserLines[k].id # parserLines[i].id
      [] parserKind = "openclaw" -> parserLines[i].tokens > 0
      [] parserKind = "otel" ->
            SpanUsage(i) /\ \A k \in 1..(i - 1) : parserLines[k].id = "none" \/ parserLines[k].id # parserLines[i].id
      [] parserKind = "copilot" -> parserLines[i].type = "close" /\ BlockUsage(i)
ModelOf(i) == IF parserKind = "pi" THEN CurrentModel(i, 0) ELSE parserLines[i].model

\* What was counted lies behind the offset, each line once.
DeltasFit ==
    /\ \A d \in deltas : d.line \in (d.from + 1)..offset
    /\ \A d, e \in deltas : d.line = e.line => d = e
    /\ parserKind = "pi" => \A d \in deltas : Counts(d.line)
    /\ parserKind = "otel" => \A d \in deltas : \A k \in (d.from + 1)..(d.line - 1) :
           parserLines[k].id = "none" \/ parserLines[k].id # parserLines[d.line].id

\* What one pass would count is counted, or a block that begins at a cut.
CountedFit ==
    \A i \in 1..offset : Counts(i) =>
        \/ parserKind = "copilot" /\ i - 2 \in cut
        \/ [line |-> i, model |-> ModelOf(i)] \in LinesOf(deltas)

\* Copilot: an offset within a block is at its marker, or behind a cut.
CutsFit ==
    parserKind = "copilot" =>
        /\ offset > 0 /\ parserLines[offset].type = "marker" => offset \in cut
        /\ offset > 0 /\ parserLines[offset].type = "open" => offset - 1 \in cut

ParsersFit == ParserTypeOK /\ LogFits /\ DeltasFit /\ CountedFit /\ CutsFit

-----------------------------------------------------------------------------

LEMMA LinesAre ==
    ASSUME ParserTypeOK
    PROVE  /\ Len(parserLines) \in Nat /\ DOMAIN parserLines = 1..Len(parserLines)
           /\ \A i \in 1..Len(parserLines) : parserLines[i] \in LogRecord
  <1>1. parserLines \in Seq(LogRecord)
    BY DEF ParserTypeOK
  <1> QED
    BY <1>1

LEMMA ModelIs ==
    ASSUME ParserTypeOK, NEW i \in 1..Len(parserLines)
    PROVE  ModelOf(i) \in Model \cup {Unknown}
  <1>1. parserLines[i].model \in Model \cup {Unknown}
    BY LinesAre DEF LogRecord
  <1>2. CurrentModel(i, 0) \in Model \cup {Unknown}
    <2> DEFINE S == Before(i, {"session", "change", "message"})
    <2>1. CASE S = {}
      BY <2>1 DEF CurrentModel
    <2>2. CASE S # {}
      <3>1. i \in Nat /\ S \in SUBSET Nat /\ \A j \in S : j <= i /\ j \in 1..Len(parserLines)
        BY LinesAre DEF Before
      <3>2. Max(S) \in S
        BY <2>2, <3>1, MaxIs
      <3>3. parserLines[Max(S)] \in LogRecord
        BY <3>1, <3>2, LinesAre
      <3>4. CurrentModel(i, 0) = parserLines[Max(S)].model
        BY <2>2 DEF CurrentModel
      <3> QED
        BY <3>3, <3>4 DEF LogRecord
    <2> QED
      BY <2>1, <2>2
  <1> QED
    BY <1>1, <1>2 DEF ModelOf

LEMMA CompactionsAre ==
    ASSUME ParserTypeOK, NEW n \in 0..Len(parserLines)
    PROVE  \A j : j \in Compactions(n) <=> j \in 1..n /\ j \in Compactions(j)
  BY LinesAre DEF Compactions, Before

\* A pass counts lines of its own, once each, with their models.
LEMMA PassIs ==
    ASSUME ParserTypeOK, parserKind # "copilot", NEW to \in 0..Len(parserLines), NEW from \in 0..to
    PROVE  /\ \A d \in Deltas(from, to) :
                /\ d.from = from /\ d.line \in (from + 1)..to
                /\ d = [line |-> d.line, model |-> ModelOf(d.line), from |-> from]
           /\ parserKind = "pi" => \A d \in Deltas(from, to) : Counts(d.line)
           /\ parserKind = "otel" => \A d \in Deltas(from, to) : \A k \in (from + 1)..(d.line - 1) :
                parserLines[k].id = "none" \/ parserLines[k].id # parserLines[d.line].id
           /\ from = 0 => \A d \in Deltas(from, to) : Counts(d.line)
           /\ \A i \in (from + 1)..to : Counts(i) => [line |-> i, model |-> ModelOf(i), from |-> from] \in Deltas(from, to)
  <1>1. to \in Nat /\ from \in Nat /\ from <= to /\ to <= Len(parserLines) /\ Len(parserLines) \in Nat
    BY LinesAre
  <1>2. CASE parserKind = "pi"
    <2> DEFINE I == {j \in (from + 1)..to : parserLines[j].type = "message" /\ PiUsage(j)} \cup
                    {j \in Compactions(to) \ 1..from : \A k \in Compactions(j - 1) : parserLines[k].id # parserLines[j].id}
    <2>1. Deltas(from, to) = {[line |-> i, model |-> ModelOf(i), from |-> from] : i \in I}
      BY <1>2 DEF Deltas, ParsePi, ModelOf, CurrentModel
    <2>2. \A i : i \in I <=> i \in (from + 1)..to /\ Counts(i)
      <3> SUFFICES ASSUME NEW i PROVE i \in I <=> i \in (from + 1)..to /\ Counts(i)
        OBVIOUS
      <3>1. Counts(i) <=> \/ parserLines[i].type = "message" /\ PiUsage(i)
                          \/ i \in Compactions(i) /\ \A k \in Compactions(i - 1) : parserLines[k].id # parserLines[i].id
        BY <1>2 DEF Counts
      <3>2. i \in Compactions(to) \ 1..from <=> i \in (from + 1)..to /\ i \in Compactions(i)
        <4>1. i \in Compactions(to) <=> i \in 1..to /\ i \in Compactions(i)
          BY CompactionsAre
        <4>2. i \in 1..to /\ i \notin 1..from <=> i \in (from + 1)..to
          BY <1>1
        <4> QED
          BY <4>1, <4>2
      <3> QED
        BY <3>1, <3>2
    <2> HIDE DEF I
    <2> QED
      BY <1>2, <2>1, <2>2
  <1>3. CASE parserKind = "openclaw"
    <2> DEFINE I == {j \in (from + 1)..to : parserLines[j].tokens > 0}
    <2>1. Deltas(from, to) = {[line |-> i, model |-> ModelOf(i), from |-> from] : i \in I}
      BY <1>3 DEF Deltas, ParseOpenClaw, ModelOf
    <2>2. \A i : i \in I <=> i \in (from + 1)..to /\ Counts(i)
      BY <1>3 DEF Counts
    <2> HIDE DEF I
    <2> QED
      BY <1>3, <2>1, <2>2
  <1>4. CASE parserKind = "otel"
    <2> DEFINE I == {j \in (from + 1)..to : SpanUsage(j) /\
                      \A k \in (from + 1)..(j - 1) : parserLines[k].id = "none" \/ parserLines[k].id # parserLines[j].id}
    <2>1. Deltas(from, to) = {[line |-> i, model |-> ModelOf(i), from |-> from] : i \in I}
      BY <1>4 DEF Deltas, ParseCopilotOtel, ModelOf
    <2>2. \A i : Counts(i) <=> SpanUsage(i) /\ \A k \in 1..(i - 1) : parserLines[k].id = "none" \/ parserLines[k].id # parserLines[i].id
      BY <1>4 DEF Counts
    <2>3. \A i \in (from + 1)..to : Counts(i) => i \in I
      <3> SUFFICES ASSUME NEW i \in (from + 1)..to, Counts(i) PROVE i \in I
        OBVIOUS
      <3>1. \A k \in (from + 1)..(i - 1) : k \in 1..(i - 1)
        BY <1>1
      <3> QED
        BY <2>2, <3>1
    <2>4. from = 0 => \A i \in I : Counts(i)
      BY <1>1, <2>2
    <2>5. \A i \in I : i \in (from + 1)..to /\ \A k \in (from + 1)..(i - 1) :
                         parserLines[k].id = "none" \/ parserLines[k].id # parserLines[i].id
      OBVIOUS
    <2> HIDE DEF I
    <2> QED
      BY <1>4, <2>1, <2>3, <2>4, <2>5
  <1> QED
    BY <1>2, <1>3, <1>4 DEF ParserTypeOK, ParserKinds

\* The process-log parser's state, line by line.
ReadState == [collecting : BOOLEAN, json : SUBSET Nat, safe : Nat, counted : SUBSET Nat]
FreshRead(from) == [collecting |-> FALSE, json |-> {}, safe |-> from, counted |-> {}]
Reads(f, from, to) ==
    f = [i \in from..to |-> IF i = from THEN FreshRead(from) ELSE ReadLine(f[i - 1], i)]

LEMMA ReadsThere ==
    ASSUME NEW from \in Nat, NEW to \in Nat, from <= to
    PROVE  \E f : Reads(f, from, to)
  <1> DEFINE Bad == {n \in from..to : ~\E f : Reads(f, from, n)}
  <1>1. SUFFICES Bad = {}
    <2>1. to \notin Bad
      BY <1>1
    <2> QED
      BY <2>1
  <1>2. SUFFICES ASSUME Bad # {} PROVE FALSE
    OBVIOUS
  <1>3. Bad \subseteq Nat
    OBVIOUS
  <1>4. PICK n \in Bad : \A m \in Bad : ~(<<m, n>> \in OpToRel(<, Nat))
    BY <1>2, <1>3, WFMin, NatLessThanWellFounded, Zenon
  <1>5. \A m \in Bad : ~(m < n)
    BY <1>3, <1>4, Zenon DEF OpToRel
  <1>6. n \in from..to /\ ~\E f : Reads(f, from, n)
    BY <1>4
  <1>7. CASE n = from
    <2>1. Reads([i \in from..n |-> FreshRead(from)], from, n)
      <3> DEFINE f == [i \in from..n |-> FreshRead(from)]
      <3>1. f = [i \in from..n |-> IF i = from THEN FreshRead(from) ELSE ReadLine(f[i - 1], i)]
        <4>1. \A i \in from..n : i = from
          BY <1>7
        <4> QED
          BY <4>1
      <3> QED
        BY <3>1 DEF Reads
    <2> QED
      BY <1>6, <2>1
  <1>8. CASE n # from
    <2>1. n - 1 \in from..to /\ n - 1 < n
      BY <1>6, <1>8
    <2>2. PICK f : Reads(f, from, n - 1)
      BY <1>5, <2>1
    <2> DEFINE g == [i \in from..n |-> IF i = n THEN ReadLine(f[n - 1], n) ELSE f[i]]
    <2>3. \A i \in from..(n - 1) : f[i] = IF i = from THEN FreshRead(from) ELSE ReadLine(f[i - 1], i)
      BY <2>2 DEF Reads
    <2>4. \A i \in from..n : g[i] = IF i = from THEN FreshRead(from) ELSE ReadLine(g[i - 1], i)
      <3> SUFFICES ASSUME NEW i \in from..n PROVE g[i] = IF i = from THEN FreshRead(from) ELSE ReadLine(g[i - 1], i)
        OBVIOUS
      <3>1. CASE i = n
        <4>1. g[n - 1] = f[n - 1] /\ g[n] = ReadLine(f[n - 1], n)
          BY <1>6, <2>1
        <4> QED
          BY <1>8, <3>1, <4>1
      <3>2. CASE i # n /\ i = from
        <4>1. g[i] = f[i] /\ i \in from..(n - 1)
          BY <1>6, <3>2
        <4> QED
          BY <2>3, <3>2, <4>1
      <3>3. CASE i # n /\ i # from
        <4>1. i \in from..(n - 1) /\ i - 1 \in from..n /\ i - 1 # n
          BY <1>6, <3>3
        <4>2. g[i] = f[i] /\ g[i - 1] = f[i - 1]
          BY <3>3, <4>1
        <4> QED
          BY <2>3, <3>3, <4>1, <4>2
      <3> QED
        BY <3>1, <3>2, <3>3
    <2>5. DOMAIN g = from..n /\ g = [i \in from..n |-> g[i]]
      OBVIOUS
    <2> HIDE DEF g
    <2>6. Reads(g, from, n)
      BY <2>4, <2>5 DEF Reads
    <2> QED
      BY <1>6, <2>6
  <1> QED
    BY <1>7, <1>8

LEMMA ReadIs ==
    ASSUME NEW from \in Nat, NEW to \in Nat, from <= to
    PROVE  \E f : Reads(f, from, to) /\ ParseCopilotCli(from, to) = f[to]
  <1> DEFINE read == CHOOSE f : Reads(f, from, to)
  <1>1. Reads(read, from, to)
    BY ReadsThere
  <1>2. ParseCopilotCli(from, to) = read[to]
    BY DEF ParseCopilotCli, Reads, FreshRead
  <1> QED
    BY <1>1, <1>2

\* What the parser's state is after line i of a pass: the safe line is one
\* that ended a block or none, and whole blocks behind it are counted.
ReadFits(s, from, i) ==
    /\ s \in ReadState
    /\ s.safe \in from..i /\ (s.safe = from \/ TypeAt(s.safe) \in {"plain", "close"})
    /\ \A j \in s.counted : j \in (from + 1)..s.safe /\ TypeAt(j) = "close"
    /\ \A j \in (from + 3)..i : j <= Len(parserLines) /\ TypeAt(j) = "close" => j \in s.counted
    /\ i > from /\ TypeAt(i) = "marker" => s.collecting
    /\ i > from + 1 /\ i <= Len(parserLines) /\ TypeAt(i) = "open" => s.collecting /\ s.json # {}

LEMMA BlocksAre ==
    ASSUME ParserTypeOK, LogFits, parserKind = "copilot", NEW i \in 1..Len(parserLines)
    PROVE  /\ TypeAt(i) = parserLines[i].type
           /\ TypeAt(i) = "open" => i > 1 /\ TypeAt(i - 1) = "marker"
           /\ TypeAt(i) = "close" => i > 2 /\ TypeAt(i - 1) = "open" /\ TypeAt(i - 2) = "marker"
  <1>1. Len(parserLines) \in Nat /\ DOMAIN parserLines = 1..Len(parserLines)
    BY LinesAre
  <1>2. \A j \in 1..Len(parserLines) : TypeAt(j) = parserLines[j].type
    BY <1>1 DEF TypeAt
  <1>3. \A j \in 1..Len(parserLines) :
           /\ parserLines[j].type = "open" => j > 1 /\ parserLines[j - 1].type = "marker"
           /\ parserLines[j].type = "close" => j > 1 /\ parserLines[j - 1].type = "open"
    <2> SUFFICES ASSUME NEW j \in 1..Len(parserLines)
                 PROVE  /\ parserLines[j].type = "open" => j > 1 /\ parserLines[j - 1].type = "marker"
                        /\ parserLines[j].type = "close" => j > 1 /\ parserLines[j - 1].type = "open"
      OBVIOUS
    <2> DEFINE last == IF j = 1 THEN "plain" ELSE parserLines[j - 1].type
    <2>1. LineFits(parserKind, parserLines[j], last)
      BY <1>1 DEF LogFits
    <2>2. /\ parserLines[j].type = "open" => last = "marker"
          /\ parserLines[j].type = "close" => last = "open"
      BY <2>1 DEF LineFits
    <2>3. j = 1 \/ (j > 1 /\ last = parserLines[j - 1].type)
      BY <1>1
    <2>4. j = 1 => last = "plain"
      OBVIOUS
    <2> HIDE DEF last
    <2> QED
      BY <2>2, <2>3, <2>4
  <1>4. TypeAt(i) = "open" => i > 1 /\ TypeAt(i - 1) = "marker"
    <2> SUFFICES ASSUME TypeAt(i) = "open" PROVE i > 1 /\ TypeAt(i - 1) = "marker"
      OBVIOUS
    <2>1. i > 1 /\ parserLines[i - 1].type = "marker"
      BY <1>2, <1>3
    <2>2. i - 1 \in 1..Len(parserLines)
      BY <1>1, <2>1
    <2> QED
      BY <1>2, <2>1, <2>2
  <1>5. TypeAt(i) = "close" => i > 2 /\ TypeAt(i - 1) = "open" /\ TypeAt(i - 2) = "marker"
    <2> SUFFICES ASSUME TypeAt(i) = "close" PROVE i > 2 /\ TypeAt(i - 1) = "open" /\ TypeAt(i - 2) = "marker"
      OBVIOUS
    <2>1. i > 1 /\ parserLines[i - 1].type = "open"
      BY <1>2, <1>3
    <2>2. i - 1 \in 1..Len(parserLines)
      BY <1>1, <2>1
    <2>3. i - 1 > 1 /\ parserLines[i - 2].type = "marker"
      <3>1. i - 1 > 1 /\ parserLines[(i - 1) - 1].type = "marker"
        BY <1>3, <2>1, <2>2
      <3>2. (i - 1) - 1 = i - 2
        BY <1>1
      <3> QED
        BY <3>1, <3>2
    <2>4. i - 2 \in 1..Len(parserLines) /\ i > 2
      BY <1>1, <2>3
    <2> QED
      BY <1>2, <2>1, <2>2, <2>3, <2>4
  <1> QED
    BY <1>2, <1>4, <1>5

LEMMA ReadLineFits ==
    ASSUME ParserTypeOK, LogFits, parserKind = "copilot", NEW from \in Nat, NEW i \in Nat, i > from,
           i <= Len(parserLines) + 1, NEW s, ReadFits(s, from, i - 1)
    PROVE  ReadFits(ReadLine(s, i), from, i)
  <1> DEFINE r == ReadLine(s, i)
  <1> SUFFICES ReadFits(r, from, i)
    OBVIOUS
  <1>1. s \in ReadState /\ s.safe \in from..(i - 1) /\ s.safe \in Nat /\ Len(parserLines) \in Nat
    BY LinesAre DEF ReadFits
  <1>2. /\ s.safe = from \/ TypeAt(s.safe) \in {"plain", "close"}
        /\ \A j \in s.counted : j \in (from + 1)..s.safe /\ TypeAt(j) = "close"
        /\ \A j \in (from + 3)..(i - 1) : j <= Len(parserLines) /\ TypeAt(j) = "close" => j \in s.counted
    BY DEF ReadFits
  <1>3. i <= Len(parserLines) /\ i > from + 1 /\ TypeAt(i) = "open" => s.collecting
    <2> SUFFICES ASSUME i <= Len(parserLines), i > from + 1, TypeAt(i) = "open" PROVE s.collecting
      OBVIOUS
    <2>1. i \in 1..Len(parserLines)
      BY <1>1
    <2>2. TypeAt(i - 1) = "marker"
      BY <2>1, BlocksAre
    <2> QED
      BY <2>2 DEF ReadFits
  <1>4. i <= Len(parserLines) /\ i >= from + 3 /\ TypeAt(i) = "close" => s.json # {}
    <2> SUFFICES ASSUME i <= Len(parserLines), i >= from + 3, TypeAt(i) = "close" PROVE s.json # {}
      OBVIOUS
    <2>1. i \in 1..Len(parserLines)
      BY <1>1
    <2>2. TypeAt(i - 1) = "open"
      BY <2>1, BlocksAre
    <2>3. i - 1 > from + 1 /\ i - 1 <= Len(parserLines)
      BY <1>1
    <2> QED
      BY <2>2, <2>3 DEF ReadFits
  <1>5. \A j \in (from + 3)..i : j \in (from + 3)..(i - 1) \/ (j = i /\ i >= from + 3)
    OBVIOUS
  <1>6. \A j \in (from + 1)..s.safe : j \in (from + 1)..i
    BY <1>1
  <1>7. s.safe \in from..i /\ i \in from..i /\ i \in (from + 1)..i
    BY <1>1
  <1>8. CASE TypeAt(i) = "plain"
    <2>1. r = [s EXCEPT !.collecting = FALSE, !.json = {}, !.safe = i]
      BY <1>8 DEF ReadLine
    <2>2. r \in ReadState /\ r.safe = i /\ r.counted = s.counted
      BY <1>1, <2>1 DEF ReadState
    <2> HIDE DEF r
    <2> QED
      BY <1>2, <1>5, <1>6, <1>7, <1>8, <2>2 DEF ReadFits
  <1>9. CASE TypeAt(i) = "marker"
    <2>1. r = [s EXCEPT !.collecting = TRUE, !.json = {}]
      BY <1>9 DEF ReadLine
    <2>2. r \in ReadState /\ r.safe = s.safe /\ r.counted = s.counted /\ r.collecting
      BY <1>1, <2>1 DEF ReadState
    <2> HIDE DEF r
    <2> QED
      BY <1>2, <1>5, <1>6, <1>7, <1>9, <2>2 DEF ReadFits
  <1>10. CASE TypeAt(i) = "open" /\ s.collecting
    <2>1. r = [s EXCEPT !.json = s.json \cup {i}]
      BY <1>10 DEF ReadLine
    <2>2. r \in ReadState /\ r.safe = s.safe /\ r.counted = s.counted /\ r.collecting /\ r.json # {}
      BY <1>1, <1>10, <2>1 DEF ReadState
    <2> HIDE DEF r
    <2> QED
      BY <1>2, <1>5, <1>6, <1>7, <1>10, <2>2 DEF ReadFits
  <1>11. CASE TypeAt(i) = "close" /\ s.json # {}
    <2>1. r = [s EXCEPT !.collecting = FALSE, !.json = {}, !.safe = i, !.counted = s.counted \cup {i}]
      BY <1>11 DEF ReadLine
    <2>2. r \in ReadState /\ r.safe = i /\ r.counted = s.counted \cup {i}
      BY <1>1, <2>1 DEF ReadState
    <2> HIDE DEF r
    <2>3. \A j \in r.counted : j \in (from + 1)..i /\ TypeAt(j) = "close"
      BY <1>2, <1>6, <1>7, <1>11, <2>2
    <2>4. \A j \in (from + 3)..i : j <= Len(parserLines) /\ TypeAt(j) = "close" => j \in r.counted
      BY <1>2, <1>5, <2>2
    <2> QED
      BY <1>7, <1>11, <2>2, <2>3, <2>4 DEF ReadFits
  <1>12. CASE /\ TypeAt(i) \notin {"plain", "marker"}
              /\ ~(TypeAt(i) = "open" /\ s.collecting) /\ ~(TypeAt(i) = "close" /\ s.json # {})
    <2>1. r = s
      BY <1>12 DEF ReadLine
    <2> HIDE DEF r
    <2>2. \A j \in (from + 3)..i : j <= Len(parserLines) /\ TypeAt(j) = "close" => j \in s.counted
      BY <1>2, <1>4, <1>5, <1>12
    <2> QED
      BY <1>1, <1>2, <1>3, <1>7, <1>12, <2>1, <2>2 DEF ReadFits
  <1> QED
    BY <1>8, <1>9, <1>10, <1>11, <1>12

LEMMA ReadingFits ==
    ASSUME ParserTypeOK, LogFits, parserKind = "copilot", NEW from \in Nat, NEW to \in Nat, from <= to,
           to <= Len(parserLines) + 1
    PROVE  ReadFits(ParseCopilotCli(from, to), from, to)
  <1>1. PICK f : Reads(f, from, to) /\ ParseCopilotCli(from, to) = f[to]
    BY ReadIs
  <1>2. \A i \in from..to : f[i] = IF i = from THEN FreshRead(from) ELSE ReadLine(f[i - 1], i)
    BY <1>1 DEF Reads
  <1> DEFINE Bad == {i \in from..to : ~ReadFits(f[i], from, i)}
  <1>3. SUFFICES ASSUME Bad # {} PROVE FALSE
    BY <1>1
  <1>4. Bad \subseteq Nat
    OBVIOUS
  <1>5. PICK n \in Bad : \A m \in Bad : ~(<<m, n>> \in OpToRel(<, Nat))
    BY <1>3, <1>4, WFMin, NatLessThanWellFounded, Zenon
  <1>6. \A m \in Bad : ~(m < n)
    BY <1>4, <1>5, Zenon DEF OpToRel
  <1>7. n \in from..to /\ ~ReadFits(f[n], from, n)
    BY <1>5
  <1>8. CASE n = from
    <2>1. f[n] = FreshRead(from)
      BY <1>2, <1>7, <1>8
    <2>2. FreshRead(from) \in ReadState /\ FreshRead(from).safe = from /\ FreshRead(from).counted = {}
      BY DEF FreshRead, ReadState
    <2>3. ReadFits(FreshRead(from), from, from)
      BY <2>2 DEF ReadFits
    <2> QED
      BY <1>7, <1>8, <2>1, <2>3
  <1>9. CASE n # from
    <2>1. n - 1 \in from..to /\ n - 1 < n /\ n \in Nat /\ n > from /\ n <= Len(parserLines) + 1
      <3>1. Len(parserLines) \in Nat
        BY LinesAre
      <3> QED
        BY <1>7, <1>9, <3>1
    <2>2. ReadFits(f[n - 1], from, n - 1)
      BY <1>6, <2>1
    <2>3. f[n] = ReadLine(f[n - 1], n)
      BY <1>2, <1>7, <1>9
    <2>4. ReadFits(ReadLine(f[n - 1], n), from, n)
      BY <2>1, <2>2, ReadLineFits
    <2> QED
      BY <1>7, <2>3, <2>4
  <1> QED
    BY <1>8, <1>9

-----------------------------------------------------------------------------

LEMMA ParsersStart == ParsersInit => ParsersFit
  <1> SUFFICES ASSUME ParsersInit PROVE ParsersFit
    OBVIOUS
  <1>1. /\ parserKind \in ParserKinds /\ parserLines = <<>> /\ torn = <<>>
        /\ offset = 0 /\ deltas = {} /\ cut = {}
    BY DEF ParsersInit
  <1>2. ParserTypeOK
    BY <1>1 DEF ParserTypeOK
  <1>3. LogFits
    BY <1>1 DEF LogFits
  <1>4. DeltasFit /\ CountedFit /\ CutsFit
    BY <1>1 DEF DeltasFit, CountedFit, CutsFit
  <1> QED
    BY <1>2, <1>3, <1>4 DEF ParsersFit

\* What a tool writes fits behind the last line.
LEMMA WritesFit == ASSUME ParserTypeOK, NEW l \in LogWrites PROVE LineFits(parserKind, l, LastType)
  <1>1. CASE parserKind = "pi"
    <2>1. l \in LogLine("session", {Unknown}, {"none"}, {0}) \cup LogLine("change", Model, {"none"}, {0})
                  \cup LogLine("message", Model, {"none"}, {0, 1}) \cup LogLine("compaction", {Unknown}, EventId, {1})
      BY <1>1 DEF LogWrites
    <2> QED
      BY <1>1, <2>1 DEF LineFits, LogLine, LogRecord, LogTypes
  <1>2. CASE parserKind = "openclaw"
    <2>1. l \in LogLine("message", Model, {"none"}, {0, 1})
      BY <1>2 DEF LogWrites
    <2> QED
      BY <1>2, <2>1 DEF LineFits, LogLine, LogRecord, LogTypes
  <1>3. CASE parserKind = "otel"
    <2>1. l \in LogLine("span", Model, EventId \cup {"none"}, {0, 1})
      BY <1>3 DEF LogWrites
    <2> QED
      BY <1>3, <2>1 DEF LineFits, LogLine, LogRecord, LogTypes
  <1>4. CASE parserKind = "copilot"
    <2>1. CASE LastType = "marker"
      <3>1. l \in LogLine("open", {Unknown}, {"none"}, {0})
        BY <1>4, <2>1 DEF LogWrites
      <3> QED
        BY <1>4, <2>1, <3>1 DEF LineFits, LogLine, LogRecord, LogTypes
    <2>2. CASE LastType = "open"
      <3>1. l \in Plain \cup LogLine("close", Model, {"none"}, {0, 1})
        BY <1>4, <2>2 DEF LogWrites
      <3> QED
        BY <1>4, <2>2, <3>1 DEF LineFits, LogLine, LogRecord, LogTypes, Plain
    <2>3. CASE LastType \notin {"marker", "open"}
      <3>1. l \in Plain \cup LogLine("marker", {Unknown}, {"none"}, {0})
        BY <1>4, <2>3 DEF LogWrites
      <3> QED
        BY <1>4, <2>3, <3>1 DEF LineFits, LogLine, LogRecord, LogTypes, Plain
    <2> QED
      BY <2>1, <2>2, <2>3
  <1> QED
    BY <1>1, <1>2, <1>3, <1>4 DEF ParserTypeOK, ParserKinds

LEMMA PartKeeps == ASSUME ParsersFit, WritePart PROVE ParsersFit'
  <1>1. PICK l \in LogWrites : \E p \in Pieces(l) : torn' = <<l, p>>
    BY DEF WritePart
  <1>2. PICK p \in Pieces(l) : torn' = <<l, p>>
    BY <1>1
  <1>3. UNCHANGED <<parserKind, parserLines, parserCursor, offset, deltas, cut>>
    BY DEF WritePart
  <1>4. ParserTypeOK /\ LogFits
    BY DEF ParsersFit
  <1>5. torn'[1] = l /\ LineFits(parserKind, l, LastType)
    BY <1>2, <1>4, WritesFit
  <1>6. ParserTypeOK'
    BY <1>3, <1>4 DEF ParserTypeOK
  <1>7. LogFits'
    BY <1>3, <1>4, <1>5 DEF LogFits, LastType
  <1>8. \A i : (Counts(i)' <=> Counts(i)) /\ ModelOf(i)' = ModelOf(i)
    BY <1>3 DEF Counts, ModelOf, CurrentModel, PiUsage, SpanUsage, BlockUsage, Compactions, Before
  <1>9. DeltasFit' /\ CountedFit' /\ CutsFit'
    BY <1>3, <1>8 DEF ParsersFit, DeltasFit, CountedFit, CutsFit, LinesOf
  <1> QED
    BY <1>6, <1>7, <1>9 DEF ParsersFit

\* A line behind the others changes nothing of what these are.
LEMMA RestKeeps == ASSUME ParsersFit, WriteRest PROVE ParsersFit'
  <1> DEFINE l == torn[1]
             n == Len(parserLines)
  <1>1. /\ torn # <<>> /\ parserLines' = Append(parserLines, l) /\ torn' = <<>>
        /\ UNCHANGED <<parserKind, parserCursor, offset, deltas, cut>>
    BY DEF WriteRest
  <1>2. ParserTypeOK /\ LogFits /\ LineFits(parserKind, l, LastType)
    BY <1>1 DEF ParsersFit, LogFits
  <1>3. l \in LogRecord
    BY <1>2 DEF LineFits
  <1>4. n \in Nat /\ parserLines \in Seq(LogRecord) /\ offset \in 0..n
    BY <1>2, LinesAre DEF ParserTypeOK
  <1> HIDE DEF l
  <1>5. /\ parserLines' \in Seq(LogRecord) /\ Len(parserLines') = n + 1 /\ parserLines'[n + 1] = l
        /\ \A i \in 1..n : parserLines'[i] = parserLines[i]
    BY <1>1, <1>3, <1>4
  <1>6. DOMAIN parserLines' = 1..(n + 1) /\ DOMAIN parserLines = 1..n
    BY <1>4, <1>5
  <1> HIDE DEF n
  <1>7. ParserTypeOK'
    <2>1. Len(parserLines') = n + 1 /\ offset \in 0..(n + 1)
      BY <1>4, <1>5
    <2> QED
      BY <1>1, <1>2, <1>5, <2>1 DEF ParserTypeOK
  <1>8. LogFits'
    <2> SUFFICES ASSUME NEW i \in 1..(n + 1)
                 PROVE  LineFits(parserKind, parserLines'[i], IF i = 1 THEN "plain" ELSE parserLines'[i - 1].type)
      BY <1>1, <1>6 DEF LogFits
    <2>1. CASE i \in 1..n
      <3>1. i = 1 \/ i - 1 \in 1..n
        BY <1>4, <2>1
      <3>2. (IF i = 1 THEN "plain" ELSE parserLines'[i - 1].type) = (IF i = 1 THEN "plain" ELSE parserLines[i - 1].type)
        BY <1>5, <3>1
      <3>3. LineFits(parserKind, parserLines[i], IF i = 1 THEN "plain" ELSE parserLines[i - 1].type)
        BY <1>2, <1>6, <2>1 DEF LogFits
      <3> QED
        BY <1>5, <2>1, <3>2, <3>3
    <2>2. CASE i = n + 1
      <3>1. LastType = IF i = 1 THEN "plain" ELSE parserLines'[i - 1].type
        <4>1. parserLines = <<>> <=> n = 0
          BY <1>4 DEF n
        <4>2. i = 1 <=> n = 0
          BY <1>4, <2>2
        <4>3. n # 0 => i - 1 = n /\ n \in 1..n
          BY <1>4, <2>2
        <4> QED
          BY <1>5, <4>1, <4>2, <4>3 DEF LastType, n
      <3> QED
        BY <1>2, <1>5, <2>2, <3>1
    <2> QED
      BY <1>4, <2>1, <2>2
  <1>9. \A i \in 0..n : \A types : Before(i, types)' = Before(i, types)
    <2> SUFFICES ASSUME NEW i \in 0..n, NEW types PROVE Before(i, types)' = Before(i, types)
      OBVIOUS
    <2>1. \A j \in 1..i : j \in 1..n
      BY <1>4
    <2> QED
      BY <1>5, <2>1 DEF Before
  <1>10. \A i \in 0..n : Compactions(i)' = Compactions(i)
    <2> SUFFICES ASSUME NEW i \in 0..n PROVE Compactions(i)' = Compactions(i)
      OBVIOUS
    <2>1. Before(i, {"compaction"})' = Before(i, {"compaction"})
      BY <1>9
    <2>2. \A j \in Before(i, {"compaction"}) : j \in 0..n
      BY <1>4 DEF Before
    <2>3. \A j \in Before(i, {"compaction"}) : Before(j, {"session"})' = Before(j, {"session"})
      BY <1>9, <2>2
    <2> QED
      BY <2>1, <2>3 DEF Compactions
  <1>11. \A i \in 1..n : (Counts(i)' <=> Counts(i)) /\ ModelOf(i)' = ModelOf(i)
    <2> SUFFICES ASSUME NEW i \in 1..n PROVE (Counts(i)' <=> Counts(i)) /\ ModelOf(i)' = ModelOf(i)
      OBVIOUS
    <2>1. i \in 0..n /\ i - 1 \in 0..n /\ parserLines'[i] = parserLines[i]
      BY <1>4, <1>5
    <2>2. Compactions(i)' = Compactions(i) /\ Compactions(i - 1)' = Compactions(i - 1)
      BY <1>10, <2>1
    <2>3. \A k \in 1..(i - 1) : parserLines'[k] = parserLines[k]
      BY <1>4, <1>5
    <2>4. \A k \in Compactions(i - 1) : parserLines'[k] = parserLines[k]
      <3>1. \A k \in Compactions(i - 1) : k \in 1..(i - 1)
        BY DEF Compactions, Before
      <3> QED
        BY <2>3, <3>1
    <2>5. ModelOf(i)' = ModelOf(i)
      <3> DEFINE S == Before(i, {"session", "change", "message"})
      <3>1. S' = S
        BY <1>9, <2>1
      <3>2. CurrentModel(i, 0)' = CurrentModel(i, 0)
        <4>1. CASE S = {}
          BY <3>1, <4>1 DEF CurrentModel
        <4>2. CASE S # {}
          <5>1. S \in SUBSET Nat /\ \A j \in S : j <= i /\ j \in 1..n
            <6>1. \A j \in S : j \in 1..i
              BY DEF Before
            <6>2. \A j \in 1..i : j \in Nat /\ j <= i /\ j \in 1..n
              BY <1>4, <2>1
            <6>3. \A j \in S : j \in Nat /\ j <= i /\ j \in 1..n
              BY <6>1, <6>2
            <6> QED
              BY <6>3
          <5>2. Max(S) \in S
            <6>1. i \in Nat
              BY <1>4
            <6> QED
              BY <4>2, <5>1, <6>1, MaxIs
          <5>3. parserLines'[Max(S)] = parserLines[Max(S)]
            BY <1>5, <5>1, <5>2
          <5> QED
            BY <3>1, <4>2, <5>3 DEF CurrentModel
        <4> QED
          BY <4>1, <4>2
      <3> QED
        BY <1>1, <2>1, <3>2 DEF ModelOf
    <2>6. Counts(i)' <=> Counts(i)
      <3>1. CASE parserKind = "pi"
        BY <1>1, <2>1, <2>2, <2>4, <3>1 DEF Counts, PiUsage
      <3>2. CASE parserKind = "openclaw"
        BY <1>1, <2>1, <3>2 DEF Counts
      <3>3. CASE parserKind = "otel"
        BY <1>1, <2>1, <2>3, <3>3 DEF Counts, SpanUsage
      <3>4. CASE parserKind = "copilot"
        BY <1>1, <2>1, <3>4 DEF Counts, BlockUsage
      <3> QED
        BY <1>2, <3>1, <3>2, <3>3, <3>4 DEF ParserTypeOK, ParserKinds
    <2> QED
      BY <2>5, <2>6
  <1>12. /\ DeltasFit /\ CountedFit /\ CutsFit
         /\ \A d \in deltas : d \in ParserDelta /\ d.line \in (d.from + 1)..offset
    BY DEF ParsersFit, ParserTypeOK, DeltasFit
  <1>13. \A d \in deltas : d.line \in 1..n /\ \A k \in (d.from + 1)..(d.line - 1) : k \in 1..n
    <2> SUFFICES ASSUME NEW d \in deltas PROVE d.line \in 1..n /\ \A k \in (d.from + 1)..(d.line - 1) : k \in 1..n
      OBVIOUS
    <2>1. d.from \in Nat /\ d.line \in Nat /\ d.line \in (d.from + 1)..offset
      BY <1>12 DEF ParserDelta
    <2> QED
      BY <1>4, <2>1
  <1>14. \A i \in 1..offset : i \in 1..n
    BY <1>4
  <1>15. DeltasFit'
    <2>1. parserKind = "pi" => \A d \in deltas : Counts(d.line)'
      BY <1>11, <1>12, <1>13 DEF DeltasFit
    <2>2. parserKind = "otel" => \A d \in deltas : \A k \in (d.from + 1)..(d.line - 1) :
              parserLines'[k].id = "none" \/ parserLines'[k].id # parserLines'[d.line].id
      BY <1>5, <1>12, <1>13 DEF DeltasFit
    <2> QED
      BY <1>1, <1>12, <2>1, <2>2 DEF DeltasFit
  <1>16. CountedFit'
    BY <1>1, <1>11, <1>12, <1>14 DEF CountedFit, LinesOf
  <1>17. CutsFit'
    <2>1. offset > 0 => offset \in 1..n
      BY <1>4
    <2> QED
      BY <1>1, <1>5, <1>12, <2>1 DEF CutsFit
  <1> QED
    BY <1>7, <1>8, <1>15, <1>16, <1>17 DEF ParsersFit

\* What a pass leaves when it counts what lies between the offset and its end.
LEMMA PassKeeps ==
    ASSUME ParsersFit, NEW end \in offset..Len(parserLines), NEW new,
           UNCHANGED <<parserKind, parserLines, torn>>, offset' = end, deltas' = deltas \cup new,
           cut \subseteq cut', cut' \subseteq cut \cup {end},
           \A d \in new : /\ d.from = offset /\ d.line \in (offset + 1)..end
                          /\ d = [line |-> d.line, model |-> ModelOf(d.line), from |-> offset],
           parserKind = "pi" => \A d \in new : Counts(d.line),
           parserKind = "otel" => \A d \in new : \A k \in (offset + 1)..(d.line - 1) :
               parserLines[k].id = "none" \/ parserLines[k].id # parserLines[d.line].id,
           \A i \in (offset + 1)..end : Counts(i) =>
               \/ parserKind = "copilot" /\ i - 2 \in cut
               \/ [line |-> i, model |-> ModelOf(i), from |-> offset] \in new,
           CutsFit'
    PROVE  ParsersFit'
  <1>1. parserKind' = parserKind /\ parserLines' = parserLines /\ torn' = torn
    OBVIOUS
  <1>2. ParserTypeOK /\ LogFits /\ DeltasFit /\ CountedFit
    BY DEF ParsersFit
  <1>3. Len(parserLines) \in Nat /\ offset \in Nat /\ end \in Nat /\ offset <= end /\ end <= Len(parserLines)
    BY <1>2, LinesAre DEF ParserTypeOK
  <1>4. \A i : (Counts(i)' <=> Counts(i)) /\ ModelOf(i)' = ModelOf(i)
    BY <1>1 DEF Counts, ModelOf, CurrentModel, PiUsage, SpanUsage, BlockUsage, Compactions, Before
  <1>5. \A d \in new : d \in ParserDelta
    <2> SUFFICES ASSUME NEW d \in new PROVE d \in ParserDelta
      OBVIOUS
    <2>1. d.line \in Nat /\ d.line \in 1..Len(parserLines)
      BY <1>3
    <2>2. ModelOf(d.line) \in Model \cup {Unknown}
      BY <1>2, <2>1, ModelIs
    <2>3. [line |-> d.line, model |-> ModelOf(d.line), from |-> offset] \in ParserDelta
      BY <1>3, <2>1, <2>2 DEF ParserDelta
    <2> QED
      BY <2>3
  <1>6. ParserTypeOK'
    <2>1. deltas' \subseteq ParserDelta
      BY <1>2, <1>5 DEF ParserTypeOK
    <2>2. cut' \subseteq Nat
      BY <1>2, <1>3 DEF ParserTypeOK
    <2>3. offset' \in 0..Len(parserLines')
      BY <1>1, <1>3
    <2> QED
      BY <1>1, <1>2, <2>1, <2>2, <2>3 DEF ParserTypeOK
  <1>7. LogFits'
    BY <1>1, <1>2 DEF LogFits, LastType
  <1>8. \A d \in deltas : d.from \in Nat /\ d.line \in Nat /\ d.line \in (d.from + 1)..offset
    BY <1>2 DEF ParserTypeOK, ParserDelta, DeltasFit
  <1>9. DeltasFit'
    <2>1. \A d \in deltas \cup new : d.line \in (d.from + 1)..end
      BY <1>3, <1>8
    <2>2. ASSUME NEW d \in deltas \cup new, NEW e \in deltas \cup new, d.line = e.line PROVE d = e
      <3>1. CASE d \in deltas /\ e \in deltas
        BY <1>2, <2>2, <3>1 DEF DeltasFit
      <3>2. CASE d \in new /\ e \in new
        BY <2>2, <3>2
      <3>3. CASE d \in deltas /\ e \in new
        <4>1. d.line <= offset /\ e.line > offset
          BY <1>3, <1>8, <3>3
        <4> QED
          BY <1>3, <1>8, <2>2, <3>3, <4>1
      <3>4. CASE d \in new /\ e \in deltas
        <4>1. e.line <= offset /\ d.line > offset
          BY <1>3, <1>8, <3>4
        <4> QED
          BY <1>3, <1>8, <2>2, <3>4, <4>1
      <3> QED
        BY <3>1, <3>2, <3>3, <3>4
    <2>3. parserKind = "pi" => \A d \in deltas \cup new : Counts(d.line)'
      BY <1>2, <1>4 DEF DeltasFit
    <2>4. parserKind = "otel" => \A d \in deltas \cup new : \A k \in (d.from + 1)..(d.line - 1) :
              parserLines[k].id = "none" \/ parserLines[k].id # parserLines[d.line].id
      BY <1>2 DEF DeltasFit
    <2> QED
      BY <1>1, <2>1, <2>2, <2>3, <2>4 DEF DeltasFit
  <1>10. CountedFit'
    <2> SUFFICES ASSUME NEW i \in 1..end, Counts(i)
                 PROVE  \/ parserKind = "copilot" /\ i - 2 \in cut'
                        \/ [line |-> i, model |-> ModelOf(i)] \in LinesOf(deltas')
      BY <1>1, <1>4 DEF CountedFit, LinesOf
    <2>1. CASE i \in 1..offset
      <3>1. \/ parserKind = "copilot" /\ i - 2 \in cut
            \/ [line |-> i, model |-> ModelOf(i)] \in LinesOf(deltas)
        BY <1>2, <2>1 DEF CountedFit
      <3>2. LinesOf(deltas) \subseteq LinesOf(deltas')
        BY DEF LinesOf
      <3> QED
        BY <3>1, <3>2
    <2>2. CASE i \in (offset + 1)..end
      <3>1. CASE parserKind = "copilot" /\ i - 2 \in cut
        BY <3>1
      <3>2. CASE [line |-> i, model |-> ModelOf(i), from |-> offset] \in new
        <4> DEFINE d == [line |-> i, model |-> ModelOf(i), from |-> offset]
        <4>1. d \in deltas' /\ d.line = i /\ d.model = ModelOf(i)
          BY <3>2
        <4> HIDE DEF d
        <4> QED
          BY <4>1 DEF LinesOf
      <3> QED
        BY <2>2, <3>1, <3>2
    <2> QED
      BY <1>3, <2>1, <2>2
  <1> QED
    BY <1>6, <1>7, <1>9, <1>10 DEF ParsersFit

LEMMA ParseKeeps == ASSUME ParsersFit, Parse PROVE ParsersFit'
  <1> DEFINE n == Len(parserLines)
             to == n + IF parserKind = "copilot" /\ torn # <<>> THEN 1 ELSE 0
             s == ParseCopilotCli(offset, to)
             end == IF parserKind = "copilot" THEN EndOffset(s, to) ELSE to
             new == Deltas(offset, to)
  <1>1. /\ end <= n /\ deltas' = deltas \cup new /\ offset' = end
        /\ cut' = (IF end > 0 /\ parserLines[end].type = "marker" THEN cut \cup {end} ELSE cut)
        /\ UNCHANGED <<parserKind, parserLines, torn>>
    BY DEF Parse
  <1>2. ParserTypeOK /\ LogFits /\ CutsFit
    BY DEF ParsersFit
  <1>3. n \in Nat /\ offset \in 0..n /\ offset \in Nat
    BY <1>2, LinesAre DEF ParserTypeOK
  <1>4. cut \subseteq cut' /\ cut' \subseteq cut \cup {end}
    BY <1>1
  <1>5. CASE parserKind # "copilot"
    <2>1. to = n /\ end = n
      BY <1>3, <1>5
    <2>2. n \in 0..Len(parserLines) /\ offset \in 0..n /\ end \in offset..Len(parserLines)
      BY <1>3, <2>1
    <2>3. CutsFit'
      BY <1>1, <1>5 DEF CutsFit
    <2>4. new = Deltas(offset, n)
      BY <2>1
    <2>5. /\ \A d \in Deltas(offset, n) :
                /\ d.from = offset /\ d.line \in (offset + 1)..n
                /\ d = [line |-> d.line, model |-> ModelOf(d.line), from |-> offset]
          /\ parserKind = "pi" => \A d \in Deltas(offset, n) : Counts(d.line)
          /\ parserKind = "otel" => \A d \in Deltas(offset, n) : \A k \in (offset + 1)..(d.line - 1) :
                parserLines[k].id = "none" \/ parserLines[k].id # parserLines[d.line].id
          /\ \A i \in (offset + 1)..n : Counts(i) => [line |-> i, model |-> ModelOf(i), from |-> offset] \in Deltas(offset, n)
      <3> HIDE DEF n
      <3>1. n \in 0..Len(parserLines) /\ offset \in 0..n
        BY <2>2
      <3> QED
        BY <1>2, <1>5, <3>1, PassIs
    <2> HIDE DEF n, end, new
    <2> QED
      BY <1>1, <1>4, <2>1, <2>2, <2>3, <2>4, <2>5, PassKeeps
  <1>6. CASE parserKind = "copilot"
    <2>1. to \in Nat /\ offset <= to /\ to <= n + 1 /\ (to = n \/ to = n + 1)
      BY <1>3
    <2>2. ReadFits(s, offset, to)
      <3> HIDE DEF to
      <3> QED
        BY <1>2, <1>3, <1>6, <2>1, ReadingFits
    <2>3. end = IF s.collecting /\ s.json # {} THEN s.safe ELSE to
      BY <1>6 DEF EndOffset
    <2> HIDE DEF to, s, end
    <2>4. /\ s.safe \in offset..to /\ (s.safe = offset \/ TypeAt(s.safe) \in {"plain", "close"})
          /\ \A j \in s.counted : j \in (offset + 1)..s.safe /\ TypeAt(j) = "close"
          /\ \A j \in (offset + 3)..to : j <= n /\ TypeAt(j) = "close" => j \in s.counted
          /\ to > offset + 1 /\ to <= n /\ TypeAt(to) = "open" => s.collecting /\ s.json # {}
      BY <2>2 DEF ReadFits
    <2>5. end \in offset..Len(parserLines) /\ s.safe <= end /\ end \in Nat
      BY <1>1, <1>3, <2>1, <2>3, <2>4
    <2>6. new = {[line |-> i, model |-> parserLines[i].model, from |-> offset] :
                    i \in {j \in s.counted \ {n + 1} : BlockUsage(j)}}
      BY <1>6 DEF Deltas, s, to
    <2> HIDE DEF new
    <2>7. \A i : ModelOf(i) = parserLines[i].model
      BY <1>6 DEF ModelOf
    <2>8. \A d \in new : /\ d.from = offset /\ d.line \in (offset + 1)..end
                         /\ d = [line |-> d.line, model |-> ModelOf(d.line), from |-> offset]
      <3> SUFFICES ASSUME NEW d \in new
                   PROVE  /\ d.from = offset /\ d.line \in (offset + 1)..end
                          /\ d = [line |-> d.line, model |-> ModelOf(d.line), from |-> offset]
        OBVIOUS
      <3>1. PICK i \in s.counted : d = [line |-> i, model |-> parserLines[i].model, from |-> offset]
        BY <2>6
      <3>2. i \in (offset + 1)..end
        BY <1>3, <2>1, <2>4, <2>5
      <3> QED
        BY <2>7, <3>1, <3>2
    <2>9. \A i \in 1..n : TypeAt(i) = parserLines[i].type
      BY <1>3 DEF TypeAt
    <2>10. ASSUME NEW i \in (offset + 1)..end, Counts(i)
           PROVE  i - 2 \in cut \/ [line |-> i, model |-> ModelOf(i), from |-> offset] \in new
      <3>1. i \in Nat /\ i \in 1..n /\ i <= to /\ i # n + 1
        BY <1>3, <2>1, <2>3, <2>4, <2>5
      <3>2. TypeAt(i) = "close" /\ BlockUsage(i)
        BY <1>6, <2>9, <2>10, <3>1 DEF Counts
      <3>3. i > 2 /\ TypeAt(i - 1) = "open" /\ TypeAt(i - 2) = "marker"
        <4>1. i \in 1..Len(parserLines)
          BY <3>1
        <4> QED
          BY <1>2, <1>6, <3>2, <4>1, BlocksAre
      <3>4. CASE i \in (offset + 3)..to
        <4>1. i \in s.counted
          BY <2>4, <3>1, <3>2, <3>4
        <4>2. i \in {j \in s.counted \ {n + 1} : BlockUsage(j)}
          BY <3>1, <3>2, <4>1
        <4> QED
          BY <2>6, <2>7, <4>2
      <3>5. CASE i = offset + 2
        <4>1. offset = i - 2 /\ offset > 0 /\ offset \in 1..n
          BY <1>3, <3>1, <3>3, <3>5
        <4>2. parserLines[offset].type = "marker"
          BY <2>9, <3>3, <4>1
        <4> QED
          BY <1>2, <1>6, <4>1, <4>2 DEF CutsFit
      <3>6. CASE i = offset + 1
        <4>1. offset = i - 1 /\ offset > 0 /\ offset \in 1..n /\ offset - 1 = i - 2
          BY <1>3, <3>1, <3>3, <3>6
        <4>2. parserLines[offset].type = "open"
          BY <2>9, <3>3, <4>1
        <4> QED
          BY <1>2, <1>6, <4>1, <4>2 DEF CutsFit
      <3> QED
        BY <1>3, <2>1, <3>1, <3>4, <3>5, <3>6
    <2>11. CutsFit'
      <3>1. end > 0 /\ parserLines[end].type = "marker" => end \in cut'
        BY <1>1
      <3>2. ASSUME end > 0, parserLines[end].type = "open" PROVE end - 1 \in cut
        <4>1. end \in 1..n /\ TypeAt(end) = "open"
          BY <1>1, <2>5, <2>9, <3>2
        <4>2. CASE end = offset
          BY <1>2, <1>6, <3>2, <4>2 DEF CutsFit
        <4>3. CASE end # offset
          <5>1. end # s.safe
            BY <2>4, <4>1, <4>3
          <5>2. end = to /\ ~(s.collecting /\ s.json # {})
            BY <2>3, <5>1
          <5>3. ~(to > offset + 1)
            BY <2>4, <4>1, <5>2
          <5>4. end = offset + 1
            BY <1>3, <2>1, <2>5, <4>3, <5>2, <5>3
          <5>5. end > 1 /\ TypeAt(end - 1) = "marker"
            <6>1. end \in 1..Len(parserLines)
              BY <4>1
            <6> QED
              BY <1>2, <1>6, <4>1, <6>1, BlocksAre
          <5>6. end - 1 = offset /\ offset > 0 /\ offset \in 1..n
            BY <1>3, <5>4, <5>5
          <5>7. parserLines[offset].type = "marker"
            BY <2>9, <5>5, <5>6
          <5> QED
            BY <1>2, <1>6, <5>6, <5>7 DEF CutsFit
        <4> QED
          BY <4>2, <4>3
      <3> QED
        BY <1>1, <1>4, <3>1, <3>2 DEF CutsFit
    <2>12. /\ parserKind = "pi" => \A d \in new : Counts(d.line)
           /\ parserKind = "otel" => \A d \in new : \A k \in (offset + 1)..(d.line - 1) :
                 parserLines[k].id = "none" \/ parserLines[k].id # parserLines[d.line].id
           /\ \A i \in (offset + 1)..end : Counts(i) =>
                 \/ parserKind = "copilot" /\ i - 2 \in cut
                 \/ [line |-> i, model |-> ModelOf(i), from |-> offset] \in new
      BY <1>6, <2>10
    <2> QED
      BY <1>1, <1>4, <2>5, <2>8, <2>11, <2>12, PassKeeps
  <1> QED
    BY <1>5, <1>6

LEMMA ParsersStep == ASSUME ParsersFit, [ParsersNext]_parserVars PROVE ParsersFit'
  <1>1. CASE UNCHANGED parserVars
    <2>1. UNCHANGED <<parserKind, parserLines, torn, offset, deltas, cut>>
      BY <1>1 DEF parserVars
    <2>2. \A i : (Counts(i)' <=> Counts(i)) /\ ModelOf(i)' = ModelOf(i)
      BY <2>1 DEF Counts, ModelOf, CurrentModel, PiUsage, SpanUsage, BlockUsage, Compactions, Before
    <2>3. ParserTypeOK' /\ LogFits'
      BY <2>1 DEF ParsersFit, ParserTypeOK, LogFits, LastType
    <2>4. DeltasFit' /\ CountedFit' /\ CutsFit'
      BY <2>1, <2>2 DEF ParsersFit, DeltasFit, CountedFit, CutsFit, LinesOf
    <2> QED
      BY <2>3, <2>4 DEF ParsersFit
  <1>2. CASE ParsersNext
    BY <1>2, PartKeeps, RestKeeps, ParseKeeps DEF ParsersNext
  <1> QED
    BY <1>1, <1>2

\* What one pass over a process log counts is whole blocks.
LEMMA WholeIs ==
    ASSUME ParsersFit, NEW l \in Whole
    PROVE  \E i \in 1..offset : Counts(i) /\ l = [line |-> i, model |-> ModelOf(i)]
  <1>1. ParserTypeOK /\ LogFits
    BY DEF ParsersFit
  <1>2. Len(parserLines) \in Nat /\ offset \in Nat /\ offset \in 0..Len(parserLines) /\ 0 \in 0..offset
    BY <1>1, LinesAre DEF ParserTypeOK
  <1>3. PICK d \in Deltas(0, offset) : l = [line |-> d.line, model |-> d.model]
    BY DEF Whole, LinesOf
  <1>4. CASE parserKind # "copilot"
    <2>1. d.line \in (0 + 1)..offset /\ d = [line |-> d.line, model |-> ModelOf(d.line), from |-> 0] /\ Counts(d.line)
      BY <1>1, <1>2, <1>4, PassIs
    <2>2. d.line \in 1..offset /\ d.model = ModelOf(d.line)
      BY <1>2, <2>1
    <2> QED
      BY <1>3, <2>1, <2>2
  <1>5. CASE parserKind = "copilot"
    <2> DEFINE s == ParseCopilotCli(0, offset)
    <2>1. PICK i \in s.counted : BlockUsage(i) /\ d = [line |-> i, model |-> parserLines[i].model, from |-> 0]
      BY <1>5 DEF Deltas
    <2>2. ReadFits(s, 0, offset)
      BY <1>1, <1>2, <1>5, ReadingFits
    <2> HIDE DEF s
    <2>3. s.safe \in 0..offset /\ i \in (0 + 1)..s.safe /\ TypeAt(i) = "close"
      BY <2>2 DEF ReadFits
    <2>4. i \in 1..offset /\ i \in 1..Len(parserLines)
      BY <1>2, <2>3
    <2>5. parserLines[i].type = "close" /\ Counts(i) /\ ModelOf(i) = parserLines[i].model
      BY <1>1, <1>5, <2>1, <2>3, <2>4, BlocksAre DEF Counts, ModelOf
    <2> QED
      BY <1>3, <2>1, <2>4, <2>5
  <1> QED
    BY <1>4, <1>5

LEMMA ParsersFollow == ParsersFit => NothingPassedOver /\ NoLineTwice
  <1> SUFFICES ASSUME ParsersFit PROVE NothingPassedOver /\ NoLineTwice
    OBVIOUS
  <1>1. ParserTypeOK /\ LogFits /\ DeltasFit /\ CountedFit
    BY DEF ParsersFit
  <1>2. NothingPassedOver
    <2> SUFFICES ASSUME NEW l \in Whole, ~AtCut(l) PROVE l \in LinesOf(deltas)
      BY DEF NothingPassedOver
    <2>1. PICK i \in 1..offset : Counts(i) /\ l = [line |-> i, model |-> ModelOf(i)]
      BY WholeIs
    <2>2. i - 2 \notin cut
      BY <2>1 DEF AtCut
    <2> QED
      BY <1>1, <2>1, <2>2 DEF CountedFit
  <1>3. Len(parserLines) \in Nat /\ DOMAIN parserLines = 1..Len(parserLines) /\ offset \in 0..Len(parserLines)
    BY <1>1, LinesAre DEF ParserTypeOK
  <1>4. \A d \in deltas : /\ d.from \in Nat /\ d.line \in Nat /\ d.line \in (d.from + 1)..offset
                          /\ d.line \in 1..Len(parserLines) /\ LineFits(parserKind, parserLines[d.line], IF d.line = 1 THEN "plain" ELSE parserLines[d.line - 1].type)
    <2> SUFFICES ASSUME NEW d \in deltas
                 PROVE  /\ d.from \in Nat /\ d.line \in Nat /\ d.line \in (d.from + 1)..offset
                        /\ d.line \in 1..Len(parserLines)
                        /\ LineFits(parserKind, parserLines[d.line], IF d.line = 1 THEN "plain" ELSE parserLines[d.line - 1].type)
      OBVIOUS
    <2>1. d.from \in Nat /\ d.line \in Nat /\ d.line \in (d.from + 1)..offset
      BY <1>1 DEF ParserTypeOK, ParserDelta, DeltasFit
    <2>2. d.line \in 1..Len(parserLines)
      BY <1>3, <2>1
    <2> QED
      BY <1>1, <1>3, <2>1, <2>2 DEF LogFits
  <1>5. ASSUME NEW d \in deltas, NEW e \in deltas, d # e,
               parserKind = "pi" \/ d.from = e.from, parserLines[d.line].id # "none"
        PROVE  parserLines[d.line].id # parserLines[e.line].id
    <2>1. d.line # e.line
      BY <1>1, <1>5 DEF DeltasFit
    <2>2. CASE parserKind \in {"openclaw", "copilot"}
      BY <1>4, <1>5, <2>2 DEF LineFits
    <2>3. CASE parserKind = "otel"
      <3>1. \/ d.line \in (e.from + 1)..(e.line - 1)
            \/ e.line \in (d.from + 1)..(d.line - 1)
        BY <1>4, <1>5, <2>1, <2>3
      <3> QED
        BY <1>1, <1>5, <2>3, <3>1 DEF DeltasFit
    <2>4. CASE parserKind = "pi"
      <3>1. Counts(d.line) /\ Counts(e.line)
        BY <1>1, <2>4 DEF DeltasFit
      <3>2. /\ d.line \in Compactions(d.line)
            /\ \A k \in Compactions(d.line - 1) : parserLines[k].id # parserLines[d.line].id
        BY <1>4, <1>5, <2>4, <3>1 DEF Counts, LineFits
      <3>3. CASE parserLines[e.line].type = "message"
        BY <1>4, <1>5, <2>4, <3>3 DEF LineFits
      <3>4. CASE parserLines[e.line].type # "message"
        <4>1. /\ e.line \in Compactions(e.line)
              /\ \A k \in Compactions(e.line - 1) : parserLines[k].id # parserLines[e.line].id
          BY <2>4, <3>1, <3>4 DEF Counts
        <4>2. \A f, g \in deltas : f.line < g.line /\ f.line \in Compactions(f.line) => f.line \in Compactions(g.line - 1)
          <5> SUFFICES ASSUME NEW f \in deltas, NEW g \in deltas, f.line < g.line, f.line \in Compactions(f.line)
                       PROVE  f.line \in Compactions(g.line - 1)
            OBVIOUS
          <5>1. g.line - 1 \in 0..Len(parserLines) /\ f.line \in 1..(g.line - 1)
            BY <1>3, <1>4
          <5> QED
            BY <1>1, <5>1, CompactionsAre
        <4>3. d.line < e.line \/ e.line < d.line
          BY <1>4, <2>1
        <4> QED
          BY <3>2, <4>1, <4>2, <4>3
      <3> QED
        BY <3>3, <3>4
    <2> QED
      BY <1>1, <2>2, <2>3, <2>4 DEF ParserTypeOK, ParserKinds
  <1>6. NoLineTwice
    BY <1>1, <1>5 DEF NoLineTwice, DeltasFit
  <1> QED
    BY <1>2, <1>6

-----------------------------------------------------------------------------
(* Admission.                                                              *)

\* A later moment is in no earlier bucket.
LEMMA BucketGrows ==
    ASSUME Window \in Nat \ {0}, NEW t \in Nat
    PROVE  Bucket(t) \in Nat /\ Bucket(t) <= Bucket(t + 1)
  <1>1. Bucket(t) \in Nat
    BY DEF Bucket
  <1>2. Bucket(t) <= Bucket(t + 1)
    BY DEF Bucket
  <1> QED
    BY <1>1, <1>2

\* When the delay of a worker is over, so is its bucket.
LEMMA BucketOver ==
    ASSUME Window \in Nat \ {0}, NEW t \in Nat, NEW b \in Nat, t >= NotBefore(b)
    PROVE  b < Bucket(t)
  BY DEF Bucket, NotBefore

LEMMA AdmissionStarts ==
    ASSUME Window \in Nat \ {0}, AdmissionInit
    PROVE  AdmissionFits
  <1>1. Bucket(0) \in Nat /\ admissionNow = 0
    BY BucketGrows DEF AdmissionInit
  <1>2. AdmissionTypeOK
    BY DEF AdmissionInit, AdmissionTypeOK, NewHandler, NoWorker, NoBucket
  <1>3. \A h \in Handler : PhaseFits(h) /\ WorkerFits(h)
    BY <1>1 DEF AdmissionInit, PhaseFits, WorkerFits, NewHandler, NoWorker, NoBucket
  <1>4. GatesHeld /\ GatesMade /\ OneChildEach /\ LosersScanned
    BY DEF AdmissionInit, GatesHeld, GatesMade, OneChildEach, LosersScanned, Holds, NewHandler,
           NoWorker, NoBucket
  <1>5. LoopFits
    <2>1. Parents = {} /\ Forwarded = {} /\ calling = {}
      BY DEF AdmissionInit, Parents, Forwarded, NewHandler
    <2> QED
      BY <2>1, FS_EmptySet DEF LoopFits
  <1> QED
    BY <1>2, <1>3, <1>4, <1>5 DEF AdmissionFits

\* The steps that leave handlers and calls alone leave the count of the loop.
LEMMA LoopUntouched ==
    ASSUME LoopFits, UNCHANGED <<handler, calling>>
    PROVE  LoopFits'
  <1>1. Parents' = Parents /\ Forwarded' = Forwarded /\ calling' = calling
    BY DEF Parents, Forwarded
  <1> QED
    BY <1>1 DEF LoopFits

LEMMA TickFits ==
    ASSUME Window \in Nat \ {0}, AdmissionFits, Tick
    PROVE  AdmissionFits'
  <1> USE DEF AdmissionFits, Tick
  <1>0. admissionNow \in Nat
    BY DEF AdmissionTypeOK
  <1>1. /\ Bucket(admissionNow) \in Nat /\ Bucket(admissionNow') \in Nat /\ Bucket(admissionNow) <= Bucket(admissionNow')
        /\ admissionNow' = admissionNow + 1
    BY <1>0, BucketGrows
  <1>2. AdmissionTypeOK'
    BY DEF AdmissionTypeOK
  <1>3. ASSUME NEW h \in Handler PROVE PhaseFits(h)' /\ WorkerFits(h)'
    <2>1. handler[h].bucket \in Int /\ worker[h].bucket \in Int
      BY DEF AdmissionTypeOK
    <2>2. \A g \in worker[h].seen : g[2] \in Int
      BY DEF AdmissionTypeOK
    <2>3. PhaseFits(h)'
      BY <1>1, <2>1 DEF PhaseFits
    <2>4. WorkerFits(h)'
      BY <1>1, <2>1, <2>2 DEF WorkerFits, Grace
    <2> QED
      BY <2>3, <2>4
  <1>4. ASSUME NEW h \in Handler, InTime(h)' PROVE InTime(h)
    <2>1. handler[h].bucket \in Int /\ handler[h].bucket <= Bucket(admissionNow)
      BY <1>1 DEF PhaseFits
    <2>2. handler[h].bucket = Bucket(admissionNow')
      BY <1>4 DEF InTime
    <2> QED
      BY <1>1, <2>1, <2>2 DEF InTime
  <1>5. GatesHeld'
    BY <1>4 DEF GatesHeld, Holds, GateKind
  <1>6. GatesMade' /\ OneChildEach' /\ LosersScanned'
    BY DEF GatesMade, Created, OneChildEach, LosersScanned
  <1>7. LoopFits'
    BY LoopUntouched
  <1> QED
    BY <1>2, <1>3, <1>5, <1>6, <1>7

LEMMA FireFits ==
    ASSUME Window \in Nat \ {0}, AdmissionFits, NEW h \in Handler, Fire(h)
    PROVE  AdmissionFits'
  <1> USE DEF AdmissionFits
  <1>0. UNCHANGED <<admissionNow, gates, worker, calling, scanned, kills>> /\ Bucket(admissionNow') = Bucket(admissionNow)
    BY DEF Fire, Bucket
  <1>1. PICK codex \in BOOLEAN : handler' = [handler EXCEPT ![h].codex = codex]
    BY DEF Fire
  <1>2. hpc[h] = "idle" /\ hpc' = [hpc EXCEPT ![h] = "sample"]
    BY DEF Fire, HandlerStep
  <1>3. AdmissionTypeOK'
    BY <1>0, <1>1, <1>2 DEF AdmissionTypeOK
  <1>4. \A g \in Handler :
           /\ hpc'[g] = IF g = h THEN "sample" ELSE hpc[g]
           /\ handler'[g].chain = handler[g].chain /\ handler'[g].bucket = handler[g].bucket
           /\ handler'[g].forwarded = handler[g].forwarded
           /\ handler'[g].parent = handler[g].parent /\ handler'[g].gate = handler[g].gate
    BY <1>1, <1>2 DEF AdmissionTypeOK
  <1>5. \A g \in Handler : PhaseFits(g)' /\ WorkerFits(g)'
    <2> TAKE g \in Handler
    <2>1. PhaseFits(g)'
      BY <1>0, <1>2, <1>4 DEF PhaseFits
    <2>2. WorkerFits(g)'
      BY <1>0, <1>4 DEF WorkerFits
    <2> QED
      BY <2>1, <2>2
  <1>6. \A g \in Handler : (InTime(g)' <=> InTime(g)) /\ \A kind \in GateKind : Holds(kind, g)' <=> Holds(kind, g)
    BY <1>0, <1>2, <1>4 DEF InTime, Holds
  <1>7. GatesHeld'
    BY <1>0, <1>4, <1>6 DEF GatesHeld
  <1>8. \A g \in Handler, b \in Int : Created(g, b)' <=> Created(g, b)
    BY <1>2, <1>4 DEF Created
  <1>9. GatesMade'
    BY <1>0, <1>4, <1>8 DEF GatesMade, AdmissionTypeOK
  <1>10. OneChildEach' /\ LosersScanned'
    BY <1>0, <1>4 DEF OneChildEach, LosersScanned
  <1>11. LoopFits'
    BY <1>0, <1>4 DEF LoopFits, Parents, Forwarded
  <1> QED
    BY <1>3, <1>5, <1>7, <1>9, <1>10, <1>11

LEMMA CallBackFits ==
    ASSUME Window \in Nat \ {0}, AdmissionFits, NEW f \in Handler, NEW h \in Handler,
           CallBack(f, h)
    PROVE  AdmissionFits'
  <1> USE DEF AdmissionFits
  <1>0. /\ UNCHANGED <<admissionNow, gates, worker, scanned, kills>> /\ Bucket(admissionNow') = Bucket(admissionNow)
        /\ f \in calling /\ calling' = calling \ {f}
    BY DEF CallBack, Bucket
  <1>1. PICK keeps \in BOOLEAN, to \in {"done", "sample"} :
           /\ hpc[h] = "idle" /\ hpc' = [hpc EXCEPT ![h] = to]
           /\ handler' = [handler EXCEPT ![h] = [@ EXCEPT !.codex = TRUE, !.parent = TRUE,
                                                          !.chain = keeps]]
           /\ keeps => to = "done"
           /\ ~keeps => to = "sample"
    BY DEF CallBack, HandlerStep, Guard
  <1>2. [handler[h] EXCEPT !.codex = TRUE, !.parent = TRUE, !.chain = keeps] \in
          [codex : BOOLEAN, chain : BOOLEAN, bucket : Int, forwarded : BOOLEAN,
           parent : BOOLEAN, gate : {"none", "loser", "owner", "expired", "error"}]
    <2>1. handler[h] \in
            [codex : BOOLEAN, chain : BOOLEAN, bucket : Int, forwarded : BOOLEAN,
             parent : BOOLEAN, gate : {"none", "loser", "owner", "expired", "error"}]
      BY DEF AdmissionTypeOK
    <2> HIDE DEF AdmissionFits
    <2> QED
      BY <2>1
  <1>3. AdmissionTypeOK'
    BY <1>0, <1>1, <1>2 DEF AdmissionTypeOK
  <1>4. \A g \in Handler :
           /\ g # h => hpc'[g] = hpc[g] /\ handler'[g] = handler[g]
           /\ g = h => hpc'[g] = to /\ handler'[g].parent = TRUE /\ handler'[g].chain = keeps
           /\ handler'[g].bucket = handler[g].bucket
           /\ handler'[g].forwarded = handler[g].forwarded
           /\ handler'[g].gate = handler[g].gate
    BY <1>1 DEF AdmissionTypeOK
  <1>5. \A g \in Handler : PhaseFits(g)' /\ WorkerFits(g)'
    <2> TAKE g \in Handler
    <2>1. CASE g = h
      <3>1. PhaseFits(h)
        OBVIOUS
      <3> QED
        BY <1>0, <1>1, <1>4, <2>1, <3>1 DEF PhaseFits, WorkerFits
    <2>2. CASE g # h
      BY <1>0, <1>4, <2>2 DEF PhaseFits, WorkerFits
    <2> QED
      BY <2>1, <2>2
  <1>6. \A g \in Handler :
           /\ InTime(g)' <=> InTime(g)
           /\ \A kind \in GateKind : Holds(kind, g)' <=> Holds(kind, g)
    BY <1>0, <1>1, <1>4 DEF InTime, Holds
  <1>7. GatesHeld'
    BY <1>0, <1>4, <1>6 DEF GatesHeld
  <1>8. \A g \in Handler, b \in Int : Created(g, b)' <=> Created(g, b)
    BY <1>1, <1>4 DEF Created
  <1>9. GatesMade'
    BY <1>0, <1>4, <1>8 DEF GatesMade, AdmissionTypeOK
  <1>10. OneChildEach' /\ LosersScanned'
    BY <1>0, <1>4 DEF OneChildEach, LosersScanned
  <1>11. LoopFits'
    <2>1. Parents' = Parents \cup {h} /\ h \notin Parents /\ Forwarded' = Forwarded
      BY <1>1, <1>4 DEF Parents, Forwarded, PhaseFits
    <2>2. /\ IsFiniteSet(Parents') /\ Cardinality(Parents') = Cardinality(Parents) + 1
          /\ IsFiniteSet(calling') /\ Cardinality(calling') = Cardinality(calling) - 1
      BY <1>0, <2>1, FS_AddElement, FS_RemoveElement DEF LoopFits
    <2>3. /\ Cardinality(Parents) \in Nat /\ Cardinality(calling) \in Nat
          /\ Cardinality(Forwarded) \in Nat
      BY FS_CardinalityType DEF LoopFits
    <2> QED
      BY <1>0, <2>1, <2>2, <2>3 DEF LoopFits
  <1> QED
    BY <1>3, <1>5, <1>7, <1>9, <1>10, <1>11

LEMMA SampleFits ==
    ASSUME Window \in Nat \ {0}, AdmissionFits, NEW h \in Handler, Sample(h)
    PROVE  AdmissionFits'
  <1> USE DEF AdmissionFits
  <1>0. /\ UNCHANGED <<admissionNow, gates, worker, calling, scanned, kills>>
        /\ Bucket(admissionNow') = Bucket(admissionNow) /\ Bucket(admissionNow) \in Nat
    BY BucketGrows DEF Sample, Bucket, AdmissionTypeOK
  <1>1. handler' = [handler EXCEPT ![h].bucket = Bucket(admissionNow)]
    BY DEF Sample
  <1>2. hpc[h] = "sample" /\ hpc' = [hpc EXCEPT ![h] = "sync"]
    BY DEF Sample, HandlerStep
  <1>3. AdmissionTypeOK'
    BY <1>0, <1>1, <1>2 DEF AdmissionTypeOK
  <1>4. \A g \in Handler :
           /\ hpc'[g] = IF g = h THEN "sync" ELSE hpc[g]
           /\ handler'[g].chain = handler[g].chain
           /\ handler'[g].bucket = IF g = h THEN Bucket(admissionNow) ELSE handler[g].bucket
           /\ handler'[g].forwarded = handler[g].forwarded
           /\ handler'[g].parent = handler[g].parent /\ handler'[g].gate = handler[g].gate
    BY <1>1, <1>2 DEF AdmissionTypeOK
  <1>a. /\ handler[h].gate = "none" /\ worker[h].at = "none" /\ ~handler[h].forwarded
        /\ ~handler[h].chain
    BY <1>2 DEF PhaseFits, WorkerFits
  <1>5. \A g \in Handler : PhaseFits(g)' /\ WorkerFits(g)'
    <2> TAKE g \in Handler
    <2>1. PhaseFits(g)'
      BY <1>0, <1>2, <1>4, <1>a DEF PhaseFits, NoBucket
    <2>2. WorkerFits(g)'
      BY <1>0, <1>4, <1>a DEF WorkerFits
    <2> QED
      BY <2>1, <2>2
  <1>6. \A g \in Handler, kind \in GateKind :
           /\ Holds(kind, g)' <=> Holds(kind, g)
           /\ Holds(kind, g) => g # h /\ (InTime(g)' <=> InTime(g))
    BY <1>0, <1>2, <1>4, <1>a DEF InTime, Holds
  <1>7. GatesHeld'
    BY <1>0, <1>4, <1>6 DEF GatesHeld
  <1>8. \A g \in Handler, b \in Int : Created(g, b) => Created(g, b)'
    BY <1>2, <1>4, <1>a DEF Created
  <1>9. GatesMade'
    BY <1>0, <1>4, <1>8, <1>a DEF GatesMade, AdmissionTypeOK
  <1>10. OneChildEach'
    BY <1>0, <1>4, <1>a DEF OneChildEach
  <1>11. LosersScanned'
    <2> SUFFICES ASSUME NEW g \in Handler, NEW k \in Handler, worker[g].at = "done",
                        handler'[k].bucket = worker[g].bucket
                 PROVE  k \in scanned
      BY <1>0 DEF LosersScanned
    <2>1. worker[g].bucket < Bucket(admissionNow) /\ worker[g].bucket \in Int
      BY DEF WorkerFits, AdmissionTypeOK
    <2>2. k # h
      BY <1>0, <1>4, <2>1
    <2> QED
      BY <1>4, <2>2 DEF LosersScanned
  <1>12. LoopFits'
    BY <1>0, <1>4 DEF LoopFits, Parents, Forwarded
  <1> QED
    BY <1>3, <1>5, <1>7, <1>9, <1>10, <1>11, <1>12

LEMMA SpawnWorkerFits ==
    ASSUME Window \in Nat \ {0}, AdmissionFits, NEW h \in Handler, SpawnWorker(h)
    PROVE  AdmissionFits'
  <1>t. AdmissionTypeOK
    BY DEF AdmissionFits
  <1>0. /\ UNCHANGED <<admissionNow, gates, calling, scanned>> /\ Bucket(admissionNow') = Bucket(admissionNow)
        /\ Bucket(admissionNow) \in Nat
    BY <1>t, BucketGrows DEF SpawnWorker, Bucket, AdmissionTypeOK
  <1>1. PICK gate \in {"owner", "error", "expired"} :
           /\ handler' = [handler EXCEPT ![h].gate = gate]
           /\ gate = "owner" => InTime(h) /\ worker' = [worker EXCEPT ![h] =
                        [@ EXCEPT !.at = "wait", !.bucket = handler[h].bucket]]
           /\ gate # "owner" => worker' = worker
    BY DEF SpawnWorker
  <1>2. /\ hpc[h] = "recheckSync" /\ AfterSync(h) \in {"forward", "done"}
        /\ hpc' = [hpc EXCEPT ![h] = AfterSync(h)]
    BY DEF SpawnWorker, HandlerStep, AfterSync
  <1>b. kills' \in Nat
    BY <1>t DEF SpawnWorker, AdmissionFault, AdmissionTypeOK
  <1>d. [worker[h] EXCEPT !.at = "wait", !.bucket = handler[h].bucket] \in
          [at : {"none", "wait", "clean", "done", "killed"}, bucket : Int, cutoff : Int,
           seen : SUBSET (GateKind \X Nat)]
    BY <1>t DEF AdmissionTypeOK
  <1>3. AdmissionTypeOK'
    <2>1. worker' \in [Handler -> [at : {"none", "wait", "clean", "done", "killed"},
                                  bucket : Int, cutoff : Int, seen : SUBSET (GateKind \X Nat)]]
      <3>1. CASE gate = "owner"
        BY <1>t, <1>1, <1>d, <3>1 DEF AdmissionTypeOK
      <3>2. CASE gate # "owner"
        BY <1>t, <1>1, <3>2 DEF AdmissionTypeOK
      <3> QED
        BY <3>1, <3>2
    <2>2. hpc' \in [Handler -> {"idle", "sample", "sync", "recheckSync", "forward",
                              "recheckForward", "done"}]
      BY <1>t, <1>2 DEF AdmissionTypeOK
    <2>3. handler' \in [Handler -> [codex : BOOLEAN, chain : BOOLEAN, bucket : Int,
                                   forwarded : BOOLEAN, parent : BOOLEAN,
                                   gate : {"none", "loser", "owner", "expired", "error"}]]
      BY <1>t, <1>1 DEF AdmissionTypeOK
    <2> QED
      BY <1>t, <1>0, <1>b, <2>1, <2>2, <2>3 DEF AdmissionTypeOK
  <1>4. \A g \in Handler :
           /\ hpc'[g] = IF g = h THEN AfterSync(h) ELSE hpc[g]
           /\ handler'[g].chain = handler[g].chain
           /\ handler'[g].bucket = handler[g].bucket
           /\ handler'[g].forwarded = handler[g].forwarded
           /\ handler'[g].parent = handler[g].parent
           /\ handler'[g].gate = IF g = h THEN gate ELSE handler[g].gate
    BY <1>t, <1>1, <1>2 DEF AdmissionTypeOK
  <1>c. \A g \in Handler :
           /\ g # h \/ gate # "owner" => worker'[g] = worker[g]
           /\ g = h /\ gate = "owner" => worker'[g].at = "wait" /\ worker'[g].bucket = handler[h].bucket
           /\ worker'[g].seen = worker[g].seen
    <2>1. CASE gate = "owner"
      <3>1. worker \in [Handler -> [at : {"none", "wait", "clean", "done", "killed"},
                                  bucket : Int, cutoff : Int, seen : SUBSET (GateKind \X Nat)]]
        BY <1>t DEF AdmissionTypeOK
      <3>2. worker' = [worker EXCEPT ![h] =
                         [worker[h] EXCEPT !.at = "wait", !.bucket = handler[h].bucket]]
        BY <1>1, <2>1
      <3>3. /\ worker'[h] = [worker[h] EXCEPT !.at = "wait", !.bucket = handler[h].bucket]
            /\ \A g \in Handler : g # h => worker'[g] = worker[g]
        BY <3>1, <3>2
      <3>4. /\ worker'[h].at = "wait" /\ worker'[h].bucket = handler[h].bucket
            /\ worker'[h].seen = worker[h].seen
        BY <3>1, <3>3
      <3> QED
        BY <2>1, <3>3, <3>4
    <2>2. CASE gate # "owner"
      BY <1>t, <1>1, <2>2 DEF AdmissionTypeOK
    <2> QED
      BY <2>1, <2>2
  <1> USE DEF AdmissionFits
  <1>a. /\ handler[h].gate = "none" /\ worker[h].at = "none" /\ ~handler[h].forwarded
        /\ ~handler[h].chain
    BY <1>2 DEF PhaseFits, WorkerFits
  <1>5. \A g \in Handler : PhaseFits(g)' /\ WorkerFits(g)'
    <2> TAKE g \in Handler
    <2>1. PhaseFits(g)'
      BY <1>0, <1>2, <1>4, <1>a DEF PhaseFits, NoBucket
    <2>2. WorkerFits(g)'
      BY <1>0, <1>4, <1>a, <1>c DEF WorkerFits
    <2> QED
      BY <2>1, <2>2
  <1>6. \A g \in Handler, kind \in GateKind :
           /\ InTime(g)' <=> InTime(g)
           /\ Holds(kind, g)' => Holds(kind, g)
    BY <1>0, <1>2, <1>4, <1>c DEF InTime, Holds
  <1>7. GatesHeld'
    BY <1>0, <1>4, <1>6 DEF GatesHeld
  <1>8. \A g \in Handler, b \in Int : Created(g, b) => Created(g, b)'
    BY <1>2, <1>4, <1>a DEF Created
  <1>9. GatesMade'
    BY <1>0, <1>4, <1>8, <1>a DEF GatesMade, AdmissionTypeOK
  <1>10. OneChildEach'
    <2>1. CASE gate # "owner"
      BY <1>4, <1>c, <2>1 DEF OneChildEach
    <2>2. CASE gate = "owner"
      <3>1. Holds("sync", h) /\ InTime(h)
        BY <1>1, <1>2, <2>2 DEF Holds
      <3>2. \A g \in Handler : /\ g # h /\ handler[g].bucket = handler[h].bucket
                              => worker[g].at = "none"
        BY <3>1 DEF GatesHeld, GateKind, Holds, InTime
      <3> QED
        BY <1>4, <1>c, <3>2 DEF OneChildEach
    <2> QED
      BY <2>1, <2>2
  <1>11. LosersScanned'
    BY <1>0, <1>4, <1>c, <1>a DEF LosersScanned
  <1>12. LoopFits'
    BY <1>0, <1>4 DEF LoopFits, Parents, Forwarded
  <1> QED
    BY <1>3, <1>5, <1>7, <1>9, <1>10, <1>11, <1>12

\* tryAcquire created the file.  If the bucket still lasts, no other handler
\* holds this gate, since its file would have been there.
LEMMA GateCreated ==
    ASSUME Window \in Nat \ {0}, AdmissionFits, NEW h \in Handler, hpc[h] \in GateKind,
           Gate(h) \notin gates, gates' = gates \cup {Gate(h)},
           hpc' = [hpc EXCEPT ![h] = IF @ = "sync" THEN "recheckSync" ELSE "recheckForward"],
           UNCHANGED <<admissionNow, handler, worker, calling, scanned, kills>>
    PROVE  AdmissionFits'
  <1> DEFINE to == IF hpc[h] = "sync" THEN "recheckSync" ELSE "recheckForward"
             b == handler[h].bucket
  <1>t. AdmissionTypeOK
    BY DEF AdmissionFits
  <1>0. Bucket(admissionNow') = Bucket(admissionNow) /\ Bucket(admissionNow) \in Nat
    BY <1>t, BucketGrows DEF Bucket, AdmissionTypeOK
  <1>1. \A g \in Handler : hpc'[g] = IF g = h THEN to ELSE hpc[g]
    BY <1>t DEF AdmissionTypeOK
  <1>2. /\ hpc[h] = "sync" => to = "recheckSync"
        /\ hpc[h] = "forward" => to = "recheckForward"
        /\ hpc[h] \in {"sync", "forward"}
    BY DEF GateKind
  <1>3. b \in Nat /\ Gate(h) = <<hpc[h], b>> /\ ~handler[h].forwarded
        /\ (hpc[h] = "sync" => handler[h].gate = "none" /\ worker[h].at = "none")
    BY <1>0, <1>2 DEF AdmissionFits, PhaseFits, WorkerFits, NoBucket, Gate
  <1> HIDE DEF to, b
  <1>4. AdmissionTypeOK'
    <2>1. gates' \subseteq GateKind \X Nat
      BY <1>t, <1>3 DEF AdmissionTypeOK
    <2> QED
      BY <1>t, <1>2, <2>1 DEF AdmissionTypeOK, to
  <1>5. \A g \in Handler : PhaseFits(g)' /\ WorkerFits(g)'
    <2> TAKE g \in Handler
    <2>0. PhaseFits(g) /\ WorkerFits(g)
      BY DEF AdmissionFits
    <2>1. PhaseFits(g)'
      BY <1>0, <1>1, <1>2, <2>0 DEF PhaseFits
    <2>2. WorkerFits(g)'
      BY <1>0, <2>0 DEF WorkerFits
    <2> QED
      BY <2>1, <2>2
  <1>6. \A g \in Handler, kind \in GateKind :
           /\ InTime(g)' <=> InTime(g)
           /\ Holds(kind, g)' <=> (Holds(kind, g) \/ (g = h /\ kind = hpc[h]))
    BY <1>0, <1>1, <1>2, <1>3 DEF InTime, Holds, GateKind
  <1>7. GatesHeld'
    <2> SUFFICES ASSUME NEW kind \in GateKind, NEW f \in Handler, Holds(kind, f)', InTime(f)'
                 PROVE  /\ <<kind, handler[f].bucket>> \in gates'
                        /\ \A g \in Handler : Holds(kind, g)' /\ InTime(g)' => f = g
      BY DEF GatesHeld
    <2>1. \A g \in Handler : Holds(kind, g) /\ InTime(g) =>
             /\ <<kind, handler[g].bucket>> \in gates
             /\ \A k \in Handler : Holds(kind, k) /\ InTime(k) => g = k
      BY DEF AdmissionFits, GatesHeld
    <2>2. InTime(f) /\ \A g \in Handler : InTime(g) => handler[g].bucket = handler[f].bucket
      BY <1>6 DEF InTime
    <2>3. CASE kind # hpc[h]
      BY <1>6, <2>1, <2>2, <2>3
    <2>4. CASE kind = hpc[h]
      <3>1. ASSUME InTime(h), NEW g \in Handler, Holds(kind, g), InTime(g) PROVE FALSE
        <4>1. <<kind, handler[g].bucket>> = Gate(h)
          BY <1>3, <2>2, <2>4, <3>1 DEF b
        <4> QED
          BY <2>1, <3>1, <4>1
      <3>2. CASE f = h
        BY <1>3, <1>6, <2>2, <2>4, <3>1, <3>2 DEF b
      <3>3. CASE f # h
        BY <1>6, <2>1, <2>2, <2>4, <3>1, <3>3
      <3> QED
        BY <3>2, <3>3
    <2> QED
      BY <2>3, <2>4
  <1>8. \A g \in Handler, c \in Int : Created(g, c) => Created(g, c)'
    BY <1>1, <1>2, <1>3 DEF Created
  <1>9. GatesMade'
    <2>1. ASSUME NEW c \in Nat, <<"sync", c>> \in gates'
          PROVE  \E g \in Handler : Created(g, c)'
      <3>1. CASE <<"sync", c>> \in gates
        BY <1>8, <3>1 DEF AdmissionFits, GatesMade
      <3>2. CASE <<"sync", c>> = Gate(h)
        <4>1. hpc[h] = "sync" /\ c = b
          BY <1>3, <3>2
        <4>2. Created(h, c)'
          BY <1>1, <1>2, <4>1 DEF Created, b
        <4> QED
          BY <4>2
      <3> QED
        BY <2>1, <3>1, <3>2
    <2>2. \A g \in Handler : handler[g].bucket \in Int
      BY <1>t DEF AdmissionTypeOK
    <2> QED
      BY <1>8, <2>1, <2>2 DEF AdmissionFits, GatesMade
  <1>10. OneChildEach' /\ LosersScanned' /\ LoopFits'
    BY LoopUntouched DEF AdmissionFits, OneChildEach, LosersScanned
  <1> QED
    BY <1>4, <1>5, <1>7, <1>9, <1>10 DEF AdmissionFits

\* tryAcquire found the file or failed.
LEMMA GateRefused ==
    ASSUME Window \in Nat \ {0}, AdmissionFits, NEW h \in Handler, hpc[h] \in GateKind,
           NEW verdict \in {"loser", "error"}, verdict = "loser" => Gate(h) \in gates,
           hpc' = [hpc EXCEPT ![h] = IF @ = "sync" THEN AfterSync(h) ELSE "done"],
           handler' = [handler EXCEPT ![h].gate = IF hpc[h] = "sync" THEN verdict ELSE @],
           UNCHANGED <<admissionNow, gates, worker, calling, scanned>>, kills' \in Nat
    PROVE  AdmissionFits'
  <1> DEFINE to == IF hpc[h] = "sync" THEN AfterSync(h) ELSE "done"
             gate == IF hpc[h] = "sync" THEN verdict ELSE handler[h].gate
             b == handler[h].bucket
  <1>t. AdmissionTypeOK
    BY DEF AdmissionFits
  <1>0. Bucket(admissionNow') = Bucket(admissionNow) /\ Bucket(admissionNow) \in Nat
    BY <1>t, BucketGrows DEF Bucket, AdmissionTypeOK
  <1>1. /\ to \in {"forward", "done"} /\ hpc[h] \in {"sync", "forward"}
        /\ hpc[h] = "forward" => gate = handler[h].gate
        /\ hpc[h] = "sync" => gate = verdict
        /\ hpc' = [hpc EXCEPT ![h] = to] /\ handler' = [handler EXCEPT ![h].gate = gate]
    BY <1>t DEF GateKind, AfterSync, AdmissionTypeOK
  <1>2. /\ b \in Nat /\ Gate(h) = <<hpc[h], b>> /\ ~handler[h].forwarded /\ ~handler[h].chain
        /\ (hpc[h] = "sync" => handler[h].gate = "none" /\ worker[h].at = "none")
        /\ (hpc[h] = "forward" => handler[h].gate # "none")
    BY <1>0, <1>1 DEF AdmissionFits, PhaseFits, WorkerFits, NoBucket, Gate
  <1>3. gate \in {"none", "loser", "owner", "expired", "error"} /\ gate # "none"
    BY <1>t, <1>1, <1>2 DEF AdmissionTypeOK
  <1> HIDE DEF to, b, gate
  <1>4. AdmissionTypeOK'
    BY <1>t, <1>1, <1>3 DEF AdmissionTypeOK
  <1>5. \A g \in Handler :
           /\ hpc'[g] = IF g = h THEN to ELSE hpc[g]
           /\ handler'[g].chain = handler[g].chain
           /\ handler'[g].bucket = handler[g].bucket
           /\ handler'[g].forwarded = handler[g].forwarded
           /\ handler'[g].parent = handler[g].parent
           /\ handler'[g].gate = IF g = h THEN gate ELSE handler[g].gate
    BY <1>t, <1>1 DEF AdmissionTypeOK
  <1>6. \A g \in Handler : PhaseFits(g)' /\ WorkerFits(g)'
    <2> TAKE g \in Handler
    <2>0. PhaseFits(g) /\ WorkerFits(g)
      BY DEF AdmissionFits
    <2>1. PhaseFits(g)'
      BY <1>0, <1>1, <1>2, <1>3, <1>5, <2>0 DEF PhaseFits, b, NoBucket
    <2>2. WorkerFits(g)'
      BY <1>0, <1>1, <1>2, <1>5, <2>0 DEF WorkerFits
    <2> QED
      BY <2>1, <2>2
  <1>7. \A g \in Handler, kind \in GateKind :
           (InTime(g)' <=> InTime(g)) /\ (Holds(kind, g)' <=> Holds(kind, g))
    BY <1>0, <1>1, <1>5 DEF InTime, Holds, GateKind
  <1>8. GatesHeld'
    BY <1>5, <1>7 DEF AdmissionFits, GatesHeld
  <1>9. \A g \in Handler, c \in Int : Created(g, c) => Created(g, c)'
    BY <1>1, <1>2, <1>5 DEF Created
  <1>10. GatesMade'
    <2>1. \A c \in Nat : <<"sync", c>> \in gates' => \E g \in Handler : Created(g, c)'
      BY <1>9 DEF AdmissionFits, GatesMade
    <2>2. ASSUME NEW k \in Handler, handler'[k].gate = "loser"
          PROVE  \E g \in Handler : Created(g, handler[k].bucket)'
      <3>1. CASE k = h /\ hpc[h] = "sync"
        BY <1>1, <1>2, <1>5, <2>1, <2>2, <3>1 DEF b
      <3>2. CASE ~(k = h /\ hpc[h] = "sync")
        <4>1. handler[k].gate = "loser" /\ handler[k].bucket \in Int
          BY <1>t, <1>1, <1>5, <2>2, <3>2 DEF AdmissionTypeOK
        <4> QED
          BY <1>9, <4>1 DEF AdmissionFits, GatesMade
      <3> QED
        BY <3>1, <3>2
    <2> QED
      BY <1>5, <2>1, <2>2 DEF GatesMade
  <1>11. OneChildEach' /\ LosersScanned'
    BY <1>5 DEF AdmissionFits, OneChildEach, LosersScanned
  <1>12. LoopFits'
    BY <1>5 DEF AdmissionFits, LoopFits, Parents, Forwarded
  <1> QED
    BY <1>4, <1>6, <1>8, <1>10, <1>11, <1>12 DEF AdmissionFits

LEMMA CreateGateFits ==
    ASSUME Window \in Nat \ {0}, AdmissionFits, NEW h \in Handler, CreateGate(h)
    PROVE  AdmissionFits'
  <1>1. kills \in Nat
    BY DEF AdmissionFits, AdmissionTypeOK
  <1>2. hpc[h] \in GateKind /\ UNCHANGED <<admissionNow, worker, calling, scanned>>
    BY DEF CreateGate
  <1>3. CASE /\ Gate(h) \notin gates
             /\ gates' = gates \cup {Gate(h)}
             /\ hpc' = [hpc EXCEPT ![h] = IF @ = "sync" THEN "recheckSync" ELSE "recheckForward"]
             /\ UNCHANGED <<handler, kills>>
    BY <1>2, <1>3, GateCreated
  <1>4. CASE /\ Gate(h) \in gates
             /\ hpc' = [hpc EXCEPT ![h] = IF @ = "sync" THEN AfterSync(h) ELSE "done"]
             /\ handler' = [handler EXCEPT ![h].gate = IF hpc[h] = "sync" THEN "loser" ELSE @]
             /\ UNCHANGED <<gates, kills>>
    BY <1>1, <1>2, <1>4, GateRefused
  <1>5. CASE /\ AdmissionFault
             /\ hpc' = [hpc EXCEPT ![h] = IF @ = "sync" THEN AfterSync(h) ELSE "done"]
             /\ handler' = [handler EXCEPT ![h].gate = IF hpc[h] = "sync" THEN "error" ELSE @]
             /\ UNCHANGED gates
    <2>1. kills' \in Nat
      BY <1>1, <1>5 DEF AdmissionFault
    <2> QED
      BY <1>2, <1>5, <2>1, GateRefused
  <1> QED
    BY <1>3, <1>4, <1>5 DEF CreateGate

LEMMA ForwardFits ==
    ASSUME Window \in Nat \ {0}, AdmissionFits, NEW h \in Handler, ForwardOriginal(h)
    PROVE  AdmissionFits'
  <1>t. AdmissionTypeOK
    BY DEF AdmissionFits
  <1>0. /\ UNCHANGED <<admissionNow, gates, worker, scanned, kills>> /\ Bucket(admissionNow') = Bucket(admissionNow)
        /\ Bucket(admissionNow) \in Nat
    BY <1>t, BucketGrows DEF ForwardOriginal, Bucket, AdmissionTypeOK
  <1>1. hpc[h] = "recheckForward" /\ hpc' = [hpc EXCEPT ![h] = "done"]
    BY DEF ForwardOriginal, HandlerStep
  <1>2. PICK forwards \in BOOLEAN :
           /\ forwards => /\ InTime(h) /\ calling' = calling \cup {h}
                       /\ handler' = [handler EXCEPT ![h].forwarded = TRUE]
           /\ ~forwards => UNCHANGED <<calling, handler>>
    BY DEF ForwardOriginal
  <1>3. /\ handler[h].gate # "none" /\ ~handler[h].forwarded /\ ~handler[h].chain
        /\ handler[h].bucket # NoBucket
    BY <1>1 DEF AdmissionFits, PhaseFits
  <1>4. AdmissionTypeOK'
    <2>0. hpc' \in [Handler -> {"idle", "sample", "sync", "recheckSync", "forward",
                              "recheckForward", "done"}]
      BY <1>t, <1>1 DEF AdmissionTypeOK
    <2>1. CASE forwards
      <3>1. calling' \subseteq Handler
        BY <1>t, <1>2, <2>1 DEF AdmissionTypeOK
      <3>2. handler' \in [Handler -> [codex : BOOLEAN, chain : BOOLEAN, bucket : Int,
                                     forwarded : BOOLEAN, parent : BOOLEAN,
                                     gate : {"none", "loser", "owner", "expired", "error"}]]
        <4>1. handler' = [handler EXCEPT ![h].forwarded = TRUE]
          BY <1>2, <2>1
        <4> QED
          BY <1>t, <4>1 DEF AdmissionTypeOK
      <3> QED
        BY <1>t, <1>0, <2>0, <3>1, <3>2 DEF AdmissionTypeOK
    <2>2. CASE ~forwards
      BY <1>t, <1>0, <1>2, <2>0, <2>2 DEF AdmissionTypeOK
    <2> QED
      BY <2>1, <2>2
  <1>5. \A g \in Handler :
           /\ g # h => hpc'[g] = hpc[g] /\ handler'[g] = handler[g]
           /\ g = h => hpc'[g] = "done"
           /\ handler'[g].chain = handler[g].chain
           /\ handler'[g].bucket = handler[g].bucket
           /\ forwards /\ g = h => handler'[g].forwarded
           /\ ~(forwards /\ g = h) => handler'[g].forwarded = handler[g].forwarded
           /\ handler'[g].parent = handler[g].parent
           /\ handler'[g].gate = handler[g].gate
    <2>1. CASE forwards
      BY <1>t, <1>1, <1>2, <2>1 DEF AdmissionTypeOK
    <2>2. CASE ~forwards
      BY <1>t, <1>1, <1>2, <2>2 DEF AdmissionTypeOK
    <2> QED
      BY <2>1, <2>2
  <1>6. \A g \in Handler : PhaseFits(g)' /\ WorkerFits(g)'
    <2> TAKE g \in Handler
    <2>0. PhaseFits(g) /\ WorkerFits(g)
      BY DEF AdmissionFits
    <2>1. PhaseFits(g)'
      <3>1. CASE g = h
        BY <1>0, <1>1, <1>3, <1>5, <2>0, <3>1 DEF PhaseFits
      <3>2. CASE g # h
        BY <1>0, <1>5, <2>0, <3>2 DEF PhaseFits
      <3> QED
        BY <3>1, <3>2
    <2>2. WorkerFits(g)'
      BY <1>0, <1>5, <2>0 DEF WorkerFits
    <2> QED
      BY <2>1, <2>2
  <1>7. \A g \in Handler, kind \in GateKind :
           (InTime(g)' <=> InTime(g)) /\ (Holds(kind, g)' => Holds(kind, g))
    BY <1>0, <1>1, <1>5 DEF InTime, Holds, GateKind
  <1>8. GatesHeld'
    BY <1>0, <1>5, <1>7 DEF AdmissionFits, GatesHeld
  <1>9. \A g \in Handler, c \in Int : Created(g, c) => Created(g, c)'
    BY <1>1, <1>5 DEF Created
  <1>10. GatesMade'
    <2>1. \A g \in Handler : handler[g].bucket \in Int
      BY <1>t DEF AdmissionTypeOK
    <2> QED
      BY <1>0, <1>5, <1>9, <2>1 DEF AdmissionFits, GatesMade
  <1>11. OneChildEach'
    <2>1. ASSUME forwards, NEW g \in Handler, handler[g].forwarded,
                 handler[g].bucket = handler[h].bucket
          PROVE  FALSE
      <3>1. Holds("forward", g) /\ Holds("forward", h) /\ InTime(g) /\ InTime(h)
        BY <1>1, <1>2, <2>1 DEF Holds, InTime
      <3>2. g = h
        BY <3>1 DEF AdmissionFits, GatesHeld, GateKind
      <3> QED
        BY <1>3, <2>1, <3>2
    <2>2. CASE forwards
      BY <1>0, <1>5, <2>1, <2>2 DEF AdmissionFits, OneChildEach
    <2>3. CASE ~forwards
      BY <1>0, <1>5, <2>3 DEF AdmissionFits, OneChildEach
    <2> QED
      BY <2>2, <2>3
  <1>12. LosersScanned'
    BY <1>0, <1>5 DEF AdmissionFits, LosersScanned
  <1>13. LoopFits'
    <2>0. LoopFits /\ Parents' = Parents
      BY <1>5 DEF AdmissionFits, Parents
    <2>1. CASE forwards
      <3>1. /\ Forwarded' = Forwarded \cup {h} /\ h \notin Forwarded
            /\ calling' = calling \cup {h} /\ h \notin calling
        BY <1>2, <1>3, <1>5, <2>0, <2>1 DEF Forwarded, LoopFits
      <3>2. /\ IsFiniteSet(Forwarded') /\ Cardinality(Forwarded') = Cardinality(Forwarded) + 1
            /\ IsFiniteSet(calling') /\ Cardinality(calling') = Cardinality(calling) + 1
        BY <2>0, <3>1, FS_AddElement DEF LoopFits
      <3>3. /\ Cardinality(Parents) \in Nat /\ Cardinality(calling) \in Nat
            /\ Cardinality(Forwarded) \in Nat
        BY <2>0, FS_CardinalityType DEF LoopFits
      <3> QED
        BY <2>0, <3>1, <3>2, <3>3 DEF LoopFits
    <2>2. CASE ~forwards
      <3>1. Forwarded' = Forwarded /\ calling' = calling
        BY <1>2, <2>2 DEF Forwarded
      <3> QED
        BY <2>0, <3>1 DEF LoopFits
    <2> QED
      BY <2>1, <2>2
  <1> QED
    BY <1>4, <1>6, <1>8, <1>10, <1>11, <1>12, <1>13 DEF AdmissionFits

\* A step of the worker of h that starts no new worker, removes only gates of
\* buckets that are over, and loses no scanned hook.
LEMMA WorkerStepFits ==
    ASSUME Window \in Nat \ {0}, AdmissionFits, NEW h \in Handler,
           NEW to \in {"clean", "done", "killed"}, NEW cutoff \in Int,
           NEW seen \in SUBSET (GateKind \X Nat),
           worker[h].at # "none",
           worker' = [worker EXCEPT ![h] =
                        [@ EXCEPT !.at = to, !.cutoff = cutoff, !.seen = seen]],
           to \in {"clean", "done"} => worker[h].bucket < Bucket(admissionNow),
           \A g \in seen : g[2] <= Bucket(admissionNow) - Grace,
           to = "done" => \A g \in Handler :
               handler[g].bucket = worker[h].bucket => g \in scanned',
           UNCHANGED <<admissionNow, hpc, handler, calling>>, kills' \in Nat,
           scanned \subseteq scanned', scanned' \subseteq Handler,
           gates' \subseteq gates,
           \A g \in gates \ gates' : g[2] <= Bucket(admissionNow) - Grace
    PROVE  AdmissionFits'
  <1>t. AdmissionTypeOK
    BY DEF AdmissionFits
  <1>0. Bucket(admissionNow') = Bucket(admissionNow) /\ Bucket(admissionNow) \in Nat
    BY <1>t, BucketGrows DEF Bucket, AdmissionTypeOK
  <1>1. worker \in [Handler -> [at : {"none", "wait", "clean", "done", "killed"}, bucket : Int, cutoff : Int,
                           seen : SUBSET (GateKind \X Nat)]]
    BY <1>t DEF AdmissionTypeOK
  <1>2. /\ worker'[h] = [worker[h] EXCEPT !.at = to, !.cutoff = cutoff, !.seen = seen]
        /\ \A g \in Handler : g # h => worker'[g] = worker[g]
    BY <1>1
  <1>3. worker'[h].at = to /\ worker'[h].seen = seen /\ worker'[h].bucket = worker[h].bucket
    BY <1>1, <1>2
  <1>4. AdmissionTypeOK'
    <2>1. [worker[h] EXCEPT !.at = to, !.cutoff = cutoff, !.seen = seen] \in
          [at : {"none", "wait", "clean", "done", "killed"}, bucket : Int, cutoff : Int,
                           seen : SUBSET (GateKind \X Nat)]
      BY <1>1
    <2>2. worker' \in [Handler -> [at : {"none", "wait", "clean", "done", "killed"}, bucket : Int, cutoff : Int,
                           seen : SUBSET (GateKind \X Nat)]]
      BY <1>1, <2>1
    <2> QED
      BY <1>t, <2>2 DEF AdmissionTypeOK
  <1>5. \A g \in Handler : PhaseFits(g)' /\ WorkerFits(g)'
    <2> TAKE g \in Handler
    <2>0. PhaseFits(g) /\ WorkerFits(g)
      BY DEF AdmissionFits
    <2>1. PhaseFits(g)'
      BY <1>0, <2>0 DEF PhaseFits
    <2>2. CASE g = h
      BY <1>0, <1>3, <2>0, <2>1, <2>2 DEF WorkerFits
    <2>3. CASE g # h
      BY <1>0, <1>2, <2>0, <2>1, <2>3 DEF WorkerFits
    <2> QED
      BY <2>2, <2>3
  <1>6. \A g \in Handler : worker'[g].at # "none" <=> worker[g].at # "none"
    BY <1>2, <1>3
  <1>7. GatesHeld'
    <2>1. \A g \in Handler, kind \in GateKind :
             (InTime(g)' <=> InTime(g)) /\ (Holds(kind, g)' <=> Holds(kind, g))
      BY <1>0, <1>6 DEF InTime, Holds
    <2>2. ASSUME NEW g \in Handler, InTime(g), NEW kind \in GateKind,
                 <<kind, handler[g].bucket>> \in gates
          PROVE  <<kind, handler[g].bucket>> \in gates'
      BY <1>0, <2>2 DEF InTime, Grace
    <2> QED
      BY <2>1, <2>2 DEF AdmissionFits, GatesHeld
  <1>8. GatesMade'
    BY DEF AdmissionFits, GatesMade, Created
  <1>9. OneChildEach'
    BY <1>6 DEF AdmissionFits, OneChildEach
  <1>10. LosersScanned'
    BY <1>2, <1>3 DEF AdmissionFits, LosersScanned
  <1>11. LoopFits'
    BY LoopUntouched DEF AdmissionFits
  <1> QED
    BY <1>4, <1>5, <1>7, <1>8, <1>9, <1>10, <1>11 DEF AdmissionFits

\* The parts of a worker's record that its steps assign.
LEMMA WorkerType ==
    ASSUME AdmissionFits, NEW h \in Handler
    PROVE  /\ worker[h].at \in {"none", "wait", "clean", "done", "killed"}
           /\ worker[h].cutoff \in Int /\ worker[h].seen \in SUBSET (GateKind \X Nat)
           /\ \A g \in worker[h].seen : g[2] <= Bucket(admissionNow) - Grace
           /\ \A to \in STRING, seen \in SUBSET (GateKind \X Nat) :
                /\ [worker EXCEPT ![h].at = to] = [worker EXCEPT ![h] =
                      [@ EXCEPT !.at = to, !.cutoff = worker[h].cutoff, !.seen = worker[h].seen]]
                /\ [worker EXCEPT ![h].seen = seen] = [worker EXCEPT ![h] =
                      [@ EXCEPT !.at = worker[h].at, !.cutoff = worker[h].cutoff, !.seen = seen]]
  <1>1. worker \in [Handler -> [at : {"none", "wait", "clean", "done", "killed"}, bucket : Int,
                               cutoff : Int, seen : SUBSET (GateKind \X Nat)]]
    BY DEF AdmissionFits, AdmissionTypeOK
  <1>2. \A to \in STRING, seen \in SUBSET (GateKind \X Nat) :
          /\ [worker[h] EXCEPT !.at = to] =
               [worker[h] EXCEPT !.at = to, !.cutoff = worker[h].cutoff, !.seen = worker[h].seen]
          /\ [worker[h] EXCEPT !.seen = seen] =
               [worker[h] EXCEPT !.at = worker[h].at, !.cutoff = worker[h].cutoff, !.seen = seen]
    BY <1>1
  <1>3. \A g \in worker[h].seen : g[2] <= Bucket(admissionNow) - Grace
    BY DEF AdmissionFits, WorkerFits
  <1> QED
    BY <1>1, <1>2, <1>3

LEMMA WakeFits ==
    ASSUME Window \in Nat \ {0}, AdmissionFits, NEW h \in Handler, Wake(h)
    PROVE  AdmissionFits'
  <1>1. admissionNow \in Nat /\ kills \in Nat /\ gates \subseteq GateKind \X Nat /\ scanned \subseteq Handler
    BY DEF AdmissionFits, AdmissionTypeOK
  <1>2. worker[h].bucket \in Nat
    BY DEF AdmissionFits, PhaseFits, WorkerFits, Wake, NoBucket
  <1>3. worker[h].bucket < Bucket(admissionNow) /\ Bucket(admissionNow) \in Nat
    BY <1>1, <1>2, BucketOver, BucketGrows DEF Wake
  <1> DEFINE cutoff == Bucket(admissionNow) - Grace
             seen == {g \in gates : g[2] <= cutoff}
  <1>4. /\ cutoff \in Int /\ seen \in SUBSET (GateKind \X Nat)
        /\ \A g \in seen : g[2] <= Bucket(admissionNow) - Grace
    BY <1>1, <1>3 DEF Grace
  <1>5. /\ worker[h].at # "none"
        /\ worker' = [worker EXCEPT ![h] =
                        [@ EXCEPT !.at = "clean", !.cutoff = cutoff, !.seen = seen]]
        /\ UNCHANGED <<admissionNow, gates, hpc, handler, calling, scanned, kills>>
    BY DEF Wake
  <1> HIDE DEF cutoff, seen
  <1> QED
    BY <1>1, <1>3, <1>4, <1>5, WorkerStepFits

LEMMA UnlinkFits ==
    ASSUME Window \in Nat \ {0}, AdmissionFits, NEW h \in Handler, NEW g, UnlinkGate(h, g)
    PROVE  AdmissionFits'
  <1>1. kills \in Nat /\ scanned \subseteq Handler
    BY DEF AdmissionFits, AdmissionTypeOK
  <1> DEFINE seen == worker[h].seen \ {g}
  <1>2. /\ worker[h].at = "clean" /\ g \in worker[h].seen /\ gates' = gates \ {g}
        /\ worker' = [worker EXCEPT ![h].seen = seen]
        /\ UNCHANGED <<admissionNow, hpc, handler, calling, scanned, kills>>
    BY DEF UnlinkGate
  <1>3. worker[h].bucket < Bucket(admissionNow)
    BY <1>2 DEF AdmissionFits, WorkerFits
  <1>4. /\ seen \in SUBSET (GateKind \X Nat) /\ worker[h].cutoff \in Int
        /\ \A k \in worker[h].seen : k[2] <= Bucket(admissionNow) - Grace
        /\ worker' = [worker EXCEPT ![h] =
                        [@ EXCEPT !.at = "clean", !.cutoff = worker[h].cutoff, !.seen = seen]]
    <2>1. seen \in SUBSET (GateKind \X Nat) /\ worker[h].cutoff \in Int
      BY WorkerType
    <2>2. \A k \in worker[h].seen : k[2] <= Bucket(admissionNow) - Grace
      BY WorkerType
    <2> HIDE DEF seen
    <2>3. [worker EXCEPT ![h].seen = seen] = [worker EXCEPT ![h] =
            [@ EXCEPT !.at = worker[h].at, !.cutoff = worker[h].cutoff, !.seen = seen]]
      BY <2>1, WorkerType
    <2> QED
      BY <1>2, <2>1, <2>2, <2>3
  <1>5. /\ \A k \in seen : k[2] <= Bucket(admissionNow) - Grace
        /\ \A k \in gates \ gates' : k[2] <= Bucket(admissionNow) - Grace
    BY <1>2, <1>4
  <1> HIDE DEF seen
  <1> QED
    BY <1>1, <1>2, <1>3, <1>4, <1>5, WorkerStepFits

LEMMA ScanFits ==
    ASSUME Window \in Nat \ {0}, AdmissionFits, NEW h \in Handler, Scan(h)
    PROVE  AdmissionFits'
  <1>1. kills \in Nat /\ scanned \subseteq Handler /\ Fired \subseteq Handler
    BY DEF AdmissionFits, AdmissionTypeOK, Fired
  <1>2. /\ worker[h].at = "clean" /\ worker' = [worker EXCEPT ![h].at = "done"]
        /\ scanned' = scanned \cup Fired
        /\ UNCHANGED <<admissionNow, gates, hpc, handler, calling, kills>>
    BY DEF Scan
  <1>3. worker[h].bucket < Bucket(admissionNow) /\ worker[h].bucket # NoBucket
    BY <1>2 DEF AdmissionFits, WorkerFits, PhaseFits
  <1>4. \A g \in Handler : handler[g].bucket = worker[h].bucket => g \in Fired
    BY <1>3 DEF AdmissionFits, PhaseFits, Fired
  <1>5. /\ worker[h].cutoff \in Int /\ worker[h].seen \in SUBSET (GateKind \X Nat)
        /\ \A k \in worker[h].seen : k[2] <= Bucket(admissionNow) - Grace
        /\ worker' = [worker EXCEPT ![h] = [@ EXCEPT !.at = "done", !.cutoff = worker[h].cutoff,
                                                    !.seen = worker[h].seen]]
    BY <1>2, WorkerType
  <1> QED
    BY <1>1, <1>2, <1>3, <1>4, <1>5, WorkerStepFits

LEMMA KillFits ==
    ASSUME Window \in Nat \ {0}, AdmissionFits, NEW h \in Handler, KillWorker(h)
    PROVE  AdmissionFits'
  <1>1. kills \in Nat /\ scanned \subseteq Handler
    BY DEF AdmissionFits, AdmissionTypeOK
  <1>2. /\ worker[h].at # "none" /\ worker' = [worker EXCEPT ![h].at = "killed"]
        /\ UNCHANGED <<admissionNow, gates, hpc, handler, calling, scanned>>
        /\ kills' \in Nat
    BY <1>1 DEF KillWorker, AdmissionFault
  <1>3. /\ worker[h].cutoff \in Int /\ worker[h].seen \in SUBSET (GateKind \X Nat)
        /\ \A k \in worker[h].seen : k[2] <= Bucket(admissionNow) - Grace
        /\ worker' = [worker EXCEPT ![h] = [@ EXCEPT !.at = "killed", !.cutoff = worker[h].cutoff,
                                                    !.seen = worker[h].seen]]
    BY <1>2, WorkerType
  <1> QED
    BY <1>1, <1>2, <1>3, WorkerStepFits

\* One step per action.
LEMMA AdmissionStep ==
    ASSUME Window \in Nat \ {0}, AdmissionFits, [AdmissionNext]_admissionVars
    PROVE  AdmissionFits'
  <1>1. CASE Tick
    BY <1>1, TickFits
  <1>2. ASSUME NEW h \in Handler,
               \/ Fire(h) \/ \E g \in Handler : CallBack(g, h)
               \/ Sample(h) \/ CreateGate(h) \/ SpawnWorker(h) \/ ForwardOriginal(h)
               \/ Wake(h) \/ \E g \in gates : UnlinkGate(h, g)
               \/ \E g \in worker[h].seen \ gates : UnlinkGate(h, g)
               \/ Scan(h) \/ KillWorker(h)
        PROVE  AdmissionFits'
    BY <1>2, FireFits, CallBackFits, SampleFits, CreateGateFits, SpawnWorkerFits, ForwardFits,
       WakeFits, UnlinkFits, ScanFits, KillFits
  <1>3. CASE UNCHANGED admissionVars
    BY <1>3 DEF admissionVars, AdmissionFits, AdmissionTypeOK, PhaseFits, WorkerFits, GatesHeld, GatesMade,
            Created, Holds, InTime, Bucket, OneChildEach, LosersScanned, LoopFits, Parents,
            Forwarded
  <1> QED
    BY <1>1, <1>2, <1>3 DEF AdmissionNext

\* What is still unread when nothing moves, of the invariant.
LEMMA ExcusedFollows == AdmissionFits => OnlyExcusedUnscanned
  <1> SUFFICES ASSUME AdmissionFits,
                      \A k \in Handler : /\ hpc[k] \in {"idle", "done"}
                                         /\ worker[k].at \notin {"wait", "clean"},
                      NEW h \in Fired \ scanned,
                      ~handler[h].chain, handler[h].gate # "error"
               PROVE  \E g \in Handler :
                         /\ handler[g].bucket = handler[h].bucket
                         /\ handler[g].gate \in {"expired", "error"} \/ worker[g].at = "killed"
    BY DEF OnlyExcusedUnscanned
  <1> h \in Handler
    BY DEF Fired
  <1>1. hpc[h] = "done" /\ handler[h].gate \in {"loser", "owner", "expired"}
    BY DEF Fired, AdmissionFits, PhaseFits, AdmissionTypeOK
  <1>2. PICK g \in Handler : Created(g, handler[h].bucket)
    <2>1. CASE handler[h].gate = "loser"
      BY <2>1 DEF AdmissionFits, GatesMade
    <2>2. CASE handler[h].gate # "loser"
      BY <1>1, <2>2 DEF Created
    <2> QED
      BY <2>1, <2>2
  <1>3. /\ handler[g].bucket = handler[h].bucket
        /\ handler[g].gate \in {"owner", "expired", "error"}
    BY <1>2 DEF Created
  <1>4. CASE handler[g].gate = "owner"
    <2>1. worker[g].at \in {"done", "killed"} /\ worker[g].bucket = handler[g].bucket
      BY <1>4, WorkerType DEF AdmissionFits, WorkerFits
    <2>2. worker[g].at # "done"
      BY <1>3, <2>1 DEF AdmissionFits, LosersScanned
    <2> QED
      BY <1>3, <2>1, <2>2
  <1> QED
    BY <1>3, <1>4

\* Forwarded handlers, counted by their buckets.
LEMMA LoopFollows == ASSUME Window \in Nat \ {0}, AdmissionFits PROVE LoopContained
  <1> DEFINE n == Bucket(admissionNow)
             bucketOf == [h \in Forwarded |-> handler[h].bucket]
  <1>1. n \in Nat
    BY BucketGrows DEF AdmissionFits, AdmissionTypeOK
  <1>2. \A h \in Forwarded : handler[h].bucket \in 0 .. n
    BY <1>1 DEF Forwarded, AdmissionFits, PhaseFits, NoBucket
  <1>3. \A g, h \in Forwarded : handler[g].bucket = handler[h].bucket => g = h
    BY <1>1, <1>2 DEF Forwarded, AdmissionFits, OneChildEach, NoBucket
  <1> HIDE DEF n
  <1>4. bucketOf \in Injection(Forwarded, 0 .. n)
    BY <1>2, <1>3 DEF Injection, IsInjective
  <1>5. IsFiniteSet(0 .. n) /\ Cardinality(0 .. n) = n + 1
    BY <1>1, FS_Interval
  <1>6. Cardinality(Forwarded) <= n + 1
    BY <1>4, <1>5, FS_Injection
  <1>7. /\ Cardinality(Parents) \in Nat /\ Cardinality(calling) \in Nat
        /\ Cardinality(Forwarded) \in Nat
        /\ Cardinality(Parents) + Cardinality(calling) <= Cardinality(Forwarded)
    BY FS_CardinalityType DEF AdmissionFits, LoopFits
  <1>8. Cardinality(Parents) <= n + 1
    BY <1>1, <1>6, <1>7
  <1> QED
    BY <1>8 DEF LoopContained, Parents, n

-----------------------------------------------------------------------------
(* What the parts' invariants give for all of them together.               *)

\* A part stays the part it is, and its steps are steps of its own module.
LEMMA PartStays == [Next]_allVars => part' = part
  BY DEF Next, allVars

LEMMA AccountingSteps == [Next]_allVars /\ part = "accounting" => [Accounting!Next]_(Accounting!vars)
  BY DEF Next, allVars, accountingVars, Accounting!vars, Accounting!client, Accounting!server

LEMMA AdmissionSteps == [Next]_allVars /\ part = "admission" => [AdmissionNext]_admissionVars
  BY DEF Next, allVars

LEMMA EvidenceSteps == [Next]_allVars /\ part = "evidence" => [EvidenceNext]_evidenceVars
  BY DEF Next, allVars

LEMMA CollectorsSteps == [Next]_allVars /\ part = "collectors" => [CollectorsNext]_collectorVars
  BY DEF Next, allVars

LEMMA PreservedSteps == [Next]_allVars /\ part = "preserved" => [PreservedNext]_preservedVars
  BY DEF Next, allVars

LEMMA HooksSteps == [Next]_allVars /\ part = "hooks" => [HooksNext]_hooksVars
  BY DEF Next, allVars

LEMMA StoresSteps == [Next]_allVars /\ part = "stores" => [StoresNext]_storeVars
  BY DEF Next, allVars

LEMMA ParsersSteps == [Next]_allVars /\ part = "parsers" => [ParsersNext]_parserVars
  BY DEF Next, allVars

LEMMA IngestSteps ==
    [Next]_allVars /\ part = "ingest" => [Ingest!IngestNext]_(Ingest!ingestVars)
  BY DEF Next, allVars, ingestVars, Ingest!ingestVars, Ingest!client, Ingest!store

AccountingPart == part = "accounting" => Accounting!LedgerFits
AdmissionPart == part = "admission" => AdmissionFits
EvidencePart == part = "evidence" => EvidenceFits
CollectorsPart == part = "collectors" => CollectorFits
PreservedPart == part = "preserved" => PreservedFits
HooksPart == part = "hooks" => HooksFit
StoresPart == part = "stores" => StoresFit
ParsersPart == part = "parsers" => ParsersFit
IngestPart == part = "ingest" => Ingest!IngestFits /\ Ingest!AllReceiptsFit

LEMMA AccountingHolds == Spec => []AccountingPart
  <1>1. Init => AccountingPart
    BY Accounting!InitFits DEF Init, AccountingPart
  <1>2. AccountingPart /\ [Next]_allVars => AccountingPart'
    BY PartStays, AccountingSteps, Accounting!LedgerStep DEF AccountingPart
  <1> QED
    BY <1>1, <1>2, PTL DEF Spec

\* While a bucket lasts its gates stay and have one holder each, whoever finds
\* a gate taken was beaten by a handler of its bucket, and each call back uses
\* up a forwarded command.
THEOREM AdmissionIsSound == Spec => []AdmissionPart
  <1>1. Init => AdmissionPart
    BY AdmissionAssumption, AdmissionStarts DEF Init, AdmissionPart
  <1>2. AdmissionPart /\ [Next]_allVars => AdmissionPart'
    BY AdmissionAssumption, PartStays, AdmissionSteps, AdmissionStep DEF AdmissionPart
  <1> QED
    BY <1>1, <1>2, PTL DEF Spec

LEMMA EvidenceHolds == Spec => []EvidencePart
  <1>1. Init => EvidencePart
    BY EvidenceInitFits DEF Init, EvidencePart
  <1>2. EvidencePart /\ [Next]_allVars => EvidencePart'
    BY PartStays, EvidenceSteps, EvidenceStepFits DEF EvidencePart
  <1> QED
    BY <1>1, <1>2, PTL DEF Spec

LEMMA CollectorsHold == Spec => []CollectorsPart
  <1>1. Init => CollectorsPart
    BY CollectorsStart DEF Init, CollectorsPart
  <1>2. CollectorsPart /\ [Next]_allVars => CollectorsPart'
    BY PartStays, CollectorsSteps, CollectorsStep DEF CollectorsPart
  <1> QED
    BY <1>1, <1>2, PTL DEF Spec

LEMMA PreservedHolds == Spec => []PreservedPart
  <1>1. Init => PreservedPart
    BY PreservedStarts DEF Init, PreservedPart
  <1>2. PreservedPart /\ [Next]_allVars => PreservedPart'
    BY PartStays, PreservedSteps, PreservedStep DEF PreservedPart
  <1> QED
    BY <1>1, <1>2, PTL DEF Spec

LEMMA HooksHold == Spec => []HooksPart
  <1>1. Init => HooksPart
    BY HooksStart DEF Init, HooksPart
  <1>2. HooksPart /\ [Next]_allVars => HooksPart'
    BY PartStays, HooksSteps, HooksStep DEF HooksPart
  <1> QED
    BY <1>1, <1>2, PTL DEF Spec

LEMMA StoresHold == Spec => []StoresPart
  <1>1. Init => StoresPart
    BY StoresStart DEF Init, StoresPart
  <1>2. StoresPart /\ [Next]_allVars => StoresPart'
    BY PartStays, StoresSteps, StoresStep DEF StoresPart
  <1> QED
    BY <1>1, <1>2, PTL DEF Spec

LEMMA ParsersHold == Spec => []ParsersPart
  <1>1. Init => ParsersPart
    BY ParsersStart DEF Init, ParsersPart
  <1>2. ParsersPart /\ [Next]_allVars => ParsersPart'
    BY PartStays, ParsersSteps, ParsersStep DEF ParsersPart
  <1> QED
    BY <1>1, <1>2, PTL DEF Spec

LEMMA IngestHolds == Spec => []IngestPart
  <1>1. Init => IngestPart
    BY IngestAssumption, Ingest!IngestFitsInit, Ingest!ReceiptsStart DEF Init, IngestPart
  <1>2. Ingest!IngestFits => Ingest!TypeOK
    BY DEF Ingest!IngestFits
  <1>3. IngestPart /\ [Next]_allVars => IngestPart'
    BY IngestAssumption, <1>2, PartStays, IngestSteps, Ingest!IngestStep, Ingest!ReceiptsStep DEF IngestPart
  <1> QED
    BY <1>1, <1>3, PTL DEF Spec

\* At most one worker and one forwarded command for each time bucket, and no
\* loop between pew and a notifier that calls it.
THEOREM OneChild == Spec => []OneChildPerBucket
  <1>1. AdmissionFits => OneChildEach
    BY DEF AdmissionFits
  <1>2. AdmissionPart => OneChildPerBucket
    BY AdmissionAssumption, <1>1, LoopFollows DEF AdmissionPart, OneChildPerBucket
  <1> QED
    BY <1>2, AdmissionIsSound, PTL

\* What a handler leaves to another is scanned, or excused.
THEOREM LosersAreScanned == Spec => []NoLostWakeup
  <1>1. AdmissionFits => LosersScanned
    BY DEF AdmissionFits
  <1>2. AdmissionPart => NoLostWakeup
    BY AdmissionAssumption, <1>1, ExcusedFollows DEF AdmissionPart, NoLostWakeup
  <1> QED
    BY <1>2, AdmissionIsSound, PTL

\* A mark goes only when the server has what it stood for.
THEOREM MarksStandForUploads == Spec => []UnmarkedIsStored
  <1>1. AccountingPart /\ PreservedPart /\ IngestPart => UnmarkedIsStored
    BY Accounting!LedgerImplies, Ingest!AcceptedFollows, Ingest!StoredFollows
       DEF AccountingPart, PreservedPart, IngestPart, UnmarkedIsStored, PreservedFits
  <1> QED
    BY <1>1, AccountingHolds, PreservedHolds, IngestHolds, PTL

\* No tool is left calling a handler that is gone, the command that was in
\* Codex's slot and the user's own hooks survive, and pew never forwards to
\* a notifier that forwards back to it.
THEOREM HooksStaySafe == Spec => []HooksAreSafe
  <1>1. HooksPart => HooksAreSafe
    BY NoDanglingFollows DEF HooksPart, HooksFit, HooksAreSafe
  <1> QED
    BY <1>1, HooksHold, PTL

\* No merge of annotations throws and the server answers none as conflicting;
\* and a sync of Hermes never makes another record of a revision it has.
THEOREM NothingConflicts == Spec => []NeverConflicting
  <1>1. AccountingPart /\ EvidencePart => NeverConflicting
    BY Accounting!LedgerImplies, FitsNeverConflict DEF AccountingPart, EvidencePart, NeverConflicting
  <1> QED
    BY <1>1, AccountingHolds, EvidenceHolds, PTL

\* No step puts an older revision of an annotation, a snapshot that has less
\* or a session row that tells less in the place of a newer one.
THEOREM NothingGoesBack == Spec => NeverOlder
  <1>1. ASSUME Next, AccountingPart, part = "accounting" PROVE Accounting!OnlyNewer
    <2>1. Accounting!LedgerFits
      BY <1>1 DEF AccountingPart
    <2>2. Accounting!Next
      BY <1>1 DEF Next
    <2> QED
      BY <2>1, <2>2, Accounting!OnlyNewerFollows
  <1>2. ASSUME Next, EvidencePart, part = "evidence" PROVE EvidenceGrows
    <2>1. EvidenceFits /\ [EvidenceNext]_evidenceVars
      BY <1>2, EvidenceSteps DEF EvidencePart
    <2> QED
      BY <2>1, EvidenceStepFits
  <1>3. ASSUME Next, CollectorsPart, part = "collectors" PROVE NoRowShrinks
    <2>1. CollectorFits /\ [CollectorsNext]_collectorVars
      BY <1>3, CollectorsSteps DEF CollectorsPart
    <2> QED
      BY <2>1, CollectorsStep
  <1>4. AccountingPart /\ EvidencePart /\ CollectorsPart /\ [Next]_allVars =>
          [/\ (part = "accounting" => Accounting!OnlyNewer)
           /\ (part = "evidence" => EvidenceGrows)
           /\ (part = "collectors" => NoRowShrinks)]_allVars
    BY <1>1, <1>2, <1>3
  <1> QED
    BY <1>4, AccountingHolds, EvidenceHolds, CollectorsHold, PTL DEF Spec, NeverOlder

\* Whatever is counted or uploaded is what its source says: an annotation's
\* parts are those of its row, the counts of Hermes' records sum to what the
\* calls say, no inflated row is left and a row goes to zero only for a rescan
\* that found nothing, a session's row is of one file, sessions that changed
\* are read again once the tools are quiet, and no line of a log is passed
\* over or counted twice.
THEOREM RowsAreTrue == Spec => []RowsTellTheTruth
  <1>1. AccountingPart => (part = "accounting" => Accounting!DetailsFollowRow)
    BY Accounting!LedgerImplies DEF AccountingPart
  <1>2. EvidencePart => (part = "evidence" => Conserved)
    BY DEF EvidencePart, EvidenceFits
  <1>3. PreservedPart => (part = "preserved" => NoInflatedRowLeft /\ ZeroedOnlyIfGone)
    BY PreservedImplies DEF PreservedPart
  <1>4. CollectorsPart => (part = "collectors" => RowIsItsSession)
    BY FitsIsItsSession DEF CollectorsPart
  <1>5. StoresPart => (part = "stores" => OthersAreCurrent /\ SilentWhenQuiet)
    BY StoresFollow DEF StoresPart
  <1>6. ParsersPart => (part = "parsers" => NothingPassedOver /\ NoLineTwice)
    BY ParsersFollow DEF ParsersPart
  <1>7. AccountingPart /\ EvidencePart /\ PreservedPart /\ CollectorsPart /\ StoresPart /\ ParsersPart
          => RowsTellTheTruth
    BY <1>1, <1>2, <1>3, <1>4, <1>5, <1>6 DEF RowsTellTheTruth
  <1> QED
    BY <1>7, AccountingHolds, EvidenceHolds, PreservedHolds, CollectorsHold, StoresHold, ParsersHold, PTL
==============================================================================
