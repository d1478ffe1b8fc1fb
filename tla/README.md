# Verification of pew

`pew` is a command-line program that collects the token usage of AI coding
tools from the logs they leave on disk and uploads hourly usage rows to a web
service. This directory holds TLA+ models of the program and its service, the
TLC configurations that check them on small instances, and TLAPS proofs that
hold for every value of the constants.

    tlc -workers 2 -config core_commit.cfg MCSyncPipeline     # one run
    tlapm SyncPipelineProofs.tla                              # the proofs of one module

`PROJECT.json` lists the components, runs, mutants, hazards, findings and
theorems, and maps every definition to the source lines it stands for. Paths
below are relative to `src/packages/`.

## 1. The system

| Component | State | Operations | What makes it correct |
|---|---|---|---|
| **Token pipeline** `cli/src/commands/{sync,reset}.ts`, `cli/src/storage/*` | log files (owned by the tools), `cursors.json`, `queue.jsonl`, `queue.state.json` (upload offset, dirty keys), `sync-commit.json` (journal), `state.lock` | sync: recover, discover, scan, plan, journal, redo; reset | an event is counted exactly once in the queue whatever crashes, torn files, replaced logs or concurrent commands do; changed rows stay marked |
| **Upload** `cli/src/commands/{upload,upload-engine}.ts`, `web/src/lib/ingest-handler.ts`, `worker/src/index.ts` | dirty keys, offset, the server's rows | select, batch, send, retry, give up, drop marks | marks go only when their rows were accepted; retries and reordering never inflate a row; rows eventually agree |
| **Notify coordination** `cli/src/notifier/{coordinator,lockfile}.ts`, `cli/src/commands/notify.ts` | `sync.lock`, `notify.signal`, `last-success.json`, `trailing.lock` | acquire, wait, reclaim a stale lock, dedup, cooldown, cycles and follow-ups, release, trailing run | no notification is lost; every worker exits; no lock is left behind |
| **Notify admission** `cli/src/notifier/notify-handler.ts` | time-bucket gate files (`ADMISSION_WINDOW_MS`, 2 s), `PEW_NOTIFY_CHAIN` | chain guard, signal append, sync gate, forward gate, clean-up of old gates | one worker per bucket, which scans after every hook of it; no handler loop faster than the clock |
| **Session pipeline** `cli/src/commands/session-{sync,upload}.ts` | session cursors, append-only queue, offset | scan, append, save cursors, upload by offset | the newest snapshot of each session reaches the server |
| **Accounting ledger, evidence** `cli/src/storage/{accounting,evidence}-queue.ts`, `core/src/accounting.ts`, `worker/src/{accounting,evidence}-sql.ts` | revisioned local ledgers, marks | plan, merge (inside the sync commit), enrich, upload, acknowledge | revisions only grow; a commit never meets a conflict it wrote itself; annotations describe their rows |
| **Log readers** `cli/src/{parsers,drivers}`, `cli/src/utils/{jsonl-offset,continuity-anchor}.ts` | byte offsets, anchors, watermarks, key rings, totals | read what is new, detect a rewritten prefix, dedup across files | nothing is counted twice, nothing is passed over |
| **Hook installers** `cli/src/notifier/*-hook.ts`, `codex-notifier.ts` | configuration of the tools | install, chain, restore | the user's own notify command and hooks survive; no hook calls a handler that is gone |
| **Login** `cli/src/commands/login.ts`, `web/src/app/api/auth/*` | login codes, the API key, tokens | browser and code login, logout | a code lets one request in; a token a machine keeps is its user's key |
| **Web ingest** `web/src/lib/ingest-handler.ts`, `worker/src` | requests under way, the stored revisions | check, forward, store, project the receipts | what is acknowledged is stored |
| **Pricing and caches** `worker-read/src` | KV snapshots, price tables, cached lists | scheduled and forced runs, cache-aside reads, invalidation, clearing | failed feeds keep the last good prices; a cleared cache is clear |
| **Seasons, boards, profiles** `web/src/app`, `web/src/hooks`, `web/src/lib` | rosters, snapshots, cached boards, settings | register, withdraw, freeze, page, hide | frozen results add up; only entitled readers see a person; pages show what the server has |
| **Accounts, organizations, devices, teams** `web/src/app/api`, dashboard pages | users, invites, slugs, logos, names | sign up, edit, join, revoke, delete | codes are spent once; nothing refers to what is gone; edits destroy nobody else's work |

How they interact: a tool writes its log and calls its hook; the hook handler
appends a byte to `notify.signal` and starts a `pew notify` worker, once per
time bucket of two seconds; the workers elect, through `sync.lock`, one that runs cycles; a
cycle calls `executeSync`, which takes `state.lock` for the duration of one
command; `pew sync` then uploads. On the client all sharing is through files,
so the hard behaviours are interleavings of processes between two file
operations, processes killed there, files found torn, requests whose answers
are lost or late, and wake-ups that nobody is left to act on. On the web they
are requests that interleave between two statements, lists read before a
change and shown after it, and failures between two stores. The `hazards` of
`PROJECT.json` list them at the line where each bites.

## 2. Modules

    UsageLedger                the promise of the token pipeline
    SyncPipeline               sync, upload, reset, recovery, crashes; its invariants
      SyncPipelineProofs       theorems, and the refinement of UsageLedger
      MCSyncPipeline           core_commit, core_inductive, core_live
    SessionPipeline            session sync, upload, reset      (session_pipeline)
      SessionProofs            theorems
    Coordinator                notify workers    (coordinator_*, lock_exclusion)
      CoordinatorProofs        theorems
    CliSources                 cli_sources, with its proofs; extends
      JsonlContinuity ClaudeDedup CodexRollouts OpenCodeSources
      HermesSessions GrokUsage
    CliState                   cli_state, with its proofs; extends
      HermesEvidence PreservedRows SessionCollectors SessionStores
      HookInstall NotifyAdmission TokenParsers
      and instantiates AccountingLedger WebIngest
      (both with theorems of their own)
    MCWebSeasons               web_seasons; one part each of
      SeasonRosters SeasonSnapshot SeasonCatalog SeasonBoard LeaderboardPages
      LeaderboardScope UsageCharts SessionAnalytics AdminCompare
      ProfileDialog ProfileSettings
    WebAccounts                web_accounts, with its proofs; extends
      Registration CliLogin LogoStore Organizations OrganizationMembers
      Devices TeamPage PricingSync CacheConsole

**Composites.** Parts that share no state are checked in one run: the
variable `part` names the module a behaviour belongs to, that module's `Next`
is the only one enabled, and the variables of the others stay 0. The values
`x1, x2, ..` are interchangeable and serve each part for its own keys, files or
requests, so one symmetry set is sound for all. A property of such a run is a
conjunction of `part = "p" => Inv`; the names of the conjuncts, and what each
says, are in the modules. The parts end at their bounds, hence
`CHECK_DEADLOCK FALSE`. Three composites are also where the theorems about
their parts stand: `CliSources`, `CliState` and `WebAccounts` extend the part
modules, whose names are therefore distinct per part (`JsonlInit`, `hermesRows`,
`deviceShown`, ..), give for each part its inductive invariant and the lemmas
that prove it, and close with the theorems about the run's properties.
`MCWebSeasons` is only checked.

### SyncPipeline

Data is abstracted to multiplicities. A log file is an inode, a number of
events dropped from its front and a length; event `<<f, i>>` is the i-th event
ever written to file `f`. The queue and the server's table say how often they
count each event (`Counts`), and `KeyOf` gives the bucket of an event, so the
row of a bucket is the restriction of the function to its events. Adding two
rows adds multiplicities: a double count is a 2, a lost event a 0, and every
statement about token totals becomes a statement about multiplicities.

| Variable | File or state |
|---|---|
| `log` | the tools' log files |
| `cursors` | `cursors.json`: per-file inode and offset, known paths |
| `queue`, `qstate` | `queue.jsonl`; `queue.state.json` (offset at start or at end of file; dirty keys, `Null` when the field is absent) |
| `journal` | `sync-commit.json` |
| `server`, `late` | usage rows of the device; given-up requests that may still be applied |
| `stateLock` | `state.lock` (`Orphan`: of a killed process) |
| `pc`, `mem` | control point and local variables of each process's command |

An action is one write to disk (or one request) together with the computation
before it. `ReadJournal .. DropJournal` are the steps of `recoverSyncCommit`,
which every command runs first and sync runs again to apply its own commit;
`Discover, ScanFile, ScanFailed, DetectReplay, Wipe, WriteJournal` are
`executeSyncInternal` (the replay branch wipes the cursors and starts over as
a full scan); `LoadUpload .. ClearDirty` are the upload engine; `Reset*` the
deletions of `executeReset`. `Interrupt` kills the process or fails its write
at any control point; the plain `writeFile` targets (`queue.state.json`,
`cursors.json`) may be torn and then load as empty, the renamed ones
(`queue.jsonl`, `sync-commit.json`) may not. `Create, AppendTo, Replace,
Delete` are the tools, `LoseCursor` a cursor entry lost while its path stays
known. They, and `Interrupt`, are external in the map.

Left out here: token amounts (multiplicities instead), the accounting and
evidence partitions of the commit (`AccountingLedger`, `HermesEvidence`), kept
rows and the schema migration (`PreservedRows`), truncation under the same
inode (`JsonlContinuity`), SQLite drivers and alias paths, the login check,
device revocation (`WebIngest`).

### UsageLedger

The promise, without files, crashes or requests: a ledger counts events, some
keys are marked, the server's rows are copies of ledger rows. `Collect` (an
incremental sync) counts new events once and marks their keys, `Rebuild` (a
full scan or a reset) replaces everything, `Ingest` copies marked rows,
`Unmark` drops the marks only when every marked row is on the server. The
pipeline implements it under

    counted <- Durable.queue      marked <- Marked      server <- server

where `Durable` is what the next command finds once it has redone the journal,
and `Marked` what the next upload would send. That is the exact sense in which
the journal makes a sync atomic: its linearisation point is the rename of
`sync-commit.json`, and each redo step is a stutter.

### SessionPipeline

Session files are parsed as a whole: a file is a version number, a snapshot
the version it was taken of, a cursor the version the file had at its `stat`.
`state.lock` lets one command run at a time (proved for SyncPipeline as `Owner`
in `Inductive`), so there is one control point. `queue` is
`session-queue.jsonl` as the pieces its appends wrote: a torn append leaves
some records and perhaps a fragment, or a record without its newline, and
`Readable` says which lines an upload gets from a given offset, as
`readFromOffset` splits and parses them. `offset` counts pieces, the code
bytes. `StatFile, ParseFile, ParseFailed` are the loop of `sessionSyncLocked`
(the tool may write between any two), `AppendBatch, SaveCursors` its two
writes, `StartUpload .. SaveOffset` the upload engine without record keys,
`Upsert` the server's guarded update, `StartReset .. ResetState` the reset with
its check that every line of the queue parses. `lost` is a history variable:
the sessions whose snapshot was dropped in one of three ways the code permits
(a parser that throws still moves the cursor; a torn append swallows the next
record; a reset killed before it deleted the offset). `NothingElseLost` says
there is no fourth. What the parsers make of a file is in `SessionCollectors`
and `SessionStores`. Left out: antigravity snapshots, rows of retired sources
preserved by reset, clocks that are set back.

### Coordinator

A hook stands for the data its tool wrote before calling it; `hooked` are the
hooks fired, `synced` those some scan has read. Each worker is one process:
`TryLock .. RetryLock, TimeOut` are `acquireLock` and `waitForLock` at the
grain of single file operations (create with O_EXCL, then write the pid; read,
unlink, create again), `Dedup .. CheckSignal` the body of `runCoordinator` and
`runLockedCycles`, `ReadOwnLock, RemoveLock` `releaseLock`, `WriteRunLog` the
success time, written after the lock is gone, `TryTrailing .. FinishTrailing`
the trailing-edge sleeper. Time is abstracted to which successes are still
younger than the cooldown; unless `Slow`, a cooldown (five minutes) outlasts
any run. `overlapped` records that the lock once failed to exclude (finding
below); the properties that rest on exclusion say so. Left out: an
`acquireLock` failing with something other than EEXIST, and pid reuse.

### NotifyAdmission

`hpc`, `handler` are the generated `notify.cjs` processes (sample the clock,
create the gate by exclusive creation, sample again, spawn), `worker` the child
each may have started up to the moment it enters the coordinator, `gates` the
directory `notify-admission/`, `calling` the forwarded commands that may call
pew again. A worker waits for the end of its bucket, lists the gates and
unlinks the old ones one by one. `Scan` is a single step here; `Coordinator`
has its parts.

### AccountingLedger and WebIngest

An annotation is a record of `core/src/accounting.ts` with its revision,
client and the row it adds up to. `AccountingLedger` plans, journals, merges,
enriches, uploads and resets it, with kills between the writes and requests
that are applied late; `excused` marks buckets whose row changed while the
annotation could not follow, `swallowed` those acknowledged while the device
was revoked. `WebIngest` follows one upload through the route and the worker
and back: batches, retries, positions of receipts (`Slots`, `Merged`),
refusals, lost answers, rows that arrive late.

### HookInstall, HermesSessions, HermesEvidence, JsonlContinuity

Four modules abstract their data in a way worth knowing before reading them.
The hook entries of Claude's `settings.json` are counts per kind: of the
user's own, of pew's, and of those that hold both commands. Codex's
`config.toml` may be missing, and OpenClaw's configuration may not parse: both
drivers then skip, and what an uninstall leaves behind this way is in `missed`.
`HermesSessions`
keeps, per session, the tokens Hermes spent (`spent`) and those a restored
database has over the one before (`regained`): a row never claims more than
both together, and falls short of the totals in its cursor only where a walk
over the database threw after it had moved that cursor in place (`thrown`). In
`HermesEvidence` the row of Hermes's ledger is the set of the calls it includes,
a sum over records the number of units they are made of, and the calls matched
in the log are the one set that taking them in order ends with. In
`JsonlContinuity` a log is a sequence of bytes, each of which names the event it
is part of, and a cursor's continuity anchors are the set of the last events
before its offset.

### SeasonRosters

One season, its teams and the requests about them, each a sequence of reads and
writes. `Register` is the whole of `POST .../register`: the checks, the batch,
and the undoing of a batch that failed or whose answer was lost, which deletes
by their UUIDs (`own`) first the roster rows and then the registration that
this request wrote. A lost batch may be applied before the undoing, between its
two deletions, after them, or never; the request may also stop anywhere, the
undoing included (`Vanish`).

The batch itself is one transaction. The comment at `register/route.ts:109-113`
says that it is not; the model follows the later
`../docs/18-season-system.md:403` ("D1 REST batches now use a single native
transaction"), `snapshot/route.ts:15`, `../CHANGELOG.md:151` and the client, which
sends all statements in one request (`web/src/lib/d1.ts:112-127`). Were it not,
a registration that stops in the middle of its batch could leave a season team
with half a roster, which the model does not show.

`strayed` holds the roster rows that are written while the registration of
their team is going, by a withdrawal or by such an undoing, or after it is
gone; nothing in the code takes these away again. `NoOrphanOnRoster` excuses
exactly these rows. `confirmed` holds the teams whose owner was told that they
are registered: `AcceptedStays` says that no failed request beside takes such a
registration away. The run follows any two requests, side by side or one after
the other, from each of the initial states.

### UsageCharts, SeasonBoard, PricingSync

`UsageCharts` has no row of Hermes, whose merged cache bucket `accounting.ts`
treats apart (`:114, :129, :174`), prices depend on the model and not on the
source, and annotations are well formed (one group, natural numbers), so that
the validation at `accounting.ts:35-36` never refuses one; the other refusal, a
row smaller than its annotations, is modelled. `SeasonBoard` is one mounting of
the page: the hook's comment (`use-season-leaderboard.ts:69-79`) speaks of a
reset when the season changes, but its effect runs on mounting only, which is
enough because the page is mounted per slug. In `PricingSync` a run reads the
two keys of the last fetch one after the other, as it reads the feeds.

### The other parts

Each module starts with what it stands for and what it leaves out. All of them
keep the control of the code they map (every early return, error path and the
order of writes) and reduce payloads to model values or small numbers. History
variables named in a property (`returned, forgotten, lostKeys, overlapped,
early, late, unseen, thrown, shrunk, misled, mixed, masked, cut, basisLost,
raced, missed, strayed, leftover, ..`) record that a known exception of the code
happened; the property then says that there is no other. Where the exception is
itself the outcome a hazard of `PROJECT.json` describes, the hazard's note says
so: there the project shows how far the damage goes, not that it is prevented.

## 3. Runs

| Run | Instance | Shows |
|---|---|---|
| `core_commit` | 1 process, 2 files x 2 events in 2 shared buckets, 1 fault, 1 retry | `TypeOK`, `CountedOnce`, `MarksFit` (the invariant behind the refinement) and `ImplementsLedger` (the refinement itself) |
| `core_inductive` | 2 processes, 1 file x 2 events, 2 inodes, 2 faults, 1 late request | `Inductive`, the invariant of the proofs, and `NeverInflated` |
| `core_live` | 2 processes, 1 file x 2 events, 2 inodes, 1 fault, fair | `PendingIsMarked` with competing commands, `EventuallyUploaded` |
| `session_pipeline` | 2 sessions, 2 writes, 1 fault, 1 late request, batches of 1, fair | `TypeOK`, `NothingElseLost`, `NewestWins` |
| `coordinator_signal` | 3 workers, cooldown, slow runs | `TypeOK`, `SignalKept`, `SyncedUnlessTurnedAway`, `DedupIsSafe`, `NoLockLeftBehind` |
| `coordinator_exit` | 2 workers, 1 kill, busy `state.lock`, slow runs, fair | `EveryWorkerExits` |
| `lock_exclusion` | 3 workers | violates `MutualExclusion` (finding) |
| `cli_sources` | 6 readers: 1-2 files or sessions, 2 messages or models, 1-2 mishaps each | `CountedAtMostOnce`, `NothingLost`, `CountedForItsModel` |
| `cli_state` | 9 parts: 2 keys or files each, 3 hook handlers, 2 requests, 1-2 faults | `NeverConflicting`, `UnmarkedIsStored`, `RowsTellTheTruth`, `OneChildPerBucket`, `NoLostWakeup`, `HooksAreSafe`, `NeverOlder` |
| `web_seasons` | 11 parts: 2-3 people, 2 teams, 2 concurrent requests or snapshots | `SeasonsAreSound`, `FrozenIsSound`, `OnlyEntitledSee`, `NumbersAgree`, `PagesAreTrue`, `SeasonsKeepTheirTerms`, `OnlyPublicToMembers`, `AsWasAsked` |
| `web_accounts` | 9 parts: 2 people, machines, admins or tabs, 1 failure each | `CodesAreSpentOnce`, `ReferencesAreSound`, `PagesAreTrue`, `PricesAreSound`, `OthersWorkIsKept` |

The largest state spaces are those of `cli_sources` (2 568 054 distinct states),
`cli_state` (2 348 532), `core_commit` (871 243) and `coordinator_signal`
(700 987). Every property of a
passing run has a mutant in `PROJECT.json`: a plausible bug in a mapped
definition under which the run finds that property violated. In the map, a
helper without state whose lines lie inside those of the definitions that use
it, and the faults of the environment, have no entry of their own.

Bounds. Two events in a file suffice for "before the cursor" and "after it",
and two buckets for "this row changed, that one did not"; two files for a
discovery that finds one and misses the other; two inodes for a replacement; a
batch of one record makes every two-row upload a partial one when it stops in
between. One fault between any two writes already reaches every mixture of old
and new files; with two (`core_inductive`) a recovery is itself interrupted.
Two session writes are either two versions of one file or one file each; both
together is where rows of one batch separate. Two workers race for a lock; the
third is needed for a waiter that arrives while one leaves and another enters.
Three handlers are a winner, a loser and one of another bucket. Two requests
under way are an abandoned one and its retry. Every bound is a constant whose
name starts with `Max` (or `Last`, `Limit`) in the module that uses it;
`MaxRetries`, `MaxFollowUps`, `MaxAttempts`, `MaxMembers`, `Cap`, `AnchorCount`
and the page sizes exist in the code, with larger values.

The `core_*` and `session_*` runs check deadlock: some command can always
start. The others stop at their bounds, or, in the coordinator runs, when all
workers have gone.

Fairness. A started command keeps running (one event loop, and every await
returns: files by the operating system, requests by their timeout), hence weak
fairness of each process. Hooks and users keep starting syncs and uploads
(strong fairness of `Start`, since the lock comes and goes), an operator
removes the `state.lock` of a killed process, as the code asks for, and
`EventuallyUploaded` assumes in addition that `Trouble` (faults, failed
requests, unreadable or undiscovered files, resets) stops some day. In the
coordinator workers keep running and time passes; hooks and kills need not
happen.

## 4. Finding and observations

**lock_exclusion.** `lockfile.ts:4` promises mutual exclusion. `acquireLock`
creates the lock and writes its pid in two steps, a file without a pid counts
as stale, and a stale file is removed by path: two workers hold the lock at
once. `state.lock` still keeps their scans apart, so this costs duplicate
cycles and the guarantees stated with `overlapped`, not counts.

Cases the code permits, each an explicit exception of a property:

* A request that timed out at the client can be applied after a newer one: the
  upsert of usage rows has no version, so an old row comes back and stays until
  its bucket changes (`NeverInflated` holds all the same; `PendingIsMarked`
  and the refinement need `MaxLate = 0`).
* The signal is emptied before `executeSync` finds `state.lock` taken
  (`coordinator.ts:274`): that notification is remembered nowhere (`SignalKept`
  needs `Busy = FALSE`).
* The success time is written after the lock is released, so a trailing worker
  can wake into the cooldown of a success that did not read its data
  (`notify.ts:247`; "turned away" in `SyncedUnlessTurnedAway`).
* Reset deletes `session-queue.jsonl` before its offset: killed in between, it
  leaves snapshots below an offset (`lost`). It also refuses to run on a corrupt
  line (`reset.ts:56`), although `base-queue.ts:97-98` names it as the remedy.
* A log whose path vanished, was pruned, and comes back with its old content is
  counted again (`prune-alias-cursors.ts`, accepted there; `returned`).
* A Codex child forked from a rollout that no cursor remembers any more gets a
  scope of its own (`astray`, `lostKeys`); an OpenCode message that is in the
  database before its file can be read is counted from both (`overlapped`).
* A session that was the latest of a pass over the OpenCode database, and is
  the latest again when it changed, is taken for unchanged (`masked`); a Copilot
  marker that ends a pass loses its block (`cut`).
* Annotations and rows acknowledged while a device is revoked are not stored
  (`swallowed`, `revoked`).
* A member whose join is synchronised while the registration goes stays on the
  roster of a team that is not registered, and is kept out of the season
  (`strayed`). A withdrawal deletes the roster before the registration
  (`register/route.ts:258`); a registration whose batch was applied but whose
  answer was lost is undone row by row (`:129-151`), and the row the
  synchronisation added is not among its rows.
* A row of a user who left a team is subtracted from a frozen total
  (`leftover`).

## 5. Proofs

Nothing is assumed but the named assumptions of a module's constants and the
hypotheses in a theorem's own ASSUME. The assumptions of the composites are few:
`ForksMakeTrees` (every Codex thread has a parent, and with any set of threads
forked off, each of the rest has one root), `JsonlAssumption` (a cursor keeps at
least one anchor, and there is something to write), `PreservedAssumption` (a row
is of one source, and there is something to count), `CollectorAssumption` (no
session's id is a file's name), `StoreAssumption`, `IngestAssumption` (the mark
for "none" is no session and no request), `AdmissionAssumption` (a bucket
lasts); and in `WebAccounts` that the marks for nobody, no device and no logo
are none of them, `ExistingAssumption` (at the start there is at most one
organization, so that no two begin with the same slug), `MembersAssumption` (users
can be counted, as the page does), `FeedsAssumption` (an upstream has something to
answer) and `ConsoleAssumption` (sizes and limits are numbers).

### Token pipeline (SyncPipelineProofs, UsageLedger)

For any sets of processes, files and keys, any bounds and any batch size, from
`ConstantsAssumption`:

| Theorem | Statement |
|---|---|
| `InductiveInvariant` | `Spec => []Inductive` |
| `TypeCorrect` | `Spec => []TypeOK` |
| `NeverCountedTwice` | `Spec => []CountedOnce` |
| `ServerNeverInflated` | `Spec => []NeverInflated` |
| `MarksAreKept` | `MaxLate = 0`: `Spec => []MarksFit` |
| `LedgerImplemented` | `MaxLate = 0`: `Spec => ImplementsLedger` |
| `NothingForgotten` | `MaxLate = 0`: `Spec => []PendingIsMarked` |

`CountedOnce` alone is not inductive: it says nothing of a half-redone commit
or of the plan in a scanner's memory. `Inductive` adds that only the owner of
`state.lock` is inside a command (`Owner`); that a present journal would put a
sound pair of queue and cursors on disk (`JournalFits`); that the steps already
redone are on disk (`ProcFits`); that the cursors a scan has built so far agree
with the queue it would write now, and that files still to do are as they were
loaded (`ScanFits`); and that cursors never point past a log (`CursorsFit`).
The heart of the argument is `ScanFile` (one more file moves its cursor and its
events into the plan, keeping the two in agreement), `WriteJournal` (the plan
becomes the journal, pruning only forgets paths that have nothing left to
parse) and the redo steps (absolute writes, so redoing them from any point
gives the same pair). There is one lemma per action.

The refinement maps every step to one step of the ledger or none, each in a
lemma of its own: writing a journal is a `Collect` or a `Rebuild`, redoing it
is a stutter because `Durable` and `Marked` already look through it, a request
is an `Ingest`, the last write of an upload an `Unmark`, and losing
`queue.state.json` marks every row. `Inductive` does not say enough about
uploads for this; `MarksFit` adds what a recovery has already redone of the
marks, that the rows and the batch of an upload are those of the queue, and
that every marked row outside its remaining requests equals the server's.
`MaxLate = 0` excludes only a request that is applied after the client gave it
up; with one the refinement is false (section 4). `NothingForgotten` then is
not proved again: it is the lemma `NothingIsForgotten` about `UsageLedger`
(which, like `LedgerTypeCorrect`, holds for any keys and events) seen through
the refinement.

### Coordination of workers (CoordinatorProofs)

| Theorem | Statement |
|---|---|
| `TypeCorrect` | `Spec => []TypeOK` |
| `LockFilesFit` | `Spec => []LocksFit` |
| `ExitsClean` | `Spec => []NoLockLeftBehind` |
| `SignalHolds` | `Busy = FALSE`, `MaxCrashes = 0`: `Spec => []SignalFits` |
| `SignalNeverLost`, `DedupLosesNothing`, `QuietMeansSynced` | the same hypotheses: `SignalKept`, `DedupIsSafe`, `SyncedUnlessTurnedAway` |

The first three hold for any number of workers, timeouts and kills. `LocksFit`:
a lock file that names a worker was created by that worker, and without a pid
it is still being filled, so a worker that reads its own lock before removing
it (`releaseLock`) leaves nothing. `SignalFits` adds what each outcome stands
for. Its two hypotheses are those under which the claims are true: a busy
`state.lock`, or a worker killed after it emptied the signal, does lose a
notification. It does not assume that the lock excludes; the claims are made
as long as it has.

### Session pipeline (SessionProofs)

`TypeCorrect` (`TypeOK`), `SessionsFit` (`SessionFits`) and `OnlyKnownLosses`
(`NothingElseLost`), without further hypotheses. `NothingElseLost` is not
inductive: a record whose newline was not written is readable now and swallowed
by the next append. So `CursorsFit` asks more: what a cursor claims must be on
the server or in a record that no append can touch any more. `StatsFit` keeps
cursors and stats from running ahead of their files, `SyncFits` makes the same
demand of the cursors in a sync's memory once their snapshots are appended, and
`UploadFits` of the rows to be sent before the offset moves over them.

### Accounting ledger (AccountingLedger)

| Theorem | Statement |
|---|---|
| `LedgerIsSound` | `Spec => []LedgerFits` |
| `NoConflict` | `Spec => []NeverConflicting` |
| `MarksAreKept` | `Spec => []IntentKept` |
| `DetailsDescribeRow` | `Spec => []DetailsFollowRow` |
| `NeverGoesBack` | `Spec => NeverOlder` |

Copies of an annotation, on the server and in late requests, precede the one in
the ledger (`CopiesFit`); a journal follows the ledger it will be merged into,
or is what has been merged already (`JournalFits`); marks cover every
difference between ledger and server (`MarksFit`); rows are described by what
the journal will leave (`RowsFit`). The proof attempt found an error in the
model: a commit dropped a bucket from the history variable `excused` whenever
it planned a new annotation for it, also an older client's, which the merge
does not write over a newer client's; it now asks for that.

### Upload of annotations (WebIngest)

With `None \notin Request`, for any keys, kinds, batches, retries and requests
under way: `IngestIsSound` (`IngestFits`) and `MarkDroppedIsStored`
(`AcceptedIsStored`). A receipt the client would accept is `Honest` if the record
it names is stored in that revision or a later one, or the device is revoked;
that stays true as revisions grow
(`AnswersFit`), which is why an answer may be read long after it was made.
`MineFits` says that the request the client waits for carries the batch it is
sending, with the revisions of its ledger, so that `SentIsStored` can be
concluded when the answer is taken; `RowsFit` that the server is never ahead.
`WholeAnswerIsAccepted` (`StoredIsAccepted`) is the converse: an answer for the
whole batch lets the client accept every record of it that the worker did not
refuse. A record's receipt stands where the record stands among those forwarded,
so `AllReceiptsFit` needs that this count of a prefix gives each record a place
of its own (`SlotIsItsOwn`), which follows from cardinalities of subsets.

The lemmas cited throughout: highest versions through well-founded induction
over the naturals (`WFMin` with `NatLessThanWellFounded`), cardinalities through
`FiniteSetTheorems`.

### The readers (CliSources)

| Theorem | Statement |
|---|---|
| `NothingIsCountedTwice` | `Spec => []CountedAtMostOnce` |
| `NothingIsLost` | `Spec => []NothingLost` |
| `ModelsAreRight` | `Spec => []CountedForItsModel` |

for any sets of files, sessions, messages and models and all bounds. Each
reader has an invariant of its own, proved with one lemma per action:

* **JSONL logs** (`JsonlFits`). Nothing a reader asks of an offset survives a
  rewritten log, so the invariant goes by what anchors and offset say *together*
  (`OffsetFits`): what is taken of a log lies behind its cursor's offset and not
  after its anchors, and everything up to an anchor is settled. A log loses a
  prefix or gains bytes that were still ahead of it, and both keep that. While a
  log is read, `SliceFits` holds the bytes hashed before the parse against those
  of the verify: they are still in their place, or the verify fails.
* **Claude's messages** (`ClaudeFits`). A counted message is in the ring of a
  cursor, or forgotten by a full ring, or no ring can be trusted and the next
  sync is a full one; a running sync has seen all the rings remember.
* **Codex rollouts** (`CodexFits`). A token edge is counted once and is known in
  the scope of its root, for the cursors and scopes on disk and, during a scan,
  for those it would commit. Proving it found an error in the model: the
  guards of `Open` grouped their alternatives otherwise than the code does.
* **OpenCode's two stores** (`OpenCodeFits`). Whatever the cursors say was
  counted of a message is what its row has; a directory with the time last seen
  holds what was read of it.
* **Hermes** (`HermesFits`). With what a walk would now add, a row is within
  what was spent and regained. TLC found the first version of the claim
  (without `regained`) false once a session may reach a total of 3; the code
  counts the increases of a total that was set back in place.
* **Grok** (`GrokFits`). Totals are read before the length of the log, and the
  timelines last, so that a turn in the log has its timeline entry when it is
  looked up.

The proof of the JSONL reader found a second error in the model: the end of the
parsed slice was taken from the log at the time of the verify, where the code
uses what the parse read (`at.bound` now keeps it).

### What else the client keeps (CliState)

| Theorem | Statement |
|---|---|
| `OneChild` | `Spec => []OneChildPerBucket` |
| `LosersAreScanned` | `Spec => []NoLostWakeup` |
| `MarksStandForUploads` | `Spec => []UnmarkedIsStored` |
| `HooksStaySafe` | `Spec => []HooksAreSafe` |
| `NothingConflicts` | `Spec => []NeverConflicting` |
| `NothingGoesBack` | `Spec => NeverOlder` |
| `RowsAreTrue` | `Spec => []RowsTellTheTruth` |

Accounting and ingest enter with the theorems of their modules. Of the others:

* **Hook handlers** (`AdmissionFits`, `AdmissionIsSound`), for any set of
  handlers, infinite ones included, any clock and any faults. That there is one
  child per bucket (`OneChildEach`) rests on gate files that other workers
  delete. `GatesHeld` says that while a bucket lasts its gate is there and has
  one holder, because clean-up removes only gates that are `Grace` buckets old; a
  handler that was paused past the bucket may create the file again, but then
  finds itself late and starts nothing. `GatesMade` gives every loser the
  creator that beat it, which `OnlyExcusedUnscanned` needs. `LoopFits` counts:
  every call back uses up a forwarded command, and forwarded commands map one to
  one into the buckets so far (`LoopContained`).
* **Preserved rows** (`PreservedFits`). A row of the server that still is the
  inflated one of the old schema has its replacement marked, or is among the
  keys that the running migration has noted; an emptied row belongs to logs
  that are gone for good.
* **Hooks** (`HooksFit`). A wrapper that would call pew holds Codex's slot, and
  pew's backup exists, but for the case the code accepts (`bare`); a driver that
  has finished an uninstall has left no hook behind, unless it warned
  (`DriversFit`); `settings.json` is what the driver read until it writes it,
  unless the user edited it in between (`raced`).
* **Hermes evidence** (`EvidenceFits`). The row includes the calls the records
  account for unless it was set back; the baseline's revision is one more than
  the sum of all counters, and intervals end at revisions already reached. So a
  record of the same revision has the same content.
* **Session collectors** (`CollectorFits`). A row is of what some file tells, or
  told when it was shorter, and is what the file tells once it was read to its
  end; a session is told of in one file only (otherwise `mixed`).
* **Session stores** (`StoresFit`). Files are read until the cursor has their
  stamps. For the database, after a query the watermark is at the latest stamp
  with all the ids that have it (`Settled`), and a session that is neither
  current nor masked is one a pass is about to read (`Due`).
* **Token parsers** (`ParsersFit`). The lines of a log follow one another as the
  tools write them; a counted line lies behind the offset, once, and what one
  pass would count is counted, or begins at a cut. The parser of Copilot's log is
  a recursive function; that it exists, and what its state is after each line
  (`ReadFits`), is shown by looking at the least line for which it would fail.

### Accounts and pages of the web (WebAccounts)

| Theorem | Statement |
|---|---|
| `AccountsHold` | `Spec => []AccountsFit` |
| `NoCodeCountsTwice` | `Spec => []CodesAreSpentOnce` |
| `NothingDangles` | `Spec => []ReferencesAreSound` |
| `QuietPagesTellTheTruth` | `Spec => []PagesAreTrue` |
| `NobodysWorkIsUndone` | `Spec => OthersWorkIsKept` |

`AccountsFit` is the conjunction of the nine parts' invariants:

* **Sign-up** (`RegistrationFits`). How far a sign-in has come says whether the
  person has a user and a linked account (`FlowsFit`); a code that can still be
  had was never consumed (`UnspentFits`), and a code that stays pending belongs
  to a sign-in under way or to one that failed (`PendingFits`).
* **Login** (`LoginFits`). What a request has got is the account's key, no key, or
  one that a browser login wrote over; a code that let a request in is used.
* **Logos** (`LogosFit`). A row refers to an object whose own request has
  finished its write (`LogoFits`), and a request removes only what no row
  refers to; an object that no row refers to is on its way in or out, or a named
  failure explains it (`ObjectFits`).
* **Organizations** (`OrgFits`). A field that nobody typed holds what the row said,
  unless the row was fetched again under the open form, and an administrator's
  task sends a subset of the typed fields.
* **Members** (`MembersFit`). Of the two lists of the page, counts and own
  memberships, each is current, or the newest request for it will bring what is
  there (`CountsFit`, `MineFits`); overrides exist only while such a request is
  under way.
* **Devices** (`DeviceFits`). A tab's own change that it does not see yet is
  unanswered, or the newest list it waits for has it, or the tab was told of a
  failure (`WorkFits`); a text nobody typed is the name shown (`FieldFits`).
* **The team page** (`TeamFits`). The switch shows what was last asked for, the
  row its override or what every list under way says, and the dialog's word
  goes by the list it showed (`WordFits`).
* **The cache console** (`ConsoleFits`), for any number of keys, page size and
  limit: a listing has found, up to its cursor, what was there all the time
  (`ReadingFits`), and a clearing has left behind its cursor only what was put
  there since (`ClearingFits`).
* **Prices** (`PricesFit`), for the action property: while runs do not overlap,
  what a run has got of a source is there exactly if the source's last list is
  kept.

### What stays with TLC

* Liveness (`EventuallyUploaded`, `NewestWins`, `EveryWorkerExits`): fairness
  and ENABLED are outside the prover's reach.
* `PricesAreSound`. The price table is a fold over the lists of the feeds
  (`FoldLeft`), so that `FloorHolds` and `RateOfEachRoute` say what an induction
  over data computes; for all feeds they would also need that every model id
  carries a provider and that a list names a model once, which upstreams do not
  promise. The other two conjuncts belong to the same property.
* The properties of `web_seasons`: its eleven parts are checked, not proved.
* `MutualExclusion` is false (section 4) and is not proved.

## 6. Not modelled, and what is next

Not modelled: the rate limiter of the web service (a counter per key in one
server's memory), parsing and normalisation of record formats, the evidence of
the Claude parser, antigravity parsing, `status`, `update` and the command
table, layout and the pages that only read, telemetry, release scripts,
generated code and migrations other than those the map names.

Next: theorems for the parts of `web_seasons`, first the rosters and the frozen
snapshots (`SeasonsAreSound`, `FrozenIsSound`), by the same construction as those
of `WebAccounts`.
