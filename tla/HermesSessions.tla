--------------------------- MODULE HermesSessions ---------------------------
(***************************************************************************)
(* Hermes keeps cumulative totals per session in SQLite.  The driver turns *)
(* them into deltas against the totals of its cursor, which it updates in  *)
(* place while it walks the rows.                                          *)
(***************************************************************************)
EXTENDS Integers, FiniteSets

CONSTANTS
    Session,
    Broken,       \* sessions whose start is no date: the row the walk throws at
    MaxHermesTotal,     \* bound: a session's total
    MaxHermesMishaps    \* bound: restored, replaced and unreadable databases, crashes, deletions

NoTokens == [s \in Session |-> 0]
NoHermesCursor == [ino |-> 0, totals |-> NoTokens]
Increase(now, last) == IF now > last THEN now - last ELSE 0

VARIABLES
    total,        \* the rows of sessions: the total, 0 also when deleted
    backup,       \* what a restore of the database brings back
    ino,          \* the inode of state.db
    hermesSaved,        \* the cursor in cursors.json
    hermesRows,         \* tokens the queue holds per session
    hermesPhase, hermesFull,
    hermesCur, hermesDelta,   \* the cursor object of the running sync and its deltas
    hermesMishaps,
    spent, regained, \* history: tokens Hermes spent; tokens a restored database has over the one before
    thrown        \* history: sessions walked before a throw

hermesVars == <<total, backup, ino, hermesSaved, hermesRows, hermesPhase, hermesFull, hermesCur, hermesDelta, hermesMishaps, spent, regained, thrown>>
hermesSync == <<hermesSaved, hermesRows, hermesPhase, hermesFull, hermesCur, hermesDelta>>

-----------------------------------------------------------------------------
(* Hermes.                                                                 *)

Spend(s) ==
    /\ total[s] < MaxHermesTotal /\ spent[s] < MaxHermesTotal + 1
    /\ total' = [total EXCEPT ![s] = @ + 1] /\ spent' = [spent EXCEPT ![s] = @ + 1]
    /\ UNCHANGED <<hermesSync, backup, ino, hermesMishaps, regained, thrown>>

HermesMishap == hermesMishaps < MaxHermesMishaps /\ hermesMishaps' = hermesMishaps + 1

Backup == backup # total /\ backup' = total /\ UNCHANGED <<hermesSync, total, ino, hermesMishaps, spent, regained, thrown>>

\* The database goes back in time, in place or as another file.
Restore ==
    /\ HermesMishap /\ total' = backup
    /\ ino' \in {ino, ino + 1}
    /\ regained' = [s \in Session |-> regained[s] + Increase(backup[s], total[s])]
    /\ UNCHANGED <<hermesSync, backup, spent, thrown>>

DeleteSession(s) ==
    /\ HermesMishap /\ total[s] > 0 /\ total' = [total EXCEPT ![s] = 0]
    /\ UNCHANGED <<hermesSync, backup, ino, spent, regained, thrown>>

-----------------------------------------------------------------------------
(* The sync.                                                               *)

Listed == {s \in Session : total[s] > 0}

StartHermes ==
    /\ hermesPhase = "idle" /\ hermesPhase' = "walk" /\ hermesDelta' = NoTokens
    /\ hermesFull' = (hermesSaved = NoHermesCursor) /\ hermesCur' = hermesSaved
    /\ UNCHANGED <<total, backup, ino, hermesSaved, hermesRows, hermesMishaps, spent, regained, thrown>>

HermesReplaced == hermesCur # NoHermesCursor /\ hermesCur.ino # ino

\* Another file: all cursors go and everything is scanned.
Cleared(c) == NoHermesCursor
RestartHermes ==
    /\ hermesPhase = "walk" /\ HermesReplaced
    /\ hermesSaved' = Cleared(hermesCur) /\ hermesCur' = hermesSaved' /\ hermesFull' = TRUE
    /\ UNCHANGED <<total, backup, ino, hermesRows, hermesPhase, hermesDelta, hermesMishaps, spent, regained, thrown>>

\* parseHermesDatabase.  It throws at a session with no date, when that has
\* a delta, after some of the others; the cursor it was given keeps them.
Walk ==
    /\ hermesPhase = "walk" /\ ~HermesReplaced /\ hermesPhase' = "commit"
    /\ LET due == {s \in Listed : Increase(total[s], hermesCur.totals[s]) > 0}
       IN  IF due \cap Broken = {}
           THEN /\ hermesDelta' = [s \in Session |-> IF s \in due THEN Increase(total[s], hermesCur.totals[s]) ELSE 0]
                /\ hermesCur' = [ino |-> ino, totals |-> [s \in Session |-> IF s \in Listed THEN total[s] ELSE hermesCur.totals[s]]]
                /\ UNCHANGED thrown
           ELSE \E done \in SUBSET (due \ Broken) :
                /\ hermesCur' = IF hermesCur = NoHermesCursor THEN hermesCur
                          ELSE [hermesCur EXCEPT !.totals = [s \in Session |-> IF s \in done THEN total[s] ELSE @[s]]]
                /\ thrown' = IF hermesCur = NoHermesCursor THEN thrown ELSE thrown \cup done
                /\ UNCHANGED hermesDelta
    /\ UNCHANGED <<total, backup, ino, hermesSaved, hermesRows, hermesFull, hermesMishaps, spent, regained>>

\* The database file is not there or cannot be opened: the cursor stays.
Unreadable ==
    /\ HermesMishap /\ hermesPhase = "walk" /\ hermesPhase' = "commit"
    /\ UNCHANGED <<total, backup, ino, hermesSaved, hermesRows, hermesFull, hermesCur, hermesDelta, spent, regained, thrown>>

\* A full scan replaces the queue.
Carried(s) == IF hermesFull THEN 0 ELSE hermesRows[s]

CommitHermes ==
    /\ hermesPhase = "commit" /\ hermesPhase' = "idle" /\ hermesFull' = FALSE
    /\ hermesSaved' = hermesCur
    /\ hermesRows' = [s \in Session |-> hermesDelta[s] + Carried(s)]
    /\ hermesCur' = NoHermesCursor /\ hermesDelta' = NoTokens
    /\ UNCHANGED <<total, backup, ino, hermesMishaps, spent, regained, thrown>>

CrashHermes ==
    /\ HermesMishap /\ hermesPhase # "idle" /\ hermesPhase' = "idle" /\ hermesFull' = FALSE /\ hermesCur' = NoHermesCursor /\ hermesDelta' = NoTokens
    /\ UNCHANGED <<total, backup, ino, hermesSaved, hermesRows, spent, regained, thrown>>

HermesInit ==
    /\ total = NoTokens /\ backup = NoTokens /\ ino = 1 /\ hermesSaved = NoHermesCursor /\ hermesRows = NoTokens
    /\ hermesPhase = "idle" /\ hermesFull = FALSE /\ hermesCur = NoHermesCursor /\ hermesDelta = NoTokens /\ hermesMishaps = 0
    /\ spent = NoTokens /\ regained = NoTokens /\ thrown = {}

HermesNext ==
    \/ \E s \in Session : Spend(s) \/ DeleteSession(s)
    \/ Backup \/ Restore \/ StartHermes \/ RestartHermes \/ Walk \/ Unreadable \/ CommitHermes \/ CrashHermes

HermesSpec == HermesInit /\ [][HermesNext]_hermesVars

-----------------------------------------------------------------------------
(* Properties.                                                             *)

\* Whatever is restored, replaced, deleted or rescanned, a session's row
\* never claims more than Hermes spent and what restored databases put back:
\* a total that goes down and up again in place is counted by its increases
\* (hermes-sqlite.ts:175-185), so tokens that a restore brings back can be
\* counted again, and no others.
NeverMoreThanSpent == \A s \in Session : hermesRows[s] <= spent[s] + regained[s]

\* Between syncs a row holds all that the totals of the cursor stand for: it
\* falls short of them only where a walk that threw had moved the cursor in
\* place and left the deltas behind.
NothingBehindTotals ==
    hermesPhase = "idle" => \A s \in Session : hermesRows[s] < hermesSaved.totals[s] => s \in thrown
=============================================================================
