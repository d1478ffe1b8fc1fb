----------------------------- MODULE SessionStores -----------------------------
(* What the session drivers make of the stores that tools rewrite in place:  *)
(* OpenCode's directory of message files and its database, and Grok's        *)
(* directory with a summary and signals.  A store is read again when its     *)
(* stamp has changed - the time of the directory, of the session's row or of *)
(* the summary - and not everything that changes a session changes its stamp.*)
EXTENDS Integers, Sequences, FiniteSets, FiniteSetsExt

CONSTANTS StoreId, MaxClock, MaxMessages

StoreKinds == {"json", "sqlite", "grok"}
NoStoreRow == [total |-> 0]

VARIABLES
    storeKind,      \* the store
    storeNow,       \* the clock, in milliseconds
    msgs,      \* the messages of each session: role, start, end, and whether it can be parsed
    stamp,     \* the time of the directory, of the session's row, of the summary; 0 before there is one
    summary,   \* Grok: how many messages the summary speaks of
    signals,   \* Grok: how many messages the signals speak of, and whether they can be parsed
    inode,     \* which file the database is
    storeCursor,    \* what the last pass has left: a time for each session, or a watermark and its ids
    storeBatch,     \* the sessions that a pass over the database is about to read
    storeRows,      \* the row of each session
    emitted,   \* the sessions that the last pass gave a snapshot of
    quiet,     \* history: passes since the store last changed
    stamped,   \* history: the session's last change came with a stamp it did not have
    masked     \* history: a new stamp of the session was passed over

env == <<storeKind, storeNow, msgs, stamp, summary, signals, inode>>
reader == <<storeCursor, storeBatch, storeRows, emitted>>
storeVars == <<env, reader, quiet, stamped, masked>>

Idle == {"idle"}

StoresInit ==
    /\ storeKind \in StoreKinds /\ storeNow = 1 /\ inode = 1
    /\ msgs = [i \in StoreId |-> <<>>] /\ stamp = [i \in StoreId |-> 0]
    /\ summary = [i \in StoreId |-> 0] /\ signals = [i \in StoreId |-> [count |-> 0, whole |-> TRUE]]
    /\ storeCursor = [times |-> [i \in StoreId |-> 0], last |-> 0, ids |-> {}, inode |-> 0]
    /\ storeBatch = Idle /\ storeRows = [i \in StoreId |-> NoStoreRow] /\ emitted = {} /\ quiet = 0
    /\ stamped = [i \in StoreId |-> FALSE] /\ masked = {}

-----------------------------------------------------------------------------
(* The tools.                                                              *)

StoreChanged(i, new) == quiet' = 0 /\ stamped' = [stamped EXCEPT ![i] = new] /\ UNCHANGED <<reader, masked>>

StoreTick == storeNow < MaxClock /\ storeNow' = storeNow + 1 /\ quiet' = 0
        /\ UNCHANGED <<storeKind, msgs, stamp, summary, signals, inode, reader, stamped, masked>>

\* Bound: messages of a session, or of all that share a directory.
HasRoom(i) ==
    MapThenSumSet(LAMBDA j : Len(msgs[j]), IF storeKind = "json" THEN StoreId ELSE {i})
        < IF storeKind = "json" THEN 2 * MaxMessages ELSE MaxMessages

\* A new file in a directory is a change of the directory; a new row of the
\* message table is none of the session's row.
AddMessage(i) ==
    /\ HasRoom(i)
    /\ \E role \in {"user", "assistant"}, whole \in (IF storeKind = "json" THEN BOOLEAN ELSE {TRUE}) :
           msgs' = [msgs EXCEPT ![i] = Append(@, [role |-> role, start |-> storeNow, end |-> 0, whole |-> whole])]
    /\ stamp' = IF storeKind = "json" THEN [stamp EXCEPT ![i] = storeNow] ELSE stamp
    /\ StoreChanged(i, storeKind = "json" /\ storeNow > stamp[i])
    /\ UNCHANGED <<storeKind, storeNow, summary, signals, inode>>

\* The last message is written again: whole, and with its end.
CompleteMessage(i) ==
    /\ storeKind # "grok" /\ msgs[i] # <<>> /\ msgs[i][Len(msgs[i])].end = 0
    /\ msgs' = [msgs EXCEPT ![i] = [j \in DOMAIN @ |-> IF j < Len(@) THEN @[j]
                   ELSE [role |-> @[j].role, start |-> @[j].start, end |-> storeNow, whole |-> TRUE]]]
    /\ StoreChanged(i, FALSE) /\ UNCHANGED <<storeKind, storeNow, stamp, summary, signals, inode>>

TouchSession(i) ==
    /\ storeKind = "sqlite" /\ stamp' = [stamp EXCEPT ![i] = storeNow]
    /\ StoreChanged(i, storeNow > stamp[i]) /\ UNCHANGED <<storeKind, storeNow, msgs, summary, signals, inode>>

WriteSummary(i) ==
    /\ storeKind = "grok" /\ stamp' = [stamp EXCEPT ![i] = storeNow] /\ summary' = [summary EXCEPT ![i] = Len(msgs[i])]
    /\ StoreChanged(i, storeNow > stamp[i]) /\ UNCHANGED <<storeKind, storeNow, msgs, signals, inode>>

WriteSignals(i) ==
    /\ storeKind = "grok" /\ signals[i] # [count |-> Len(msgs[i]), whole |-> TRUE]
    /\ \E whole \in BOOLEAN : signals' = [signals EXCEPT ![i] = [count |-> Len(msgs[i]), whole |-> whole]]
    /\ StoreChanged(i, FALSE) /\ UNCHANGED <<storeKind, storeNow, msgs, stamp, summary, inode>>

\* The database becomes another file, with a session of an earlier time in it.
ReplaceDb(i) ==
    /\ storeKind = "sqlite" /\ inode = 1 /\ inode' = 2 /\ msgs[i] = <<>>
    /\ msgs' = [msgs EXCEPT ![i] = <<[role |-> "user", start |-> 1, end |-> 1, whole |-> TRUE]>>]
    /\ stamp' = [stamp EXCEPT ![i] = 1]
    /\ quiet' = 0 /\ stamped' = [stamped EXCEPT ![i] = TRUE]
    /\ UNCHANGED <<storeKind, storeNow, summary, signals, reader, masked>>

-----------------------------------------------------------------------------
(* The collectors.                                                         *)

Roles(ms, at, role) == Cardinality({j \in at : ms[j].role = role})
MsgStart(m) == m.start
MsgEnd(m) == IF m.end # 0 THEN m.end ELSE m.start

Summed(ms, at) ==
    [total |-> Cardinality(at), user |-> Roles(ms, at, "user"), assistant |-> Roles(ms, at, "assistant"),
     start |-> Min({MsgStart(ms[j]) : j \in at}), last |-> Max({MsgEnd(ms[j]) : j \in at})]

\* What cannot be parsed is passed over; without a time there is no session.
CollectOpenCodeSessions(i) ==
    LET whole == {j \in DOMAIN msgs[i] : msgs[i][j].whole}
    IN  IF whole = {} THEN NoStoreRow ELSE Summed(msgs[i], whole)

\* A session without messages has the times of its row.
CollectOpenCodeSqliteSessions(i) ==
    IF msgs[i] # <<>> THEN Summed(msgs[i], DOMAIN msgs[i])
    ELSE [total |-> 0, user |-> 0, assistant |-> 0, start |-> stamp[i], last |-> stamp[i]]

\* Signals that cannot be parsed count nothing.
ParseGrokSession(i) ==
    LET told == IF signals[i].whole THEN 1..signals[i].count ELSE {}
    IN  [total |-> summary[i], user |-> Roles(msgs[i], told, "user"),
         assistant |-> Roles(msgs[i], told, "assistant"), last |-> stamp[i]]

Collected(i) == IF storeKind = "json" THEN CollectOpenCodeSessions(i) ELSE ParseGrokSession(i)

Passed(ids) == emitted' = ids /\ quiet' = IF quiet < 3 THEN quiet + 1 ELSE 3

\* The directories whose stamp is not the one of the last pass.
ShouldSkip(i) == storeCursor.times[i] = stamp[i]

FilePass ==
    /\ storeKind # "sqlite"
    /\ LET read == {i \in StoreId : ~ShouldSkip(i)}
           given == {i \in read : Collected(i) # NoStoreRow}
       IN  /\ storeRows' = [i \in StoreId |-> IF i \in given THEN Collected(i) ELSE storeRows[i]]
           /\ storeCursor' = [times |-> stamp, last |-> 0, ids |-> {}, inode |-> 0]
           /\ Passed(given)
    /\ UNCHANGED <<env, storeBatch, stamped, masked>>

\* Another file starts over.
Watermark == IF storeCursor.inode = inode THEN [last |-> storeCursor.last, ids |-> storeCursor.ids] ELSE [last |-> 0, ids |-> {}]

QuerySessions == {i \in StoreId : stamp[i] # 0 /\ stamp[i] >= Watermark.last}

NotProcessed(raw) == raw \ Watermark.ids

IdsAtMax(raw, last) == {i \in raw : stamp[i] = last}

\* The sessions are asked for, and then the messages of those that are new.
DbSessions ==
    /\ storeKind = "sqlite" /\ storeBatch = Idle
    /\ LET raw == QuerySessions
           last == IF raw = {} THEN Watermark.last ELSE Max({stamp[i] : i \in raw})
       IN  /\ storeBatch' = NotProcessed(raw)
           /\ storeCursor' = [times |-> storeCursor.times, last |-> last, ids |-> IdsAtMax(raw, last), inode |-> inode]
           /\ masked' = (masked \ NotProcessed(raw)) \cup {i \in raw \cap Watermark.ids : stamp[i] > Watermark.last}
    /\ UNCHANGED <<env, storeRows, emitted, quiet, stamped>>

DbMessages ==
    /\ storeKind = "sqlite" /\ storeBatch # Idle /\ storeBatch' = Idle
    /\ storeRows' = [i \in StoreId |-> IF i \in storeBatch THEN CollectOpenCodeSqliteSessions(i) ELSE storeRows[i]]
    /\ Passed(storeBatch) /\ UNCHANGED <<env, storeCursor, stamped, masked>>

StoresNext ==
    \/ StoreTick \/ FilePass \/ DbSessions \/ DbMessages
    \/ \E i \in StoreId : \/ AddMessage(i) \/ CompleteMessage(i) \/ TouchSession(i)
                     \/ WriteSummary(i) \/ WriteSignals(i) \/ ReplaceDb(i)

StoresSpec == StoresInit /\ [][StoresNext]_storeVars

-----------------------------------------------------------------------------
(* Properties.                                                             *)

IsCurrent(i) == storeRows[i] = IF storeKind = "sqlite" THEN CollectOpenCodeSqliteSessions(i) ELSE Collected(i)

\* Every session whose last change has set a new stamp is current after two
\* passes, in whatever order and millisecond they changed, and across a
\* database that was replaced by another file.  The exceptions are masked: a
\* session that was the latest of a pass, and is the latest again when it has
\* changed, is taken for one of the same millisecond, and the watermark goes on
\* past its change.
OthersAreCurrent == quiet >= 2 => \A i \in StoreId \ masked : stamped[i] => IsCurrent(i)

\* A store that nobody writes to is read in silence: no pass after the first
\* gives a snapshot again, so the queue does not grow by itself.
SilentWhenQuiet == quiet >= 3 => emitted = {}
=============================================================================
