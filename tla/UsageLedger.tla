----------------------------- MODULE UsageLedger -----------------------------
(***************************************************************************)
(* What the token pipeline promises, with no crashes, files or requests in *)
(* sight: a local ledger counts events, a set of bucket keys is marked for *)
(* upload, and the server holds rows copied from the ledger.               *)
(***************************************************************************)
EXTENDS Integers, FiniteSets

CONSTANTS Event, Key, KeyOf

\* What the theorems assume of the constants.
KeyOfAssumption == KeyOf \in [Event -> Key]

VARIABLES
    counted,  \* how often the ledger counts each event
    marked,   \* keys whose row is still to be uploaded
    server    \* how often the server's rows count each event

ledgerVars == <<counted, marked, server>>

KeysIn(q) == {KeyOf[e] : e \in {x \in Event : q[x] > 0}}
Equal(q, r, k) == \A e \in Event : KeyOf[e] = k => q[e] = r[e]

LedgerInit ==
    /\ counted = [e \in Event |-> 0]
    /\ marked = {}
    /\ server = [e \in Event |-> 0]

\* An incremental sync: events not counted before are counted once and the
\* keys they fall in are marked.
Collect ==
    \E new \in SUBSET {e \in Event : counted[e] = 0} :
        /\ counted' = [e \in Event |-> IF e \in new THEN 1 ELSE counted[e]]
        /\ marked' = marked \cup {KeyOf[e] : e \in new}
        /\ UNCHANGED server

\* A full scan (and, with no events, a reset): the ledger is rebuilt.
Rebuild ==
    \E all \in SUBSET Event :
        /\ counted' = [e \in Event |-> IF e \in all THEN 1 ELSE 0]
        /\ marked' = {KeyOf[e] : e \in all}
        /\ UNCHANGED server

\* Marks may always be added: a row sent twice does no harm.
Remark ==
    /\ marked' \in {m \in SUBSET KeysIn(counted) : marked \subseteq m}
    /\ UNCHANGED <<counted, server>>

\* A request overwrites the server's rows of some marked keys with the
\* ledger's current rows.
Ingest ==
    \E b \in SUBSET marked :
        /\ server' = [e \in Event |-> IF KeyOf[e] \in b THEN counted[e] ELSE server[e]]
        /\ UNCHANGED <<counted, marked>>

\* Marks go away together, and only when the server has every marked row.
Unmark ==
    /\ \A k \in marked : Equal(counted, server, k)
    /\ marked' = {}
    /\ UNCHANGED <<counted, server>>

LedgerNext == Collect \/ Rebuild \/ Remark \/ Ingest \/ Unmark

LedgerSpec == LedgerInit /\ [][LedgerNext]_ledgerVars

LedgerTypeOK ==
    /\ counted \in [Event -> {0, 1}]
    /\ marked \subseteq Key
    /\ server \in [Event -> {0, 1}]

\* Rows that are not marked are on the server as they stand in the ledger.
NothingForgotten == \A k \in KeysIn(counted) \ marked : Equal(counted, server, k)
=============================================================================
