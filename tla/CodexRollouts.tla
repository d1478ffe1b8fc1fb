--------------------------- MODULE CodexRollouts ---------------------------
(***************************************************************************)
(* A Codex goal is a tree of threads, each with a rollout file.  A forked  *)
(* thread's rollout repeats the usage edges of its parent; an edge counts  *)
(* once per goal root.  The driver reads only the headers of rollouts that *)
(* no cursor has a scope for, climbs to the root over those and over the   *)
(* scopes cursors remember, and keeps the keys of the edges it has seen    *)
(* per scope, for as long as a cursor refers to the scope.                 *)
(***************************************************************************)
EXTENDS Integers, FiniteSets, Sequences

CONSTANTS
    Thread,       \* thread ids
    Parent,       \* Parent[t]: the thread t was forked from, or t itself
    MaxEdges,     \* bound: usage edges ever written
    MaxTroubles   \* bound: deleted rollouts, discarded parses, crashes, resets

\* The ancestor at which a climb from each thread ends, over the threads given.
Top(over) == LET up[t \in Thread] == IF t \in over THEN up[Parent[t]] ELSE t IN up

Forked == {t \in Thread : Parent[t] # t}
Root == Top(Forked)

Edge == 1..MaxEdges
NoScope == "none"
NoRolloutCursor == [there |-> FALSE, offset |-> 0, scope |-> NoScope]
NoFile == [there |-> FALSE, header |-> FALSE, edges |-> <<>>]
NoKeys == [t \in Thread |-> {}]

\* Forks make trees of threads: a climb ends.
ASSUME ForksMakeTrees ==
    /\ Parent \in [Thread -> Thread] /\ NoScope \notin Thread /\ MaxEdges \in Nat
    /\ \A over \in SUBSET Forked :
          /\ Top(over) \in [Thread -> Thread \ over]
          /\ \A t \in over : Top(over)[t] = Top(over)[Parent[t]]

VARIABLES
    rollout,      \* per thread its file: is the header written, which edges
    cursor,       \* cursors.json: files
    scopes,       \* cursors.json: codexScopes, the edge keys per scope
    tally,        \* how often the queue's rows count an edge
    stage, whole, \* the sync, and whether it is a full scan
    work, scopeOf, keys, queue, gains,   \* cursors, scopes, keys, files left, deltas
    edges, troubles,
    astray,       \* history: threads once given a scope that is not their root
    lostKeys      \* history: edges counted whose scope no cursor referred to any more

cliVars == <<cursor, scopes, tally>>
syncing == <<stage, whole, work, scopeOf, keys, queue, gains>>
codexVars == <<rollout, cliVars, syncing, edges, troubles, astray, lostKeys>>

EdgesOf(t) == {rollout[t].edges[i] : i \in DOMAIN rollout[t].edges}
NoEdges == [e \in Edge |-> 0]

-----------------------------------------------------------------------------
(* Codex.                                                                  *)

\* A rollout exists before its header is in it.
Open(t) ==
    /\ rollout[t] = NoFile /\ (Parent[t] # t => rollout[Parent[t]].header)
    /\ rollout' = [rollout EXCEPT ![t].there = TRUE]
    /\ UNCHANGED <<cliVars, syncing, edges, troubles, astray, lostKeys>>

\* The header and what is inherited of the parent's history.
ForkThread(t) ==
    /\ rollout[t].there /\ ~rollout[t].header
    /\ rollout' = [rollout EXCEPT ![t].header = TRUE,
                      ![t].edges = IF Parent[t] = t THEN <<>> ELSE rollout[Parent[t]].edges]
    /\ UNCHANGED <<cliVars, syncing, edges, troubles, astray, lostKeys>>

\* A request's usage.
Use(t) ==
    /\ rollout[t].there /\ rollout[t].header /\ edges < MaxEdges
    /\ edges' = edges + 1 /\ rollout' = [rollout EXCEPT ![t].edges = Append(@, edges')]
    /\ UNCHANGED <<cliVars, syncing, troubles, astray, lostKeys>>

Trouble == troubles < MaxTroubles /\ troubles' = troubles + 1

Prune(t) ==
    /\ Trouble /\ rollout[t].there
    /\ rollout' = [rollout EXCEPT ![t].there = FALSE]
    /\ UNCHANGED <<cliVars, syncing, edges, astray, lostKeys>>

-----------------------------------------------------------------------------
(* resolveCodexScopes.                                                     *)

Live == {t \in Thread : rollout[t].there}
Known(cs) == {t \in Thread : cs[t].scope # NoScope}

\* The scope of a rollout no cursor has one for: climb over rollouts that are
\* read now, then over the scopes known, and stop at a parent that is neither.
Climb(cs) ==
    LET over == {t \in Forked : rollout[t].header /\ Parent[t] \in Live \ Known(cs)}
        ScopeAt(u) == IF ~rollout[u].header THEN u
                      ELSE IF Parent[u] \in Known(cs) \ {u} THEN cs[Parent[u]].scope ELSE Parent[u]
    IN  [t \in Thread |-> ScopeAt(Top(over)[t])]

ScopesOf(cs) == [t \in Thread |-> IF t \in Known(cs) THEN cs[t].scope ELSE Climb(cs)[t]]

-----------------------------------------------------------------------------
(* The sync.                                                               *)

\* discover, with what the cursors of the last sync know.
DiscoverRollouts ==
    /\ stage = "idle" /\ stage' = "scan"
    /\ whole' = (\A t \in Thread : ~cursor[t].there)
    /\ work' = cursor /\ keys' = scopes /\ queue' = Live /\ gains' = NoEdges
    /\ scopeOf' = ScopesOf(cursor)
    /\ astray' = astray \cup {t \in Live : scopeOf'[t] # Root[t]}
    /\ UNCHANGED <<rollout, cliVars, edges, troubles, lostKeys>>

\* parseCodexFile: edges whose key the scope has not seen.
New(t) ==
    LET seen == {rollout[t].edges[i] : i \in (work[t].offset + 1)..Len(rollout[t].edges)}
    IN  seen \ keys[scopeOf[t]]

\* restoreCodexSharedState.
RestoreKeys(t) == keys' = keys

TakeRollout(t) ==
    /\ stage = "scan" /\ t \in queue /\ queue' = queue \ {t}
    /\ \/ /\ ~rollout[t].there \/ (work[t].there /\ work[t].offset = Len(rollout[t].edges) /\ rollout[t].header)
          /\ UNCHANGED <<work, keys, gains, troubles>>
       \/ \* An empty file whose cursor says so starts another epoch, without a scope.
          /\ rollout[t].there /\ work[t].there /\ ~rollout[t].header
          /\ work' = [work EXCEPT ![t].scope = NoScope]
          /\ UNCHANGED <<keys, gains, troubles>>
       \/ /\ rollout[t].there /\ (~work[t].there \/ work[t].offset < Len(rollout[t].edges))
          /\ work' = [work EXCEPT ![t] = [there |-> TRUE, offset |-> Len(rollout[t].edges), scope |-> scopeOf[t]]]
          /\ keys' = [keys EXCEPT ![scopeOf[t]] = @ \cup New(t)]
          /\ gains' = [e \in Edge |-> gains[e] + (IF e \in New(t) THEN 1 ELSE 0)]
          /\ UNCHANGED troubles
       \/ /\ rollout[t].there /\ (~work[t].there \/ work[t].offset < Len(rollout[t].edges))
          /\ Trouble /\ RestoreKeys(t)
          /\ UNCHANGED <<work, gains>>
    /\ UNCHANGED <<rollout, cliVars, stage, whole, scopeOf, edges, astray, lostKeys>>

\* Scopes that a surviving cursor refers to.
LiveKeys(cs) == [s \in Thread |-> IF \E t \in Thread : cs[t].scope = s THEN keys[s] ELSE {}]

\* pruneAliasCursors, the scopes and the commit.
CommitCodex ==
    /\ stage = "scan" /\ queue = {} /\ stage' = "idle"
    /\ cursor' = [t \in Thread |-> IF rollout[t].there THEN work[t] ELSE NoRolloutCursor]
    /\ scopes' = LiveKeys(cursor')
    /\ tally' = [e \in Edge |-> gains[e] + (IF whole THEN 0 ELSE tally[e])]
    /\ lostKeys' = {e \in Edge : tally'[e] > 0 /\ e \in (IF whole THEN {} ELSE lostKeys) \cup
                       (UNION {keys[s] : s \in {s \in Thread : \A t \in Thread : cursor'[t].scope # s}})}
    /\ work' = cursor' /\ keys' = NoKeys /\ gains' = NoEdges /\ whole' = FALSE
    /\ scopeOf' = [t \in Thread |-> NoScope]
    /\ UNCHANGED <<rollout, queue, edges, troubles, astray>>

CrashCodex ==
    /\ Trouble /\ stage = "scan" /\ stage' = "idle"
    /\ work' = cursor /\ keys' = NoKeys /\ queue' = {} /\ gains' = NoEdges /\ whole' = FALSE
    /\ scopeOf' = [t \in Thread |-> NoScope]
    /\ UNCHANGED <<rollout, cliVars, edges, astray, lostKeys>>

\* Cursors and rows are deleted: the next scan is a full one.
ResetCodex ==
    /\ Trouble /\ stage = "idle"
    /\ cursor' = [t \in Thread |-> NoRolloutCursor] /\ scopes' = NoKeys /\ tally' = NoEdges
    /\ work' = cursor' /\ astray' = {} /\ lostKeys' = {}
    /\ UNCHANGED <<rollout, stage, whole, scopeOf, keys, queue, gains, edges>>

CodexInit ==
    /\ rollout = [t \in Thread |-> NoFile]
    /\ cursor = [t \in Thread |-> NoRolloutCursor] /\ scopes = NoKeys /\ tally = NoEdges
    /\ stage = "idle" /\ whole = FALSE /\ work = cursor /\ keys = NoKeys
    /\ scopeOf = [t \in Thread |-> NoScope] /\ queue = {} /\ gains = NoEdges
    /\ edges = 0 /\ troubles = 0 /\ astray = {} /\ lostKeys = {}

CodexNext ==
    \/ \E t \in Thread : Open(t) \/ ForkThread(t) \/ Use(t) \/ Prune(t) \/ TakeRollout(t)
    \/ DiscoverRollouts \/ CommitCodex \/ CrashCodex \/ ResetCodex

CodexSpec == CodexInit /\ [][CodexNext]_codexVars

-----------------------------------------------------------------------------
(* Properties.                                                             *)

\* An edge that many rollouts repeat is counted once, in whichever order they
\* are read, pruned and read again, while every rollout got its root's scope
\* and some cursor kept that scope alive.
EdgeOnce ==
    \A e \in Edge : tally[e] > 1 => e \in lostKeys \/ \E t \in astray : e \in EdgesOf(t)

\* Between syncs no edge before a rollout's offset is uncounted, although its
\* siblings' parses were discarded or its keys were seen elsewhere.
NoEdgeLost ==
    stage = "idle" => \A t \in Live :
        \A i \in 1..cursor[t].offset : tally[rollout[t].edges[i]] > 0
=============================================================================
