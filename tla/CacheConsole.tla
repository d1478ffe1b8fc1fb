---------------------------- MODULE CacheConsole ----------------------------
(* The administrators' page over the edge cache: its keys are listed and     *)
(* cleared page by page, up to a limit, while readers put entries, entries   *)
(* expire, and single keys are deleted from the list that is shown.          *)
EXTENDS Naturals, FiniteSets, FiniteSetsExt

CONSTANTS
    KeyCount, BoardKeys,  \* the keys, in the order of their names; the leaderboard's
    Limit, PageSize,      \* MAX_KEYS_LIMIT, and the most keys KV lists at once
    MaxClears,            \* bound: clearings
    MaxTurns              \* bound: keys put, lists asked for, calls that fail

CacheKey == 1..KeyCount

VARIABLES
    kv, void,   \* the cache, and the leaderboard snapshots in it that a revision has made void
    shownKeys,  \* the list on the page, and whether more exist
    reading,    \* the list being read
    clearing, deletes, cacheDeletingKey, \* the handlers under way
    cacheMessage, cacheMutationError, cacheSwrError,
    clears, turns,
    since,      \* history: the keys put since the clearing began
    goneKeys,   \* history: the keys this page has deleted since a clearing failed, and none has put since
    stayed,     \* history: the keys that were there since the reading began
    overlooked  \* history: the keys that a list called whole left out

cacheVars == <<kv, void, shownKeys, reading, clearing, deletes, cacheDeletingKey, cacheMessage, cacheMutationError,
               cacheSwrError, clears, turns, since, goneKeys, stayed, overlooked>>
cacheCountVars == <<clears, turns>>
errorVars == <<cacheMutationError, cacheSwrError>>

NotReading == [pc |-> "idle", cursor |-> 0, found |-> {}]
StartReading == [NotReading EXCEPT !.pc = "listing"]
NotClearing == [pc |-> "idle", cursor |-> 0, page |-> {}, complete |-> FALSE, deleted |-> 0]

CacheInit ==
    /\ kv \in {CacheKey} \cup {CacheKey \ {k} : k \in CacheKey} /\ void = {}
    /\ shownKeys = [keys |-> {}, truncated |-> FALSE] /\ reading = StartReading
    /\ clearing = NotClearing /\ deletes = {} /\ cacheDeletingKey = 0
    /\ cacheMessage = "none" /\ cacheMutationError = FALSE /\ cacheSwrError = FALSE
    /\ clears = 0 /\ turns = 0
    /\ since = {} /\ goneKeys = {} /\ stayed = kv /\ overlooked = {}

\* One more of the things that MaxTurns bounds.
Turn == turns < MaxTurns /\ turns' = turns + 1 /\ UNCHANGED clears

-----------------------------------------------------------------------------
(* The cache.  KV lists the keys after a cursor: at most PageSize, perhaps   *)
(* fewer, and says whether those were the last.                              *)

Marked(keys, k) == IF clearing.pc = "idle" /\ cacheMessage = "none" THEN {} ELSE keys \cup {k}

PutKey(k) ==
    /\ Turn /\ k \notin kv /\ kv' = kv \cup {k}
    /\ since' = Marked(since, k) /\ goneKeys' = goneKeys \ {k}
    /\ UNCHANGED <<void, shownKeys, reading, clearing, deletes, cacheDeletingKey, cacheMessage, errorVars,
                   stayed, overlooked>>

RemoveKey(k) == kv' = kv \ {k} /\ void' = void \ {k} /\ stayed' = stayed \ {k}

Beyond(cursor) == {k \in kv : k > cursor}
Foremost(s, n) == {k \in s : Cardinality({j \in s : j <= k}) <= n}
Pages(cursor) == {Foremost(Beyond(cursor), n) : n \in 1..PageSize}
LastKey(page) == IF page = {} THEN 0 ELSE Max(page)

-----------------------------------------------------------------------------
(* The list.                                                               *)

ListLeft(fits, complete) == ~(fits /\ complete)

ListPage ==
    /\ reading.pc = "listing"
    /\ \E page \in Pages(reading.cursor) :
         LET taken == Foremost(page, Limit - Cardinality(reading.found))
             found == reading.found \cup taken
             complete == page = Beyond(reading.cursor)
             truncated == ListLeft(taken = page, complete)
         IN  IF complete \/ Cardinality(found) >= Limit
             THEN /\ reading' = NotReading /\ shownKeys' = [keys |-> found, truncated |-> truncated]
                  /\ overlooked' = IF truncated THEN {} ELSE stayed \ found
                  /\ cacheSwrError' = FALSE /\ stayed' = {}
             ELSE /\ reading' = [reading EXCEPT !.cursor = LastKey(page), !.found = found]
                  /\ UNCHANGED <<shownKeys, overlooked, cacheSwrError, stayed>>
    /\ UNCHANGED <<kv, void, clearing, deletes, cacheDeletingKey, cacheMessage, cacheMutationError, cacheCountVars,
                   since, goneKeys>>

ListFails ==
    /\ reading.pc = "listing" /\ Turn /\ reading' = NotReading /\ cacheSwrError' = TRUE /\ stayed' = {}
    /\ UNCHANGED <<kv, void, shownKeys, clearing, deletes, cacheDeletingKey, cacheMessage, cacheMutationError,
                   since, goneKeys, overlooked>>

\* mutateCache: whatever is being read is asked for anew, and the older answer
\* dropped.
Restarted == StartReading

StayedFrom(keys) == IF reading' = StartReading THEN keys ELSE stayed

FetchCacheKeys ==
    /\ Turn /\ cacheMutationError' = FALSE
    /\ reading' = Restarted /\ stayed' = StayedFrom(kv)
    /\ UNCHANGED <<kv, void, shownKeys, clearing, deletes, cacheDeletingKey, cacheMessage, cacheSwrError,
                   since, goneKeys, overlooked>>

-----------------------------------------------------------------------------
(* Clear All.                                                              *)

HandleClearCache ==
    /\ clearing.pc = "idle" /\ shownKeys.keys # {} /\ clears < MaxClears /\ clears' = clears + 1
    /\ clearing' = [NotClearing EXCEPT !.pc = "asked"]
    /\ cacheMutationError' = FALSE /\ cacheMessage' = "none" /\ since' = {}
    /\ UNCHANGED <<kv, void, shownKeys, reading, deletes, cacheDeletingKey, cacheSwrError, turns,
                   goneKeys, stayed, overlooked>>

\* Leaderboard snapshots are void before their keys go.
Revise ==
    /\ clearing.pc = "asked" /\ clearing' = [clearing EXCEPT !.pc = "list"] /\ void' = kv \cap BoardKeys
    /\ UNCHANGED <<kv, shownKeys, reading, deletes, cacheDeletingKey, cacheMessage, errorVars, cacheCountVars,
                   since, goneKeys, stayed, overlooked>>

ClearPage ==
    /\ clearing.pc = "list"
    /\ \E page \in Pages(clearing.cursor) :
         clearing' = [clearing EXCEPT !.pc = "page", !.page = page, !.complete = page = Beyond(clearing.cursor),
                                      !.cursor = LastKey(page)]
    /\ UNCHANGED <<kv, void, shownKeys, reading, deletes, cacheDeletingKey, cacheMessage, errorVars, cacheCountVars,
                   since, goneKeys, stayed, overlooked>>

ClearKey ==
    /\ clearing.pc = "page" /\ clearing.page # {} /\ clearing.deleted < Limit
    /\ LET k == Min(clearing.page)
       IN  RemoveKey(k) /\ clearing' = [clearing EXCEPT !.page = @ \ {k}, !.deleted = @ + 1] /\ goneKeys' = goneKeys \cup {k}
    /\ UNCHANGED <<shownKeys, reading, deletes, cacheDeletingKey, cacheMessage, errorVars, cacheCountVars, since, overlooked>>

ClearNext ==
    /\ clearing.pc = "page" /\ clearing.page = {} /\ ~clearing.complete /\ clearing.deleted < Limit
    /\ clearing' = [clearing EXCEPT !.pc = "list"]
    /\ UNCHANGED <<kv, void, shownKeys, reading, deletes, cacheDeletingKey, cacheMessage, errorVars, cacheCountVars,
                   since, goneKeys, stayed, overlooked>>

MoreRemain(page, complete) == page # {} \/ ~complete

ClearEnds ==
    \/ clearing.page = {} /\ clearing.complete
    \/ clearing.deleted >= Limit

\* The list is read again before the message is shown.
CacheCleared ==
    /\ clearing.pc = "page" /\ ClearEnds
    /\ clearing' = [clearing EXCEPT !.pc = "refresh"] /\ reading' = Restarted /\ stayed' = StayedFrom(kv)
    /\ UNCHANGED <<kv, void, shownKeys, deletes, cacheDeletingKey, cacheMessage, errorVars, cacheCountVars, since, goneKeys, overlooked>>

ShowCleared ==
    /\ clearing.pc = "refresh" /\ reading.pc = "idle" /\ clearing' = NotClearing
    /\ cacheMessage' = IF MoreRemain(clearing.page, clearing.complete) THEN "cleared, more remain" ELSE "cleared"
    /\ UNCHANGED <<kv, void, shownKeys, reading, deletes, cacheDeletingKey, errorVars, cacheCountVars, since, goneKeys, stayed, overlooked>>

ClearFails ==
    /\ clearing.pc \in {"asked", "list", "page"} /\ Turn
    /\ clearing' = NotClearing /\ cacheMutationError' = TRUE /\ goneKeys' = {}
    /\ UNCHANGED <<kv, void, shownKeys, reading, deletes, cacheDeletingKey, cacheMessage, cacheSwrError,
                   since, stayed, overlooked>>

-----------------------------------------------------------------------------
(* One key.                                                                *)

HandleInvalidateKey(k) ==
    /\ k \in shownKeys.keys /\ cacheDeletingKey # k /\ k \notin deletes
    /\ deletes' = deletes \cup {k} /\ cacheDeletingKey' = k
    /\ UNCHANGED <<kv, void, shownKeys, reading, clearing, cacheMessage, errorVars, cacheCountVars, since, goneKeys, stayed, overlooked>>

InvalidateKey(k) ==
    /\ k \in deletes /\ deletes' = deletes \ {k} /\ cacheDeletingKey' = 0
    /\ \/ /\ kv' = kv \ {k} /\ goneKeys' = goneKeys \cup {k}
          /\ void' = IF k \in BoardKeys THEN kv' \cap BoardKeys ELSE void
          /\ reading' = Restarted /\ stayed' = StayedFrom(kv')
          /\ UNCHANGED <<cacheMutationError, cacheCountVars>>
       \/ Turn /\ cacheMutationError' = TRUE /\ UNCHANGED <<kv, goneKeys, void, reading, stayed>>
    /\ UNCHANGED <<shownKeys, clearing, cacheMessage, cacheSwrError, since, overlooked>>

CacheNext ==
    \/ ListPage \/ ListFails \/ FetchCacheKeys
    \/ HandleClearCache \/ Revise \/ ClearPage \/ ClearKey \/ ClearNext \/ CacheCleared \/ ShowCleared \/ ClearFails
    \/ \E k \in CacheKey : PutKey(k) \/ HandleInvalidateKey(k) \/ InvalidateKey(k)

CacheSpec == CacheInit /\ [][CacheNext]_cacheVars

-----------------------------------------------------------------------------
(* Properties.                                                             *)

\* The message that does not say that more remain is true: what is in the cache
\* was put there since the clearing began, however KV cut the keys into pages
\* and wherever the limit fell.
ClearedMeansGone == cacheMessage = "cleared" => kv \subseteq since

\* A list that does not say that more exist has every key that was there from
\* its first page to its last.
ListIsWhole == overlooked = {}

\* Once the list has been read again it shows no key that this page deleted,
\* whatever was being read at the time of the deletion (a clearing that fails
\* on its way is not followed by a reading).
DeletedIsNotListed == reading.pc = "idle" /\ ~cacheSwrError /\ clearing.pc = "idle" => shownKeys.keys \cap goneKeys = {}
=============================================================================
