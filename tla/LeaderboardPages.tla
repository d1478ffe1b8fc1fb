--------------------------- MODULE LeaderboardPages ---------------------------
(***************************************************************************)
(* The public leaderboard, from the database to the page a visitor scrolls *)
(* through: the read worker builds a snapshot and keeps it in KV, every web *)
(* instance keeps it in memory and shares the request that fetches it, the *)
(* route binds it to a membership check and to the snapshot the earlier     *)
(* pages came from, and the page appends what it gets.                      *)
(*   worker-read/src/leaderboard-snapshot.ts                                *)
(*   web/src/lib/leaderboard-cache.ts, app/api/leaderboard/route.ts         *)
(*   web/src/hooks/use-leaderboard.ts                                       *)
(* One filter (a team's board) is modelled; a page holds one row.  The      *)
(* revision is random in the code and a counter here: neither comes back.   *)
(***************************************************************************)
EXTENDS Naturals, Sequences, FiniteSets, SequencesExt, FiniteSetsExt, Functions

CONSTANTS
    Person,     \* people with usage
    MaxChanges, \* bound: privacy and membership changes, uploads and expiries
    MaxLoads    \* bound: requests the page starts

VARIABLES
    public,     \* users.is_public = 1
    member,     \* the visitor belongs to the team
    tokens,     \* total_tokens of a person
    rev,        \* leaderboard_revision.revision
    tick,       \* the clock, in snapshot lifetimes
    kv,         \* lb:v1:<revision>:<key> -> snapshot
    entry,      \* the instance's cached snapshot, or NoSnapshot
    flight,     \* inflight[revision]: the request to the worker others join
    visit,      \* the page's request in route.ts and leaderboard-cache.ts
    page        \* the hook's state

lbVars == <<public, member, tokens, rev, tick, kv, entry, flight, visit, page>>

NoSnapshot == [rev |-> MaxChanges + 1, rows |-> << >>, made |-> 0]
Idle == [pc |-> "idle", try |-> 0, auth |-> 0, rev |-> 0, offset |-> 0, want |-> NoSnapshot,
         snap |-> NoSnapshot]
NoFlight == [pc |-> "none", try |-> 0, rev |-> 0, snap |-> NoSnapshot]

Ids(rows) == {rows[i].user : i \in DOMAIN rows}

\* ORDER BY total_tokens DESC, user_id: the public people with usage.
Ranked ==
    LET shown == {[user |-> p, total |-> tokens[p]] : p \in {q \in public : tokens[q] > 0}}
        before(r, s) == r.total > s.total \/ (r.total = s.total /\ r.user < s.user)
    IN  SetToSortSeq(shown, before)

\* One batch: the revision and the rows it belongs to.
Built == [rev |-> rev, rows |-> Ranked, made |-> tick]
Expired(s) == s.made < tick
\* The id is a hash of the revision and the rows.
SameId(s, t) == s.rev = t.rev /\ s.rows = t.rows

\* The bound: changes of the database and of the clock so far.
MayChange == rev + tick + FoldFunction(+, 0, tokens) < Cardinality(Person) + MaxChanges

LBInit ==
    /\ public = Person /\ member = TRUE
    /\ tokens = [p \in Person |-> 1]
    /\ rev = 0 /\ tick = 0
    /\ kv = [r \in 0..MaxChanges |-> NoSnapshot]
    /\ entry = NoSnapshot
    /\ flight = [r \in 0..MaxChanges |-> NoFlight]
    /\ visit = Idle
    /\ page = [entries |-> << >>, snap |-> NoSnapshot, offset |-> 0, more |-> FALSE,
               busy |-> "no", restarted |-> FALSE, loads |-> 0]

-----------------------------------------------------------------------------
\* The database moves on.

\* The triggers of migration 029 change the revision with every visible fact.
TurnPrivate(p) ==
    /\ p \in public /\ MayChange
    /\ public' = public \ {p} /\ rev' = rev + 1
    /\ UNCHANGED <<member, tokens, tick, kv, entry, flight, visit, page>>

LeaveTeam ==
    /\ member /\ MayChange
    /\ member' = FALSE /\ rev' = rev + 1
    /\ UNCHANGED <<public, tokens, tick, kv, entry, flight, visit, page>>

\* cache.clear and cache.invalidate of an lb: key change the revision before they delete.
ClearBoard ==
    /\ MayChange
    /\ rev' = rev + 1 /\ kv' = [r \in DOMAIN kv |-> NoSnapshot]
    /\ UNCHANGED <<public, member, tokens, tick, entry, flight, visit, page>>

\* An upload changes a total and no revision.
Upload(p) ==
    /\ MayChange
    /\ tokens' = [tokens EXCEPT ![p] = @ + 1]
    /\ UNCHANGED <<public, member, rev, tick, kv, entry, flight, visit, page>>

Tick ==
    /\ MayChange
    /\ tick' = tick + 1
    /\ UNCHANGED <<public, member, tokens, rev, kv, entry, flight, visit, page>>

-----------------------------------------------------------------------------
\* The read worker: getLeaderboardSnapshot, once per flight.

WorkerStart(r) ==
    /\ flight[r].pc = "start"
    /\ flight' = [flight EXCEPT ![r].pc = "lookup", ![r].rev = rev]
    /\ UNCHANGED <<public, member, tokens, rev, tick, kv, entry, visit, page>>

\* A KV read may fail or miss; what it returns must carry the revision asked for.
Valid(s, r) == s.rev = r /\ ~Expired(s)

WorkerLookup(r) ==
    /\ flight[r].pc = "lookup"
    /\ \/ /\ Valid(kv[flight[r].rev], flight[r].rev)
          /\ flight' = [flight EXCEPT ![r].pc = "confirm", ![r].snap = kv[flight[r].rev]]
       \/ flight' = [flight EXCEPT ![r].pc = "build"]
    /\ UNCHANGED <<public, member, tokens, rev, tick, kv, entry, visit, page>>

\* A second failed attempt throws.
Retry(f) == IF f.try = 0 THEN [f EXCEPT !.try = 1, !.pc = "start"]
                         ELSE [f EXCEPT !.pc = "failed"]

WorkerBuild(r) ==
    /\ flight[r].pc = "build"
    /\ IF Built.rev # flight[r].rev
         THEN flight' = [flight EXCEPT ![r] = Retry(@)] /\ UNCHANGED kv
         ELSE /\ flight' = [flight EXCEPT ![r].pc = "confirm", ![r].snap = Built]
              /\ \/ kv' = [kv EXCEPT ![Built.rev] = Built]
                 \/ UNCHANGED kv
    /\ UNCHANGED <<public, member, tokens, rev, tick, entry, visit, page>>

\* The snapshot is returned only while its revision still stands.
StillCurrent(s, r) == rev = r /\ ~Expired(s)

Confirmed(f) == IF StillCurrent(f.snap, f.rev) THEN [f EXCEPT !.pc = "done"] ELSE Retry(f)

WorkerConfirm(r) ==
    /\ flight[r].pc = "confirm" /\ Confirmed(flight[r]).pc = "start"
    /\ flight' = [flight EXCEPT ![r] = Confirmed(@)]
    /\ UNCHANGED <<public, member, tokens, rev, tick, kv, entry, visit, page>>

-----------------------------------------------------------------------------
\* A web instance: route.ts around getCachedLeaderboard, for the page's request.
\* Other visitors of the instance start flights and fill its cache.

\* Bind live authorization to a revision read before it.
Authorize ==
    /\ visit.pc = "auth"
    /\ visit' = [visit EXCEPT !.pc = "member", !.auth = rev]
    /\ UNCHANGED <<public, member, tokens, rev, tick, kv, entry, flight, page>>

CheckMember ==
    /\ visit.pc = "member"
    /\ visit' = [visit EXCEPT !.pc = IF member THEN "read" ELSE "error"]
    /\ UNCHANGED <<public, member, tokens, rev, tick, kv, entry, flight, page>>

\* An entry of another revision, or expired, is dropped before it is looked up.
IsFreshEnough(s, r) == s # NoSnapshot /\ ~Expired(s)
IsFresh(s, r) == s.rev = r /\ ~Expired(s)
Kept == IF IsFresh(entry, rev) THEN entry ELSE NoSnapshot
Joined == IF flight[rev].pc # "none" THEN flight
          ELSE [flight EXCEPT ![rev] = [NoFlight EXCEPT !.pc = "start"]]

ReadCache ==
    /\ visit.pc = "read"
    /\ entry' = Kept
    /\ IF Kept # NoSnapshot
         THEN /\ visit' = [visit EXCEPT !.pc = "check", !.rev = rev, !.snap = Kept]
              /\ UNCHANGED flight
         ELSE /\ visit' = [visit EXCEPT !.pc = "pending", !.rev = rev]
              /\ flight' = Joined
    /\ UNCHANGED <<public, member, tokens, rev, tick, kv, page>>

OtherReads ==
    /\ Kept = NoSnapshot
    /\ entry' = NoSnapshot /\ flight' = Joined
    /\ UNCHANGED <<public, member, tokens, rev, tick, kv, visit, page>>

\* Everyone who joined a flight gets its outcome; the first one removes it, and one
\* who finds its revision standing keeps the snapshot in the instance.
Outcome(f) == IF f.pc = "confirm" THEN Confirmed(f) ELSE f
Land(r) ==
    LET f == Outcome(flight[r])
    IN  /\ f.pc \in {"done", "failed"}
        /\ visit' = IF visit.pc # "pending" \/ visit.rev # r THEN visit
                    ELSE IF f.pc = "failed" THEN [visit EXCEPT !.pc = "error"]
                    ELSE [visit EXCEPT !.pc = "check", !.snap = f.snap]
        /\ flight' = [flight EXCEPT ![r] = NoFlight]
        /\ \/ UNCHANGED entry
           \/ /\ f.pc = "done" /\ entry = NoSnapshot /\ rev = r /\ IsFresh(f.snap, rev)
              /\ entry' = f.snap
        /\ UNCHANGED <<public, member, tokens, rev, tick, kv, page>>

\* The revision is read again; the route compares the snapshot with its own two bounds.
Changed(v, s) ==
    \/ (v.want # NoSnapshot /\ ~SameId(v.want, s))
    \/ v.auth # s.rev

Respond ==
    /\ visit.pc = "check"
    /\ LET s == visit.snap
       IN  IF ~IsFresh(s, rev) \/ visit.rev # rev
             THEN /\ visit' = [visit EXCEPT !.pc = IF visit.try = 0 THEN "read" ELSE "error",
                                            !.try = 1, !.snap = NoSnapshot]
                  /\ UNCHANGED entry
             ELSE /\ entry' = IF entry = NoSnapshot THEN s ELSE entry
                  /\ visit' = [visit EXCEPT !.pc = IF Changed(visit, s) THEN "409" ELSE "200"]
    /\ UNCHANGED <<public, member, tokens, rev, tick, kv, flight, page>>

-----------------------------------------------------------------------------
\* The page: useLeaderboard and fetchLeaderboardPage.

Empty(p) == [p EXCEPT !.entries = << >>, !.snap = NoSnapshot, !.offset = 0, !.more = FALSE]
Ask(offset, want) == [Idle EXCEPT !.pc = "auth", !.offset = offset, !.want = want]

\* First load, refetch, or a changed filter: the earlier request is aborted.
LoadFirst ==
    /\ page.loads < MaxLoads
    /\ page' = [Empty(page) EXCEPT !.busy = "loading", !.restarted = FALSE, !.loads = @ + 1]
    /\ visit' = Ask(0, NoSnapshot)
    /\ UNCHANGED <<public, member, tokens, rev, tick, kv, entry, flight>>

\* enabled turns false, or the page goes away: in-flight requests are abandoned.
Disable ==
    /\ page' = [Empty(page) EXCEPT !.busy = "no"] /\ visit' = Idle
    /\ UNCHANGED <<public, member, tokens, rev, tick, kv, entry, flight>>

LoadMore ==
    /\ page.loads < MaxLoads /\ page.busy = "no" /\ page.more
    /\ page' = [page EXCEPT !.busy = "more", !.restarted = FALSE, !.loads = @ + 1]
    /\ visit' = Ask(page.offset + 1, page.snap)
    /\ UNCHANGED <<public, member, tokens, rev, tick, kv, entry, flight>>

\* A page of the snapshot: appended if it continues, otherwise it replaces.
Shown == LET rows == visit.snap.rows IN SubSeq(rows, visit.offset + 1, Min({visit.offset + 1, Len(rows)}))
Appended(old, new) == IF page.busy = "more" /\ ~page.restarted THEN old \o new ELSE new

Receive ==
    /\ visit.pc = "200"
    /\ page' = [page EXCEPT !.entries = Appended(@, Shown), !.snap = visit.snap,
                            !.offset = visit.offset,
                            !.more = visit.offset + 1 < Len(visit.snap.rows), !.busy = "no"]
    /\ visit' = Idle
    /\ UNCHANGED <<public, member, tokens, rev, tick, kv, entry, flight>>

\* A 409 empties the page and asks once more, from the top.
Restart ==
    /\ visit.pc = "409" /\ ~page.restarted
    /\ page' = [Empty(page) EXCEPT !.restarted = TRUE]
    /\ visit' = Ask(0, NoSnapshot)
    /\ UNCHANGED <<public, member, tokens, rev, tick, kv, entry, flight>>

Fail ==
    /\ visit.pc = "error" \/ (visit.pc = "409" /\ page.restarted)
    /\ page' = [page EXCEPT !.busy = "no"]
    /\ visit' = Idle
    /\ UNCHANGED <<public, member, tokens, rev, tick, kv, entry, flight>>

LBNext ==
    \/ \E p \in Person : TurnPrivate(p) \/ Upload(p)
    \/ LeaveTeam \/ ClearBoard \/ Tick
    \/ \E r \in 0..MaxChanges : WorkerStart(r) \/ WorkerLookup(r) \/ WorkerBuild(r)
                            \/ WorkerConfirm(r) \/ Land(r)
    \/ Authorize \/ CheckMember \/ ReadCache \/ OtherReads \/ Respond
    \/ LoadFirst \/ Disable \/ LoadMore \/ Receive \/ Restart \/ Fail

LBSpec == LBInit /\ [][LBNext]_lbVars

-----------------------------------------------------------------------------
\* A visitor who is answered is a member at that moment, and gets only people who are
\* public at that moment, although the snapshot came through KV, the instance's memory
\* or a request that somebody else had started earlier.
AnsweredRightly ==
    visit.pc # "200" /\ visit'.pc = "200" => Ids(visit'.snap.rows) \subseteq public /\ member
OnlyPublicToMembers == [][AnsweredRightly]_lbVars

\* The page never shows rows of two snapshots: what it has accumulated is the
\* beginning of the one it asks to continue.
OneSnapshotOnPage == IsPrefix(page.entries, page.snap.rows)

=============================================================================
