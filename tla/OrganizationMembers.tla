------------------------- MODULE OrganizationMembers -------------------------
(* Who belongs to which organization, and the two pages that show it: the    *)
(* settings page, which lays what it just did over what it fetched until it  *)
(* has fetched again, and the administrators' dialog, which edits its own    *)
(* copy of the list.                                                         *)
EXTENDS FiniteSets, Integers

CONSTANTS
    Org, User,
    Me,               \* the user at the settings page
    Handler,          \* clicks whose handlers can be under way at once
    MaxMemberClicks,  \* clicks on the settings page
    MaxEdits,         \* changes by others
    NoOrg

VARIABLES
    live, member,   \* organizations, and pairs of organization and user
    counts, mine,   \* what the settings page fetched
    memberOver,     \* its overrides: 1 joined, -1 left
    pending,        \* the organization whose button spins
    handler,        \* its handlers, and the answer each waits for
    memberNewest,   \* the request for each of the two lists that will be kept
    memberForeign,  \* something changed that the page did not do, or was not told
    dialog,         \* the administrators' dialog
    early,          \* it was used before its list had arrived
    memberClicks, edits

memberPageVars == <<counts, mine, memberOver, pending, handler, memberNewest, memberForeign, memberClicks>>
deskVars == <<dialog, early>>
memberVars == <<live, member, memberPageVars, deskVars, edits>>

MembersOf(o) == {u \in User : <<o, u>> \in member}
CountNow == [o \in Org |-> Cardinality(MembersOf(o))]
MineNow == {o \in Org : <<o, Me>> \in member}
NoClick == [pc |-> "idle", of |-> NoOrg, kind |-> "join", answer |-> {}]
NoDialog == [of |-> NoOrg, pc |-> "closed", list |-> {}, answer |-> {}, user |-> NoOrg]

MemberInit ==
    /\ live = Org /\ member = {} /\ counts = CountNow /\ mine = {}
    /\ memberOver = [o \in Org |-> 0] /\ pending = NoOrg /\ handler = [h \in Handler |-> NoClick]
    /\ memberNewest = [all |-> NoOrg, mine |-> NoOrg] /\ memberForeign = FALSE
    /\ dialog = NoDialog /\ early = FALSE /\ memberClicks = 0 /\ edits = 0

-----------------------------------------------------------------------------
\* What the settings page shows.
ShownMine == {o \in Org : memberOver[o] = 1 \/ (memberOver[o] = 0 /\ o \in mine)}
ShownCount(o) == IF counts[o] + memberOver[o] < 0 THEN 0 ELSE counts[o] + memberOver[o]

GotoHandler(h, pc) == handler' = [handler EXCEPT ![h].pc = pc]

\* Only the button that was clicked last is disabled.
ClickMember(h, o) ==
    /\ handler[h].pc = "idle" /\ pending # o /\ memberClicks < MaxMemberClicks
    /\ pending' = o /\ memberClicks' = memberClicks + 1
    /\ handler' = [handler EXCEPT ![h] = [pc |-> "look", of |-> o, answer |-> {},
                                kind |-> IF o \in ShownMine THEN "leave" ELSE "join"]]
    /\ UNCHANGED <<live, member, counts, mine, memberOver, memberNewest, memberForeign, deskVars, edits>>

Finally(h) ==
    /\ handler' = [handler EXCEPT ![h] = NoClick] /\ pending' = NoOrg

\* The routes look first; the constraints of the table decide.
LookedUp(o, u) == <<o, u>> \notin member

LookMember(h) ==
    LET c == handler[h]
    IN  /\ c.pc = "look"
        /\ IF c.of \in live /\ (c.kind = "join" <=> LookedUp(c.of, Me))
             THEN GotoHandler(h, "write") /\ UNCHANGED pending ELSE Finally(h)
        /\ UNCHANGED <<live, member, counts, mine, memberOver, memberNewest, memberForeign, memberClicks, deskVars, edits>>

Insertable(o, u) == o \in live /\ <<o, u>> \notin member

WriteMember(h) ==
    LET c == handler[h]
    IN  /\ c.pc = "write"
        /\ IF c.kind = "leave" \/ Insertable(c.of, Me)
             THEN /\ member' = IF c.kind = "join" THEN member \cup {<<c.of, Me>>}
                                                  ELSE member \ {<<c.of, Me>>}
                  /\ GotoHandler(h, "ok") /\ UNCHANGED pending
             ELSE Finally(h) /\ UNCHANGED member
        /\ UNCHANGED <<live, counts, mine, memberOver, memberNewest, memberForeign, memberClicks, deskVars, edits>>

\* The answer: an override, and the first of the two lists is asked for.
JoinAnswered(h) ==
    LET c == handler[h]
    IN  /\ c.pc = "ok"
        /\ \/ /\ memberOver' = [memberOver EXCEPT ![c.of] = IF c.kind = "join" THEN 1 ELSE -1]
              /\ memberNewest' = [memberNewest EXCEPT !.all = h] /\ GotoHandler(h, "askAll")
              /\ UNCHANGED <<pending, memberForeign>>
           \/ Finally(h) /\ memberForeign' = TRUE /\ UNCHANGED <<memberOver, memberNewest>>
        /\ UNCHANGED <<live, member, counts, mine, memberClicks, deskVars, edits>>

Reads(h) ==
    LET c == handler[h]
    IN  /\ \/ c.pc = "askAll" /\ handler' = [handler EXCEPT ![h].pc = "all", ![h].answer = CountNow]
           \/ c.pc = "askMine" /\ handler' = [handler EXCEPT ![h].pc = "mine", ![h].answer = MineNow]
        /\ UNCHANGED <<live, member, counts, mine, memberOver, pending, memberNewest, memberForeign, memberClicks,
                       deskVars, edits>>

\* An answer that a newer request has overtaken is thrown away.
ArriveAll(h) ==
    /\ handler[h].pc = "all" /\ GotoHandler(h, "askMine")
    /\ counts' = IF memberNewest.all = h THEN handler[h].answer ELSE counts
    /\ memberNewest' = [memberNewest EXCEPT !.mine = h]
    /\ UNCHANGED <<live, member, mine, memberOver, pending, memberForeign, memberClicks, deskVars, edits>>

OverKept(h) == memberOver
OverCleared(h) == [o \in Org |-> 0]

ArriveMine(h) ==
    /\ handler[h].pc = "mine" /\ Finally(h)
    /\ mine' = IF memberNewest.mine = h THEN handler[h].answer ELSE mine
    /\ memberOver' = OverCleared(h)
    /\ UNCHANGED <<live, member, counts, memberNewest, memberForeign, memberClicks, deskVars, edits>>

Quiet == \A h \in Handler : handler[h].pc = "idle"

FocusMembers ==
    /\ Quiet /\ memberForeign
    /\ counts' = CountNow /\ mine' = MineNow /\ memberForeign' = FALSE
    /\ UNCHANGED <<live, member, memberOver, pending, handler, memberNewest, memberClicks, deskVars, edits>>

-----------------------------------------------------------------------------
\* The administrators: an organization is deleted with its members; the
\* dialog asks for the list when it opens, and after an addition or a removal
\* corrects its own copy.
MembersDeleted(o) == {<<o, u>> : u \in User}

DeleteOrg(o) ==
    /\ edits < MaxEdits /\ o \in live
    /\ live' = live \ {o} /\ member' = member \ MembersDeleted(o)
    /\ edits' = edits + 1 /\ memberForeign' = TRUE
    /\ UNCHANGED <<counts, mine, memberOver, pending, handler, memberNewest, memberClicks, deskVars>>

OpenDialog(o) ==
    /\ dialog.of = NoOrg /\ early' = FALSE
    /\ dialog' = [NoDialog EXCEPT !.of = o, !.pc = "asked"]
    /\ UNCHANGED <<live, member, memberPageVars, edits>>

CloseDialog ==
    /\ dialog.of # NoOrg /\ dialog' = NoDialog
    /\ UNCHANGED <<live, member, memberPageVars, early, edits>>

ReadMembers ==
    /\ dialog.pc = "asked"
    /\ dialog' = [dialog EXCEPT !.pc = "sent", !.answer = MembersOf(dialog.of)]
    /\ UNCHANGED <<live, member, memberPageVars, early, edits>>

ShowList ==
    /\ dialog.pc = "sent"
    /\ dialog' = [dialog EXCEPT !.pc = "shown", !.list = dialog.answer, !.answer = {}]
    /\ UNCHANGED <<live, member, memberPageVars, early, edits>>

\* The search leaves out the members the dialog shows; the form is there while
\* the list is still loading.
AddMember(u) ==
    LET o == dialog.of
    IN  /\ o # NoOrg /\ u \notin dialog.list /\ edits < MaxEdits /\ Insertable(o, u)
        /\ member' = member \cup {<<o, u>>} /\ edits' = edits + 1 /\ memberForeign' = TRUE
        /\ dialog' = [dialog EXCEPT !.list = @ \cup {u}]
        /\ early' = (early \/ dialog.pc # "shown")
        /\ UNCHANGED <<live, counts, mine, memberOver, pending, handler, memberNewest, memberClicks>>

Without(list, u) == list \ {u}

RemoveMember(u) ==
    LET o == dialog.of
    IN  /\ dialog.pc = "shown" /\ u \in dialog.list /\ edits < MaxEdits
        /\ o \in live /\ <<o, u>> \in member
        /\ member' = member \ {<<o, u>>} /\ edits' = edits + 1 /\ memberForeign' = TRUE
        /\ dialog' = [dialog EXCEPT !.list = Without(@, u)]
        /\ UNCHANGED <<live, counts, mine, memberOver, pending, handler, memberNewest, memberClicks, early>>

MemberNext ==
    \/ \E h \in Handler :
        \/ LookMember(h) \/ WriteMember(h) \/ JoinAnswered(h) \/ Reads(h) \/ ArriveAll(h) \/ ArriveMine(h)
        \/ \E o \in Org : ClickMember(h, o)
    \/ FocusMembers \/ CloseDialog \/ ReadMembers \/ ShowList
    \/ \E o \in Org : DeleteOrg(o) \/ OpenDialog(o)
    \/ \E u \in User : AddMember(u) \/ RemoveMember(u)

MemberSpec == MemberInit /\ [][MemberNext]_memberVars

-----------------------------------------------------------------------------
\* Nobody is a member of an organization that was deleted, not even who was
\* joining at that moment.
NoMemberOfDeleted == \A o \in Org \ live : MembersOf(o) = {}

\* Once its handlers have ended the settings page shows the truth, unless
\* somebody else changed it or an answer was lost: no override is left over a
\* list that contains the change already, whichever clicks overlapped.
QuietPageIsTrue == Quiet /\ ~memberForeign => ShownMine = MineNow /\ \A o \in Org : ShownCount(o) = CountNow[o]

\* The administrators' dialog shows the members, unless its user joined or
\* left by himself or it was used before its first list arrived, which then
\* replaces what was added.
DialogIsTrue ==
    dialog.pc = "shown" /\ ~early =>
        dialog.list \ {Me} = MembersOf(dialog.of) \ {Me} \/ dialog.of \notin live
=============================================================================
