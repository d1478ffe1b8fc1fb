---------------------------- MODULE Registration ----------------------------
(* Signing in for the first time: the invite gate (web/lib/invite.ts), the  *)
(* steps Auth.js takes through the adapter (web/lib/auth-adapter.ts) and the *)
(* administrators who generate and delete codes beside it.                   *)
EXTENDS Naturals

CONSTANTS
    Person,             \* Google accounts
    Invite,             \* invite codes, each generated at most once
    MaxSignIns,         \* sign-ins attempted
    MaxSignInFailures,  \* database calls that fail
    Nobody

VARIABLES
    required,      \* the setting require_invite_code
    invites,       \* invite_codes: "none", "free", "pending" or "used", and by whom
    user, linked,  \* rows of users and of accounts
    cookie,        \* pew-invite-code in each browser
    flow,          \* the sign-in in progress
    view,          \* the rows on the administrators' page
    signIns, signInFailures,
    consumed,      \* the codes each person's sign-ins consumed
    walkIns,       \* people who registered without a code while a cookie was set
    troubled,      \* people one of whose sign-ins failed after the gate
    unlabelled,    \* codes whose back-fill failed
    removed        \* codes deleted while pending

registrationVars == <<required, invites, user, linked, cookie, flow, view, signIns, signInFailures,
                      consumed, walkIns, troubled, unlabelled, removed>>

Row(st, by) == [st |-> st, by |-> by]
NoFlow == [pc |-> "idle", code |-> Nobody]

RegistrationInit ==
    /\ required = TRUE
    /\ invites = [c \in Invite |-> Row("none", Nobody)] /\ view = invites
    /\ user = {} /\ linked = {}
    /\ cookie = [p \in Person |-> Nobody] /\ flow = [p \in Person |-> NoFlow]
    /\ signIns = 0 /\ signInFailures = 0
    /\ consumed = [p \in Person |-> {}] /\ walkIns = {} /\ troubled = {}
    /\ unlabelled = {} /\ removed = {}

-----------------------------------------------------------------------------
\* The administrators.
PostInvite(c) ==
    /\ invites[c].st = "none" /\ c \notin removed
    /\ invites' = [invites EXCEPT ![c] = Row("free", Nobody)]
    /\ UNCHANGED <<required, user, linked, cookie, flow, view, signIns, signInFailures, consumed,
                   walkIns, troubled, unlabelled, removed>>

PutRequired ==
    /\ required' = ~required
    /\ UNCHANGED <<invites, user, linked, cookie, flow, view, signIns, signInFailures, consumed,
                   walkIns, troubled, unlabelled, removed>>

FetchRows ==
    /\ view' = invites
    /\ UNCHANGED <<required, invites, user, linked, cookie, flow, signIns, signInFailures, consumed,
                   walkIns, troubled, unlabelled, removed>>

\* The page offers what its rows show as deletable; the route looks again.
IsDeletable(row) == row.st \in {"free", "pending"}
DeletesRow(row) == row.st \in {"free", "pending"}

\* The dialog asks whether to delete or to reclaim; the request is the same.
Confirmed(c) == IsDeletable(view[c])

DeleteCode(c) ==
    /\ Confirmed(c)
    /\ IF DeletesRow(invites[c])
         THEN /\ invites' = [invites EXCEPT ![c] = Row("none", Nobody)]
              /\ removed' = removed \cup {c}
              /\ view' = invites'
         ELSE invites[c] # view[c] /\ view' = invites /\ UNCHANGED <<invites, removed>>
    /\ UNCHANGED <<required, user, linked, cookie, flow, signIns, signInFailures, consumed,
                   walkIns, troubled, unlabelled>>

-----------------------------------------------------------------------------
\* A visitor.
VerifyInvite(p, c) ==
    /\ invites[c].st = "free" /\ cookie[p] # c
    /\ cookie' = [cookie EXCEPT ![p] = c]
    /\ UNCHANGED <<required, invites, user, linked, flow, view, signIns, signInFailures, consumed,
                   walkIns, troubled, unlabelled, removed>>

ForgetCookie(p) ==
    /\ cookie[p] # Nobody
    /\ cookie' = [cookie EXCEPT ![p] = Nobody]
    /\ UNCHANGED <<required, invites, user, linked, flow, view, signIns, signInFailures, consumed,
                   walkIns, troubled, unlabelled, removed>>

GotoFlow(p, pc) == flow' = [flow EXCEPT ![p].pc = pc]
EndFlow(p) == flow' = [flow EXCEPT ![p] = NoFlow]
InFlow(p, pc) == flow[p].pc = pc

\* The request carries the cookies of this moment to every later step.
SignIn(p) ==
    /\ InFlow(p, "idle") /\ signIns < MaxSignIns
    /\ flow' = [flow EXCEPT ![p] = [pc |-> "gate", code |-> cookie[p]]]
    /\ signIns' = signIns + 1
    /\ UNCHANGED <<required, invites, user, linked, cookie, view, signInFailures, consumed,
                   walkIns, troubled, unlabelled, removed>>

\* handleInviteGate: who has an account passes without a code.
HasAccount(p) == p \in linked

Gate(p) ==
    /\ InFlow(p, "gate")
    /\ IF HasAccount(p) THEN GotoFlow(p, "account") ELSE GotoFlow(p, "setting")
    /\ UNCHANGED <<required, invites, user, linked, cookie, view, signIns, signInFailures, consumed,
                   walkIns, troubled, unlabelled, removed>>

Setting(p) ==
    /\ InFlow(p, "setting")
    /\ \/ /\ ~required /\ GotoFlow(p, "account")
          /\ walkIns' = IF flow[p].code = Nobody THEN walkIns ELSE walkIns \cup {p}
       \/ required /\ flow[p].code = Nobody /\ EndFlow(p) /\ UNCHANGED walkIns
       \/ required /\ flow[p].code # Nobody /\ GotoFlow(p, "consume") /\ UNCHANGED walkIns
    /\ UNCHANGED <<required, invites, user, linked, cookie, view, signIns, signInFailures, consumed,
                   troubled, unlabelled, removed>>

InviteExists(row) == row.st # "none"
Consumable(row) == row.st = "free"

Consume(p) ==
    LET c == flow[p].code
    IN  /\ InFlow(p, "consume")
        /\ IF Consumable(invites[c])
             THEN /\ invites' = [invites EXCEPT ![c] = Row("pending", p)]
                  /\ consumed' = [consumed EXCEPT ![p] = @ \cup {c}]
                  /\ GotoFlow(p, "account")
             ELSE EndFlow(p) /\ UNCHANGED <<invites, consumed>>
        /\ UNCHANGED <<required, user, linked, cookie, view, signIns, signInFailures,
                       walkIns, troubled, unlabelled, removed>>

-----------------------------------------------------------------------------
\* Auth.js, through the adapter: an account signs in, an address that has a
\* user but no account is refused, anyone else gets a user and then an account.
Account(p) ==
    /\ InFlow(p, "account")
    /\ \/ p \in linked /\ EndFlow(p) /\ UNCHANGED troubled
       \/ p \in user \ linked /\ EndFlow(p) /\ troubled' = troubled \cup {p}
       \/ p \notin user /\ GotoFlow(p, "create") /\ UNCHANGED troubled
    /\ UNCHANGED <<required, invites, user, linked, cookie, view, signIns, signInFailures, consumed,
                   walkIns, unlabelled, removed>>

CreateUser(p) ==
    /\ InFlow(p, "create")
    /\ user' = user \cup {p} /\ GotoFlow(p, "backfill")
    /\ UNCHANGED <<required, invites, linked, cookie, view, signIns, signInFailures, consumed,
                   walkIns, troubled, unlabelled, removed>>

\* events.createUser: the placeholder becomes the user.
Placeholders(p) == {c \in Invite : c = flow[p].code /\ invites[c].st = "pending"}

Backfill(p) ==
    /\ InFlow(p, "backfill") /\ GotoFlow(p, "link")
    /\ invites' = [c \in Invite |-> IF c \in Placeholders(p) THEN Row("used", p) ELSE invites[c]]
    /\ UNCHANGED <<required, user, linked, cookie, view, signIns, signInFailures, consumed,
                   walkIns, troubled, unlabelled, removed>>

LinkAccount(p) ==
    /\ InFlow(p, "link") /\ EndFlow(p)
    /\ linked' = linked \cup {p}
    /\ UNCHANGED <<required, invites, user, cookie, view, signIns, signInFailures, consumed,
                   walkIns, troubled, unlabelled, removed>>

\* A failed back-fill is swallowed; any other failed write ends the sign-in.
SignInFails(p) ==
    /\ signInFailures < MaxSignInFailures /\ signInFailures' = signInFailures + 1
    /\ \/ InFlow(p, "backfill") /\ GotoFlow(p, "link") /\ unlabelled' = unlabelled \cup {flow[p].code}
          /\ UNCHANGED troubled
       \/ flow[p].pc \in {"create", "link"} /\ EndFlow(p) /\ troubled' = troubled \cup {p}
          /\ UNCHANGED unlabelled
    /\ UNCHANGED <<required, invites, user, linked, cookie, view, signIns, consumed,
                   walkIns, removed>>

RegistrationNext ==
    \/ PutRequired \/ FetchRows
    \/ \E c \in Invite : PostInvite(c) \/ DeleteCode(c)
    \/ \E p \in Person :
        \/ ForgetCookie(p) \/ \E c \in Invite : VerifyInvite(p, c)
        \/ SignIn(p) \/ Gate(p) \/ Setting(p) \/ Consume(p)
        \/ Account(p) \/ CreateUser(p) \/ Backfill(p) \/ LinkAccount(p) \/ SignInFails(p)

RegistrationSpec == RegistrationInit /\ [][RegistrationNext]_registrationVars

-----------------------------------------------------------------------------
AllIdle == \A p \in Person : InFlow(p, "idle")

\* A code makes one user, whoever had it in a cookie at the same moment.
OneUserPerCode == \A p, q \in Person : p # q => consumed[p] \cap consumed[q] = {}

\* A code that is marked used names the person who consumed it, unless that
\* person came while no code was asked for, with the cookie of someone else's.
UsedNamesItsUser ==
    \A c \in Invite : invites[c].st = "used" => c \in consumed[invites[c].by] \/ invites[c].by \in walkIns

\* Between sign-ins a code is burned only by a person whose registration
\* failed half way, or whose back-fill did: nobody who has an account already
\* loses one to the gate.
BurnedOnlyByFailure ==
    AllIdle => \A c \in Invite :
        invites[c].st = "pending" => invites[c].by \in troubled \/ c \in unlabelled

\* A code that made a user is never deleted, however old the row the
\* administrator clicked was.
KeepsUsed == \A c \in Invite : invites[c].st = "used" => invites'[c].st = "used"
UsedIsKept == [][KeepsUsed]_registrationVars
=============================================================================
