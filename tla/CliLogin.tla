------------------------------ MODULE CliLogin ------------------------------
(* `pew login` on several machines of one user: through the browser         *)
(* (web/api/auth/cli) or with a one-time code (web/api/auth/code), the user's *)
(* one API key behind both, and the token each machine keeps.                *)
EXTENDS Naturals

CONSTANTS
    Machine, LoginCode,
    LoginRequest,  \* login requests under way on the server
    MaxLogins, MaxLoginFailures,
    NoKey

VARIABLES
    key,         \* users.api_key
    minted,      \* keys generated so far
    loginCodes,  \* auth_codes
    token,       \* config.json of each machine
    req,
    logins, loginFailures,
    granted,     \* how many requests each code has let in
    clobbered    \* keys that a browser login replaced

loginVars == <<key, minted, loginCodes, token, req, logins, loginFailures, granted, clobbered>>

NoCode == [there |-> FALSE, old |-> FALSE, used |-> FALSE, failed |-> FALSE]
NoLogin == [pc |-> "idle", machine |-> NoKey, code |-> NoKey, got |-> NoKey, waiting |-> FALSE]

LoginInit ==
    /\ key = NoKey /\ minted = 0
    /\ loginCodes = [c \in LoginCode |-> NoCode] /\ granted = [c \in LoginCode |-> 0]
    /\ token = [m \in Machine |-> NoKey]
    /\ req = [r \in LoginRequest |-> NoLogin]
    /\ logins = 0 /\ loginFailures = 0 /\ clobbered = {}

GotoLogin(r, pc) == req' = [req EXCEPT ![r].pc = pc]
GotoWith(r, pc, k) == req' = [req EXCEPT ![r].pc = pc, ![r].got = k]
EndLogin(r) == req' = [req EXCEPT ![r] = NoLogin]
LoginAt(r, pc) == req[r].pc = pc
server == <<key, minted, loginCodes, granted, clobbered>>

-----------------------------------------------------------------------------
PostLoginCode(c) ==
    /\ ~loginCodes[c].there
    /\ loginCodes' = [loginCodes EXCEPT ![c].there = TRUE]
    /\ UNCHANGED <<key, minted, token, req, logins, loginFailures, granted, clobbered>>

CodeExpires(c) ==
    /\ loginCodes[c].there /\ ~loginCodes[c].old
    /\ loginCodes' = [loginCodes EXCEPT ![c].old = TRUE]
    /\ UNCHANGED <<key, minted, token, req, logins, loginFailures, granted, clobbered>>

\* The command picks the flow; without --force a machine that has a token asks
\* nobody.
Flow(c) == IF c = NoKey THEN "browser" ELSE "code"
MayLogin(m, force) == force \/ token[m] = NoKey

Login(r, m, c, force) ==
    /\ LoginAt(r, "idle") /\ logins < MaxLogins /\ logins' = logins + 1
    /\ MayLogin(m, force)
    /\ ~ \E q \in LoginRequest : req[q].waiting /\ req[q].machine = m
    /\ req' = [req EXCEPT ![r] = [pc |-> Flow(c),
                                  machine |-> m, code |-> c, got |-> NoKey, waiting |-> TRUE]]
    /\ UNCHANGED <<server, token, loginFailures>>

\* The command times out or is interrupted; the request goes on.
GiveUp(r) ==
    /\ req[r].waiting
    /\ req' = [req EXCEPT ![r].waiting = FALSE]
    /\ UNCHANGED <<server, token, logins, loginFailures>>

Logout(m) ==
    /\ token[m] # NoKey
    /\ token' = [token EXCEPT ![m] = NoKey]
    /\ UNCHANGED <<server, req, logins, loginFailures>>

\* The token is written by whoever is still waiting for it.
AnswerLogin(r) ==
    /\ LoginAt(r, "answer") /\ EndLogin(r)
    /\ token' = IF req[r].waiting THEN [token EXCEPT ![req[r].machine] = req[r].got] ELSE token
    /\ UNCHANGED <<server, logins, loginFailures>>

-----------------------------------------------------------------------------
\* GET /api/auth/cli: a user without a key gets a new one, unconditionally.
BrowserReadsKey(r) ==
    /\ LoginAt(r, "browser")
    /\ IF key # NoKey THEN GotoWith(r, "answer", key) ELSE GotoLogin(r, "browserMint")
    /\ UNCHANGED <<server, token, logins, loginFailures>>

BrowserWritesKey(r) ==
    /\ LoginAt(r, "browserMint")
    /\ minted' = minted + 1 /\ key' = minted' /\ GotoWith(r, "answer", key')
    /\ clobbered' = IF key = NoKey THEN clobbered ELSE clobbered \cup {key}
    /\ UNCHANGED <<loginCodes, token, logins, loginFailures, granted>>

-----------------------------------------------------------------------------
\* POST /api/auth/code/verify.
Valid(c) == ~loginCodes[c].used /\ ~loginCodes[c].old /\ ~loginCodes[c].failed

ReadCode(r) ==
    LET c == req[r].code
    IN  /\ LoginAt(r, "code")
        /\ \/ ~loginCodes[c].there /\ EndLogin(r)
           \/ loginCodes[c].there /\ ~Valid(c) /\ GotoLogin(r, "invalidate")
           \/ loginCodes[c].there /\ Valid(c) /\ GotoLogin(r, "readKey")
        /\ UNCHANGED <<server, token, logins, loginFailures>>

InvalidateCode(r) ==
    /\ LoginAt(r, "invalidate") /\ EndLogin(r)
    /\ loginCodes' = [loginCodes EXCEPT ![req[r].code].failed = TRUE]
    /\ UNCHANGED <<key, minted, token, logins, loginFailures, granted, clobbered>>

ReadKey(r) ==
    /\ LoginAt(r, "readKey")
    /\ IF key # NoKey THEN GotoWith(r, "consume", key) ELSE GotoLogin(r, "mint")
    /\ UNCHANGED <<server, token, logins, loginFailures>>

\* UPDATE ... WHERE api_key IS NULL, or the key that someone else has set.
MayMint == key = NoKey

MintKey(r) ==
    /\ LoginAt(r, "mint")
    /\ IF MayMint
         THEN minted' = minted + 1 /\ key' = minted' /\ GotoWith(r, "consume", key')
         ELSE GotoLogin(r, "reread") /\ UNCHANGED <<minted, key>>
    /\ UNCHANGED <<loginCodes, token, logins, loginFailures, granted, clobbered>>

RereadKey(r) ==
    /\ LoginAt(r, "reread")
    /\ GotoWith(r, "consume", key)
    /\ UNCHANGED <<server, token, logins, loginFailures>>

Unspent(c) == ~loginCodes[c].used /\ ~loginCodes[c].failed

ConsumeCode(r) ==
    LET c == req[r].code
    IN  /\ LoginAt(r, "consume")
        /\ IF Unspent(c)
             THEN /\ loginCodes' = [loginCodes EXCEPT ![c].used = TRUE]
                  /\ granted' = [granted EXCEPT ![c] = @ + 1]
                  /\ GotoLogin(r, "answer")
             ELSE EndLogin(r) /\ UNCHANGED <<loginCodes, granted>>
        /\ UNCHANGED <<key, minted, token, logins, loginFailures, clobbered>>

\* A call to the database throws: 500, and nothing more is written.
LoginFails(r) ==
    /\ req[r].pc \in {"browser", "browserMint", "code", "invalidate", "readKey", "mint", "reread",
                     "consume"}
    /\ loginFailures < MaxLoginFailures /\ loginFailures' = loginFailures + 1
    /\ EndLogin(r)
    /\ UNCHANGED <<server, token, logins>>

LoginNext ==
    \/ \E c \in LoginCode : PostLoginCode(c) \/ CodeExpires(c)
    \/ \E m \in Machine : Logout(m)
    \/ \E r \in LoginRequest :
        \/ \E m \in Machine, c \in LoginCode \cup {NoKey}, force \in BOOLEAN : Login(r, m, c, force)
        \/ GiveUp(r) \/ AnswerLogin(r) \/ BrowserReadsKey(r) \/ BrowserWritesKey(r)
        \/ ReadCode(r) \/ InvalidateCode(r) \/ ReadKey(r) \/ MintKey(r) \/ RereadKey(r)
        \/ ConsumeCode(r) \/ LoginFails(r)

LoginSpec == LoginInit /\ [][LoginNext]_loginVars

-----------------------------------------------------------------------------
\* Every machine that is logged in holds the user's key, however many logins
\* ran side by side, but for keys that a browser login wrote over.
TokensWork == \A m \in Machine : token[m] \in {NoKey, key} \cup clobbered

\* A code lets in one request, although it is looked up long before it is
\* consumed and a second machine may send it at the same moment.
OneLoginPerCode == \A c \in LoginCode : granted[c] <= 1
=============================================================================
