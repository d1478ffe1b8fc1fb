----------------------------- MODULE WebAccounts -----------------------------
(* Accounts, organizations, devices, prices, caches and pages of the web
   service, checked in one run: a behaviour belongs to one module and
   leaves the variables of the others alone.  The properties are those of
   all parts together; the inductive invariant of each part and its proof
   follow them, and at the end what these invariants give together. *)
EXTENDS Integers, Sequences, FiniteSets, Functions, TLC,
        Registration, CliLogin, LogoStore, Organizations, OrganizationMembers, Devices,
        TeamPage, PricingSync, CacheConsole, FiniteSetTheorems, WellFoundedInduction, TLAPS

VARIABLES part

\* What stands for nobody, no device and no logo is none of them.
ASSUME RegistrationAssumption == Nobody \notin Invite
ASSUME DevicesAssumption == NoDevice \notin Tab /\ NoDevice \notin Device
ASSUME LogoAssumption == NoLogo \notin LogoUpload
\* There is at most one organization at the start: their slugs cannot clash.
ASSUME ExistingAssumption == \A o, p \in Existing : o = p
\* Members can be counted.
ASSUME MembersAssumption == IsFiniteSet(User)
\* An upstream has something to answer, and Null is no answer.
ASSUME FeedsAssumption ==
    \A s \in Source : /\ Len(Feeds[s]) \in Nat \ {0}
                      /\ \A i \in 1..Len(Feeds[s]) : Feeds[s][i] # Null
ASSUME ConsoleAssumption == KeyCount \in Nat /\ Limit \in Nat /\ PageSize \in Nat

\* Two names that differ by case only.
MCFolded == [n \in {"a", "A"} |-> "a"]

\* -1: a price that is no number.
MCEntry(p, c) == [prov |-> p, name |-> "x", price |-> c]
MCBaseline == {[name |-> "x", price |-> 2]}
MCFeeds ==
    "openrouter" :> << <<MCEntry("b", 3), MCEntry("a", 0)>>, <<MCEntry("a", 1), MCEntry("b", -1)>> >>
    @@ "models.dev" :> << <<MCEntry("a", 2)>>, <<MCEntry("a", 0)>>, Malformed >>

NoRegistration ==
    /\ required = 0 /\ invites = 0 /\ user = 0 /\ linked = 0 /\ cookie = 0
    /\ flow = 0 /\ view = 0 /\ signIns = 0 /\ signInFailures = 0
    /\ consumed = 0 /\ walkIns = 0 /\ troubled = 0 /\ unlabelled = 0
    /\ removed = 0
NoLogins ==
    /\ key = 0 /\ minted = 0 /\ loginCodes = 0 /\ token = 0 /\ req = 0
    /\ logins = 0 /\ loginFailures = 0 /\ granted = 0 /\ clobbered = 0
NoLogos ==
    /\ logo = 0 /\ ownerGone = 0 /\ objects = 0 /\ logoRequest = 0
    /\ logoFailures = 0 /\ lost = 0 /\ spilled = 0 /\ logoUnseen = 0
NoOrgs ==
    /\ org = 0 /\ rows = 0 /\ form = 0 /\ typedFields = 0 /\ under = 0
    /\ task = 0 /\ saves = 0
NoMembers ==
    /\ live = 0 /\ member = 0 /\ counts = 0 /\ mine = 0 /\ memberOver = 0
    /\ pending = 0 /\ handler = 0 /\ memberNewest = 0 /\ memberForeign = 0
    /\ dialog = 0 /\ early = 0 /\ memberClicks = 0 /\ edits = 0
NoDevices ==
    /\ records = 0 /\ alias = 0 /\ revoked = 0 /\ uploads = 0
    /\ deviceShown = 0 /\ field = 0 /\ deviceRequest = 0
    /\ deviceNewest = 0 /\ deviceClicks = 0 /\ deviceFailures = 0
    /\ deviceUnseen = 0 /\ untold = 0 /\ crossed = 0
NoTeam ==
    /\ exists = 0 /\ mates = 0 /\ auto = 0 /\ registered = 0 /\ rivals = 0
    /\ team = 0 /\ teams = 0 /\ getTeam = 0 /\ getTeams = 0 /\ enabled = 0
    /\ hides = 0 /\ prev = 0 /\ override = 0 /\ toggling = 0
    /\ entering = 0 /\ kicking = 0 /\ leaving = 0 /\ teamClicks = 0
    /\ others = 0 /\ teamFailures = 0 /\ teamForeign = 0 /\ unread = 0
NoPrices ==
    /\ upstream = 0 /\ dynamic = 0 /\ meta = 0 /\ last = 0 /\ run = 0
    /\ started = 0 /\ published = 0 /\ priceFailures = 0 /\ writes = 0
    /\ overlapped = 0 /\ metaLost = 0 /\ dropped = 0 /\ browser = 0
NoConsole ==
    /\ kv = 0 /\ void = 0 /\ shownKeys = 0 /\ reading = 0 /\ clearing = 0
    /\ deletes = 0 /\ cacheDeletingKey = 0 /\ cacheMessage = 0
    /\ cacheMutationError = 0 /\ cacheSwrError = 0 /\ clears = 0
    /\ turns = 0 /\ since = 0 /\ goneKeys = 0 /\ stayed = 0 /\ overlooked = 0

Init ==
    \/ /\ part = "registration" /\ RegistrationInit
       /\ NoLogins /\ NoLogos /\ NoOrgs /\ NoMembers /\ NoDevices
       /\ NoTeam /\ NoPrices /\ NoConsole
    \/ /\ part = "login" /\ LoginInit
       /\ NoRegistration /\ NoLogos /\ NoOrgs /\ NoMembers /\ NoDevices
       /\ NoTeam /\ NoPrices /\ NoConsole
    \/ /\ part = "logo" /\ LogoInit
       /\ NoRegistration /\ NoLogins /\ NoOrgs /\ NoMembers /\ NoDevices
       /\ NoTeam /\ NoPrices /\ NoConsole
    \/ /\ part = "org" /\ OrgInit
       /\ NoRegistration /\ NoLogins /\ NoLogos /\ NoMembers /\ NoDevices
       /\ NoTeam /\ NoPrices /\ NoConsole
    \/ /\ part = "member" /\ MemberInit
       /\ NoRegistration /\ NoLogins /\ NoLogos /\ NoOrgs /\ NoDevices
       /\ NoTeam /\ NoPrices /\ NoConsole
    \/ /\ part = "device" /\ DeviceInit
       /\ NoRegistration /\ NoLogins /\ NoLogos /\ NoOrgs /\ NoMembers
       /\ NoTeam /\ NoPrices /\ NoConsole
    \/ /\ part = "team" /\ TeamInit
       /\ NoRegistration /\ NoLogins /\ NoLogos /\ NoOrgs /\ NoMembers
       /\ NoDevices /\ NoPrices /\ NoConsole
    \/ /\ part = "price" /\ PricingInit
       /\ NoRegistration /\ NoLogins /\ NoLogos /\ NoOrgs /\ NoMembers
       /\ NoDevices /\ NoTeam /\ NoConsole
    \/ /\ part = "console" /\ CacheInit
       /\ NoRegistration /\ NoLogins /\ NoLogos /\ NoOrgs /\ NoMembers
       /\ NoDevices /\ NoTeam /\ NoPrices

Next ==
    \/ /\ part = "registration" /\ RegistrationNext
       /\ UNCHANGED <<part, loginVars, logoVars, orgVars, memberVars,
                       deviceVars, teamPageVars, pricingVars, cacheVars>>
    \/ /\ part = "login" /\ LoginNext
       /\ UNCHANGED <<part, registrationVars, logoVars, orgVars, memberVars,
                       deviceVars, teamPageVars, pricingVars, cacheVars>>
    \/ /\ part = "logo" /\ LogoNext
       /\ UNCHANGED <<part, registrationVars, loginVars, orgVars, memberVars,
                       deviceVars, teamPageVars, pricingVars, cacheVars>>
    \/ /\ part = "org" /\ OrgNext
       /\ UNCHANGED <<part, registrationVars, loginVars, logoVars,
                       memberVars, deviceVars, teamPageVars, pricingVars,
                       cacheVars>>
    \/ /\ part = "member" /\ MemberNext
       /\ UNCHANGED <<part, registrationVars, loginVars, logoVars, orgVars,
                       deviceVars, teamPageVars, pricingVars, cacheVars>>
    \/ /\ part = "device" /\ DeviceNext
       /\ UNCHANGED <<part, registrationVars, loginVars, logoVars, orgVars,
                       memberVars, teamPageVars, pricingVars, cacheVars>>
    \/ /\ part = "team" /\ TeamNext
       /\ UNCHANGED <<part, registrationVars, loginVars, logoVars, orgVars,
                       memberVars, deviceVars, pricingVars, cacheVars>>
    \/ /\ part = "price" /\ PricingNext
       /\ UNCHANGED <<part, registrationVars, loginVars, logoVars, orgVars,
                       memberVars, deviceVars, teamPageVars, cacheVars>>
    \/ /\ part = "console" /\ CacheNext
       /\ UNCHANGED <<part, registrationVars, loginVars, logoVars, orgVars,
                       memberVars, deviceVars, teamPageVars, pricingVars>>

allVars == <<part, registrationVars, loginVars, logoVars, orgVars,
             memberVars, deviceVars, teamPageVars, pricingVars, cacheVars>>

Spec == Init /\ [][Next]_allVars

\* The other sets of actors and names are taken from these two.
Symmetry == Permutations(Person) \union Permutations(Invite)

\* An invite code brings at most one person in and names him, a login code
\* lets at most one request in, and failures burn a code only as the code
\* means them to.
CodesAreSpentOnce ==
    /\ (part = "registration" => OneUserPerCode)
    /\ (part = "registration" => UsedNamesItsUser)
    /\ (part = "registration" => BurnedOnlyByFailure)
    /\ (part = "login" => OneLoginPerCode)
    /\ (part = "login" => TokensWork)

\* Slugs and device names stay unique, a stored logo is one that exists, and
\* nothing refers to an organization or a device that is gone, unless a
\* failure the code accepts is to blame.
ReferencesAreSound ==
    /\ (part = "org" => SlugsAreUnique)
    /\ (part = "device" => NamesUnique)
    /\ (part = "device" => HiddenNamesCrossed)
    /\ (part = "logo" => NoDanglingLogo)
    /\ (part = "logo" => LeaksAreExplained)
    /\ (part = "member" => NoMemberOfDeleted)

\* Once its requests are answered a page shows what the server has: members,
\* devices, switches and registrations, removals, the cache keys left.
PagesAreTrue ==
    /\ (part = "member" => QuietPageIsTrue)
    /\ (part = "member" => DialogIsTrue)
    /\ (part = "device" => OwnWorkShown)
    /\ (part = "device" => OnlyTypedNames)
    /\ (part = "team" => SwitchIsTrue)
    /\ (part = "team" => RegistrationIsTrue)
    /\ (part = "team" => RemovalIsShown)
    /\ (part = "console" => DeletedIsNotListed)
    /\ (part = "console" => ListIsWhole)
    /\ (part = "console" => ClearedMeansGone)

\* However feeds fail, list prices twice or change, and runs overlap: the
\* baseline is the floor, every route has the rate of its model, the
\* metadata is that of the prices stored, and what is served as fresh is
\* current.
PricesAreSound ==
    /\ (part = "price" => FloorHolds)
    /\ (part = "price" => RateOfEachRoute)
    /\ (part = "price" => MetaTellsTheTruth)
    /\ (part = "price" => FreshIsCurrent)

\* A step does nothing it was not asked to: a used invite stays used, a save
\* changes only typed fields, what carries the id of a revoked device is not
\* stored, a team is deleted only after the dialog said so, and prices stay
\* through an outage.
OthersWorkIsKept ==
    [][/\ (part = "registration" => KeepsUsed)
       /\ (part = "org" => OnlyTyped)
       /\ (part = "device" => IgnoresRevoked)
       /\ (part = "team" => ToldSo)
       /\ (part = "price" => KeptThroughOutage)]_allVars

-----------------------------------------------------------------------------
(* Numbers.                                                                *)

\* A bounded set of numbers has a greatest one, and any set a least.
LEMMA HasGreatest ==
    ASSUME NEW S \in SUBSET Nat, S # {}, NEW n \in Nat, \A v \in S : v <= n
    PROVE  \E v \in S : \A w \in S : w <= v
  <1> DEFINE T == {n - v : v \in S}
  <1>1. T \subseteq Nat /\ T # {}
    <2>1. PICK v \in S : TRUE
      OBVIOUS
    <2>2. n - v \in T
      OBVIOUS
    <2>3. \A w \in S : w \in Nat /\ n - w \in Nat
      OBVIOUS
    <2> QED
      BY <2>2, <2>3
  <1>2. PICK x \in T : \A y \in T : ~(<<y, x>> \in OpToRel(<, Nat))
    BY <1>1, WFMin, NatLessThanWellFounded, Zenon
  <1>3. \A y \in T : ~(y < x)
    BY <1>1, <1>2 DEF OpToRel
  <1>4. PICK v \in S : x = n - v
    OBVIOUS
  <1>5. \A w \in S : w <= v
    <2> SUFFICES ASSUME NEW w \in S PROVE w <= v
      OBVIOUS
    <2>1. n - w \in T
      OBVIOUS
    <2>2. ~(n - w < n - v)
      BY <1>3, <1>4, <2>1
    <2> QED
      BY <2>2
  <1> QED
    BY <1>5

LEMMA GreatestIs ==
    ASSUME NEW S \in SUBSET Nat, S # {}, NEW n \in Nat, \A v \in S : v <= n
    PROVE  Max(S) \in S /\ \A w \in S : w <= Max(S)
  <1>1. \E v \in S : \A w \in S : v >= w
    <2>1. PICK v \in S : \A w \in S : w <= v
      BY HasGreatest
    <2>2. \A w \in S : v >= w
      BY <2>1
    <2> QED
      BY <2>2
  <1>2. Max(S) \in S /\ \A w \in S : Max(S) >= w
    BY <1>1 DEF Max
  <1> QED
    BY <1>2

LEMMA LeastIs ==
    ASSUME NEW S \in SUBSET Nat, S # {}
    PROVE  Min(S) \in S /\ \A w \in S : Min(S) <= w
  <1>1. PICK x \in S : \A y \in S : ~(<<y, x>> \in OpToRel(<, Nat))
    BY WFMin, NatLessThanWellFounded, Zenon
  <1>4. \A y \in S : ~(y < x)
    BY <1>1 DEF OpToRel
  <1>2. \A y \in S : x <= y
    <2> SUFFICES ASSUME NEW y \in S PROVE x <= y
      OBVIOUS
    <2>1. x \in Nat /\ y \in Nat
      OBVIOUS
    <2> QED
      BY <1>4, <2>1
  <1>3. \E v \in S : \A w \in S : v <= w
    BY <1>2
  <1> QED
    BY <1>3 DEF Min

-----------------------------------------------------------------------------
(* Signing in for the first time.                                          *)

SignInSteps == {"idle", "gate", "setting", "consume", "account", "create", "backfill", "link"}

RegistrationTypeOK ==
    /\ required \in BOOLEAN
    /\ invites \in [Invite -> [st : {"none", "free", "pending", "used"}, by : Person \cup {Nobody}]]
    /\ user \subseteq Person /\ linked \subseteq user
    /\ cookie \in [Person -> Invite \cup {Nobody}]
    /\ flow \in [Person -> [pc : SignInSteps, code : Invite \cup {Nobody}]]
    /\ consumed \in [Person -> SUBSET Invite]

\* How far a sign-in has come says what is known of the person.
FlowsFit ==
    \A p \in Person :
        /\ flow[p].pc \in {"setting", "consume", "create", "backfill"} => p \notin linked
        /\ flow[p].pc = "consume" => flow[p].code # Nobody
        /\ flow[p].pc = "create" => p \notin user
        /\ flow[p].pc \in {"backfill", "link"} => p \in user
        /\ flow[p].pc \in {"account", "create", "backfill"} /\ flow[p].code # Nobody =>
              p \in linked \/ flow[p].code \in consumed[p] \/ p \in walkIns

\* A code that can still be had was never consumed.
UnspentFits ==
    \A c \in Invite : invites[c].st = "free" \/ (invites[c].st = "none" /\ c \notin removed) =>
        \A p \in Person : c \notin consumed[p]

\* A code that is pending belongs to a sign-in under way, or to one that failed.
PendingFits ==
    \A c \in Invite : invites[c].st = "pending" =>
        LET p == invites[c].by
        IN  \/ c \in unlabelled
            \/ p \in Person /\ p \in troubled
            \/ /\ p \in Person /\ p \notin linked /\ flow[p].code = c
               /\ flow[p].pc \in {"account", "create", "backfill"}

RegistrationFits ==
    /\ RegistrationTypeOK /\ FlowsFit /\ UnspentFits /\ PendingFits
    /\ OneUserPerCode /\ UsedNamesItsUser

LEMMA RegistrationStarts == ASSUME RegistrationInit PROVE RegistrationFits
  BY DEF RegistrationInit, RegistrationFits, RegistrationTypeOK, FlowsFit, UnspentFits, PendingFits,
         OneUserPerCode, UsedNamesItsUser, Row, NoFlow, SignInSteps

LEMMA FlowGoes ==
    ASSUME RegistrationTypeOK, NEW p \in Person, NEW pc, GotoFlow(p, pc)
    PROVE  flow' = [flow EXCEPT ![p] = [pc |-> pc, code |-> flow[p].code]]
  <1>1. flow[p] = [pc |-> flow[p].pc, code |-> flow[p].code]
    BY DEF RegistrationTypeOK
  <1>2. [flow[p] EXCEPT !.pc = pc] = [pc |-> pc, code |-> flow[p].code]
    BY <1>1
  <1> QED
    BY <1>2 DEF GotoFlow

\* The administrators.
LEMMA InvitesFit ==
    ASSUME RegistrationFits, NEW c \in Invite, PostInvite(c) \/ DeleteCode(c)
    PROVE  RegistrationFits' /\ KeepsUsed
  <1>1. /\ UNCHANGED <<required, user, linked, cookie, flow, consumed, walkIns, troubled, unlabelled>>
        /\ removed \subseteq removed'
        /\ \/ UNCHANGED <<invites, removed>>
           \/ /\ invites' = [invites EXCEPT ![c] = Row("free", Nobody)]
              /\ invites[c].st = "none" /\ c \notin removed
           \/ /\ invites' = [invites EXCEPT ![c] = Row("none", Nobody)]
              /\ invites[c].st \in {"free", "pending"} /\ c \in removed'
    BY DEF PostInvite, DeleteCode, DeletesRow
  <1>2. RegistrationTypeOK /\ RegistrationTypeOK'
    BY <1>1 DEF RegistrationFits, RegistrationTypeOK, Row
  <1>3. \A d \in Invite : d # c => invites'[d] = invites[d]
    BY <1>1, <1>2 DEF RegistrationTypeOK
  <1>4. \/ invites'[c] = invites[c] /\ UNCHANGED removed
        \/ invites'[c] = Row("free", Nobody) /\ invites[c].st = "none" /\ c \notin removed
        \/ invites'[c] = Row("none", Nobody) /\ invites[c].st \in {"free", "pending"} /\ c \in removed'
    BY <1>1, <1>2 DEF RegistrationTypeOK
  <1>5. FlowsFit' /\ OneUserPerCode'
    BY <1>1 DEF RegistrationFits, FlowsFit, OneUserPerCode
  <1>6. UnspentFits' /\ PendingFits' /\ UsedNamesItsUser' /\ KeepsUsed
    BY <1>1, <1>3, <1>4 DEF RegistrationFits, UnspentFits, PendingFits, UsedNamesItsUser, KeepsUsed, Row
  <1> QED
    BY <1>2, <1>5, <1>6 DEF RegistrationFits

\* A sign-in up to the gate's decision, and its end.
LEMMA SignInFits ==
    ASSUME RegistrationFits, NEW p \in Person,
           SignIn(p) \/ Gate(p) \/ Setting(p) \/ Account(p) \/ CreateUser(p) \/ LinkAccount(p) \/ SignInFails(p)
    PROVE  RegistrationFits' /\ KeepsUsed
  <1>1. UNCHANGED <<required, invites, cookie, consumed, removed>>
    BY DEF SignIn, Gate, Setting, Account, CreateUser, LinkAccount, SignInFails
  <1>2. RegistrationTypeOK
    BY DEF RegistrationFits
  <1>3. /\ walkIns \subseteq walkIns' /\ troubled \subseteq troubled' /\ unlabelled \subseteq unlabelled'
        /\ user \subseteq user' /\ user' \subseteq user \cup {p}
        /\ linked \subseteq linked' /\ linked' \subseteq linked \cup {p}
    BY DEF SignIn, Gate, Setting, Account, CreateUser, LinkAccount, SignInFails
  <1>4. PICK pc \in SignInSteps, code \in Invite \cup {Nobody} :
            /\ flow' = [flow EXCEPT ![p] = [pc |-> pc, code |-> code]]
            /\ \/ /\ flow[p].pc = "idle" /\ pc = "gate" /\ UNCHANGED <<user, linked>>
               \/ /\ flow[p].pc = "gate" /\ code = flow[p].code /\ UNCHANGED <<user, linked>>
                  /\ \/ pc = "account" /\ p \in linked
                     \/ pc = "setting" /\ p \notin linked
               \/ /\ flow[p].pc = "setting" /\ UNCHANGED <<user, linked>>
                  /\ \/ pc = "account" /\ code = flow[p].code /\ (code # Nobody => p \in walkIns')
                     \/ pc = "idle"
                     \/ pc = "consume" /\ code = flow[p].code /\ code # Nobody
               \/ /\ flow[p].pc = "account" /\ UNCHANGED <<user, linked>>
                  /\ \/ pc = "idle" /\ (p \in linked \/ p \in troubled')
                     \/ pc = "create" /\ code = flow[p].code /\ p \notin user
               \/ /\ flow[p].pc = "create" /\ pc = "backfill" /\ code = flow[p].code /\ p \in user' /\ UNCHANGED linked
               \/ /\ flow[p].pc = "create" /\ pc = "idle" /\ p \in troubled' /\ UNCHANGED <<user, linked>>
               \/ /\ flow[p].pc = "backfill" /\ pc = "link" /\ flow[p].code \in unlabelled' /\ UNCHANGED <<user, linked>>
               \/ /\ flow[p].pc = "link" /\ pc = "idle" /\ UNCHANGED user
    <2> DEFINE f(pc, code) == [flow EXCEPT ![p] = [pc |-> pc, code |-> code]]
    <2>1. /\ flow[p] = [pc |-> flow[p].pc, code |-> flow[p].code] /\ flow[p].code \in Invite \cup {Nobody}
          /\ cookie[p] \in Invite \cup {Nobody}
      BY <1>2 DEF RegistrationTypeOK
    <2>2. /\ \A pc \in SignInSteps : GotoFlow(p, pc) => flow' = f(pc, flow[p].code)
          /\ EndFlow(p) => flow' = f("idle", Nobody)
      BY <1>2, <2>1 DEF GotoFlow, EndFlow, NoFlow, RegistrationTypeOK
    <2>3. CASE SignIn(p)
      BY <2>1, <2>3 DEF SignIn, InFlow, SignInSteps
    <2>4. CASE Gate(p)
      BY <2>1, <2>2, <2>4 DEF Gate, InFlow, SignInSteps, HasAccount
    <2>5. CASE Setting(p)
      BY <2>1, <2>2, <2>5 DEF Setting, InFlow, SignInSteps
    <2>6. CASE Account(p)
      BY <2>1, <2>2, <2>6 DEF Account, InFlow, SignInSteps
    <2>7. CASE CreateUser(p)
      BY <2>1, <2>2, <2>7 DEF CreateUser, InFlow, SignInSteps
    <2>8. CASE LinkAccount(p)
      BY <2>1, <2>2, <2>8 DEF LinkAccount, InFlow, SignInSteps
    <2>9. CASE SignInFails(p)
      BY <2>1, <2>2, <2>9 DEF SignInFails, InFlow, SignInSteps
    <2> QED
      BY <2>3, <2>4, <2>5, <2>6, <2>7, <2>8, <2>9
  <1>5. flow' \in [Person -> [pc : SignInSteps, code : Invite \cup {Nobody}]]
        /\ flow'[p] = [pc |-> pc, code |-> code] /\ \A q \in Person \ {p} : flow'[q] = flow[q]
    BY <1>2, <1>4 DEF RegistrationTypeOK
  <1>6. FlowsFit /\ PendingFits
    BY DEF RegistrationFits
  <1>7. linked' \subseteq user'
    BY <1>2, <1>3, <1>4, <1>6 DEF FlowsFit, RegistrationTypeOK
  <1>8. RegistrationTypeOK'
    BY <1>1, <1>2, <1>3, <1>5, <1>7 DEF RegistrationTypeOK
  <1>9. FlowsFit'
    <2>1. \A q \in Person \ {p} : (q \in user' <=> q \in user) /\ (q \in linked' <=> q \in linked)
      BY <1>3
    <2> QED
      BY <1>1, <1>2, <1>3, <1>4, <1>5, <1>6, <2>1 DEF FlowsFit, RegistrationTypeOK
  <1>10. PendingFits'
    <2>1. SUFFICES ASSUME NEW c \in Invite, invites[c].st = "pending", c \notin unlabelled',
                          ~(invites[c].by \in Person /\ invites[c].by \in troubled')
                   PROVE  LET q == invites[c].by
                          IN  /\ q \in Person /\ q \notin linked' /\ flow'[q].code = c
                              /\ flow'[q].pc \in {"account", "create", "backfill"}
      BY <1>1 DEF PendingFits
    <2>2. LET q == invites[c].by
          IN  /\ q \in Person /\ q \notin linked /\ flow[q].code = c
              /\ flow[q].pc \in {"account", "create", "backfill"}
      BY <1>3, <1>6, <2>1 DEF PendingFits
    <2>3. CASE invites[c].by = p
      BY <1>2, <1>4, <1>5, <2>1, <2>2, <2>3 DEF RegistrationTypeOK
    <2>4. CASE invites[c].by # p
      BY <1>3, <1>5, <2>2, <2>4
    <2> QED
      BY <2>3, <2>4
  <1>11. UnspentFits' /\ OneUserPerCode' /\ UsedNamesItsUser' /\ KeepsUsed
    BY <1>1, <1>3 DEF RegistrationFits, UnspentFits, OneUserPerCode, UsedNamesItsUser, KeepsUsed
  <1> QED
    BY <1>8, <1>9, <1>10, <1>11 DEF RegistrationFits

LEMMA ConsumeFits ==
    ASSUME RegistrationFits, NEW p \in Person, Consume(p)
    PROVE  RegistrationFits' /\ KeepsUsed
  <1> DEFINE c == flow[p].code
  <1>1. /\ flow[p].pc = "consume" /\ UNCHANGED <<required, user, linked, cookie, walkIns, troubled, unlabelled, removed>>
        /\ RegistrationTypeOK /\ FlowsFit /\ UnspentFits /\ PendingFits /\ OneUserPerCode /\ UsedNamesItsUser
    BY DEF Consume, InFlow, RegistrationFits
  <1>2. c \in Invite /\ p \notin linked /\ flow[p] = [pc |-> "consume", code |-> c]
    BY <1>1 DEF FlowsFit, RegistrationTypeOK
  <1>3. CASE invites[c].st # "free"
    <2>1. flow' = [flow EXCEPT ![p] = NoFlow] /\ UNCHANGED <<invites, consumed>>
      BY <1>3 DEF Consume, Consumable, EndFlow
    <2>2. flow'[p] = NoFlow /\ \A q \in Person \ {p} : flow'[q] = flow[q]
      BY <1>1, <2>1 DEF RegistrationTypeOK
    <2>3. RegistrationTypeOK'
      BY <1>1, <2>1 DEF RegistrationTypeOK, NoFlow, SignInSteps
    <2>4. FlowsFit' /\ PendingFits'
      BY <1>1, <2>1, <2>2 DEF FlowsFit, PendingFits, NoFlow
    <2> QED
      BY <1>1, <2>1, <2>3, <2>4 DEF RegistrationFits, UnspentFits, OneUserPerCode, UsedNamesItsUser, KeepsUsed
  <1>4. CASE invites[c].st = "free"
    <2>1. /\ invites' = [invites EXCEPT ![c] = Row("pending", p)]
          /\ consumed' = [consumed EXCEPT ![p] = @ \cup {c}]
          /\ flow' = [flow EXCEPT ![p].pc = "account"]
      BY <1>4 DEF Consume, Consumable, GotoFlow
    <2>2. /\ flow'[p] = [pc |-> "account", code |-> c] /\ \A q \in Person \ {p} : flow'[q] = flow[q]
          /\ invites'[c] = [st |-> "pending", by |-> p] /\ \A d \in Invite \ {c} : invites'[d] = invites[d]
          /\ consumed'[p] = consumed[p] \cup {c} /\ \A q \in Person \ {p} : consumed'[q] = consumed[q]
      BY <1>1, <1>2, <2>1 DEF RegistrationTypeOK, Row
    <2>3. RegistrationTypeOK'
      <3>1. [st |-> "pending", by |-> p] \in [st : {"none", "free", "pending", "used"}, by : Person \cup {Nobody}]
        OBVIOUS
      <3>2. [pc |-> "account", code |-> c] \in [pc : SignInSteps, code : Invite \cup {Nobody}]
        BY <1>2 DEF SignInSteps
      <3>3. flow' = [flow EXCEPT ![p] = [pc |-> "account", code |-> c]]
        BY <1>1, <2>1, FlowGoes DEF GotoFlow
      <3> QED
        BY <1>1, <1>2, <2>1, <3>1, <3>2, <3>3 DEF RegistrationTypeOK, Row
    <2>4. \A q \in Person : c \notin consumed[q]
      BY <1>1, <1>2, <1>4 DEF UnspentFits
    <2>5. FlowsFit'
      BY <1>1, <1>2, <2>2 DEF FlowsFit
    <2>6. UnspentFits'
      BY <1>1, <1>2, <2>2 DEF UnspentFits
    <2>7. PendingFits'
      BY <1>1, <1>2, <2>2 DEF PendingFits
    <2>8. OneUserPerCode' /\ UsedNamesItsUser' /\ KeepsUsed
      <3>1. OneUserPerCode'
        BY <1>1, <1>2, <2>2, <2>4 DEF OneUserPerCode
      <3>2. KeepsUsed
        BY <1>2, <1>4, <2>2 DEF KeepsUsed
      <3>3. \A d \in Invite, q \in Person : d \in consumed[q] => d \in consumed'[q]
        BY <2>2
      <3>4. ASSUME NEW d \in Invite, invites'[d].st = "used"
            PROVE  d \in consumed'[invites'[d].by] \/ invites'[d].by \in walkIns'
        <4>1. d # c /\ invites'[d] = invites[d] /\ invites[d].by \in Person \cup {Nobody}
          BY <1>1, <1>2, <2>2, <3>4 DEF RegistrationTypeOK
        <4>2. d \in consumed[invites[d].by] \/ invites[d].by \in walkIns
          BY <1>1, <3>4, <4>1 DEF UsedNamesItsUser
        <4>3. invites[d].by \in Person /\ d \in consumed[invites[d].by] => d \in consumed'[invites[d].by]
          BY <3>3
        <4>4. invites[d].by = Nobody /\ Nobody \notin Person => consumed'[Nobody] = consumed[Nobody]
          BY <1>1, <2>1 DEF RegistrationTypeOK
        <4> QED
          BY <1>1, <4>1, <4>2, <4>3, <4>4
      <3> QED
        BY <3>1, <3>2, <3>4 DEF UsedNamesItsUser
    <2> QED
      BY <2>3, <2>5, <2>6, <2>7, <2>8 DEF RegistrationFits
  <1> QED
    BY <1>3, <1>4

LEMMA BackfillFits ==
    ASSUME RegistrationFits, NEW p \in Person, Backfill(p)
    PROVE  RegistrationFits' /\ KeepsUsed
  <1> DEFINE c == flow[p].code
  <1>1. /\ flow[p].pc = "backfill" /\ UNCHANGED <<required, user, linked, cookie, consumed, walkIns, troubled, unlabelled, removed>>
        /\ flow' = [flow EXCEPT ![p].pc = "link"]
        /\ invites' = [d \in Invite |-> IF d \in Placeholders(p) THEN Row("used", p) ELSE invites[d]]
        /\ RegistrationTypeOK /\ FlowsFit /\ UnspentFits /\ PendingFits /\ OneUserPerCode /\ UsedNamesItsUser
    BY DEF Backfill, InFlow, GotoFlow, RegistrationFits
  <1>2. /\ flow'[p] = [pc |-> "link", code |-> c] /\ \A q \in Person \ {p} : flow'[q] = flow[q]
        /\ flow' = [flow EXCEPT ![p] = [pc |-> "link", code |-> c]]
    <2>1. flow[p] = [pc |-> "backfill", code |-> c]
      BY <1>1 DEF RegistrationTypeOK
    <2>2. flow' = [flow EXCEPT ![p] = [pc |-> "link", code |-> c]]
      BY <1>1, FlowGoes DEF Backfill
    <2> QED
      BY <1>1, <2>2 DEF RegistrationTypeOK
  <1>3. \A d \in Invite :
           \/ invites'[d] = invites[d] /\ (invites[d].st = "pending" => d # c)
           \/ invites'[d] = [st |-> "used", by |-> p] /\ d = c /\ invites[d].st = "pending"
    BY <1>1 DEF Placeholders, Row
  <1>4. c \in Invite => c \in consumed[p] \/ p \in walkIns
    BY RegistrationAssumption, <1>1 DEF FlowsFit
  <1>5. RegistrationTypeOK'
    <2>1. [pc |-> "link", code |-> c] \in [pc : SignInSteps, code : Invite \cup {Nobody}]
      BY <1>1 DEF SignInSteps, RegistrationTypeOK
    <2>2. \A d \in Invite : invites'[d] \in [st : {"none", "free", "pending", "used"}, by : Person \cup {Nobody}]
      BY <1>1, <1>3 DEF RegistrationTypeOK
    <2>3. invites' \in [Invite -> [st : {"none", "free", "pending", "used"}, by : Person \cup {Nobody}]]
      BY <1>1, <2>2
    <2> QED
      BY <1>1, <1>2, <2>1, <2>3 DEF RegistrationTypeOK
  <1>6. FlowsFit'
    BY <1>1, <1>2 DEF FlowsFit
  <1>7. UnspentFits' /\ KeepsUsed
    BY <1>1, <1>3 DEF UnspentFits, KeepsUsed
  <1>8. PendingFits'
    BY <1>1, <1>2, <1>3 DEF PendingFits
  <1>9. OneUserPerCode' /\ UsedNamesItsUser'
    BY <1>1, <1>3, <1>4 DEF OneUserPerCode, UsedNamesItsUser
  <1> QED
    BY <1>5, <1>6, <1>7, <1>8, <1>9 DEF RegistrationFits

LEMMA RegistrationStepFits ==
    ASSUME RegistrationFits, [RegistrationNext]_registrationVars
    PROVE  RegistrationFits' /\ KeepsUsed
  <1>1. CASE UNCHANGED registrationVars
    BY <1>1 DEF registrationVars, RegistrationFits, RegistrationTypeOK, FlowsFit, UnspentFits, PendingFits,
                OneUserPerCode, UsedNamesItsUser, KeepsUsed
  <1>2. CASE PutRequired \/ FetchRows \/ (\E p \in Person : ForgetCookie(p) \/ \E c \in Invite : VerifyInvite(p, c))
    <2>1. UNCHANGED <<invites, user, linked, flow, consumed, walkIns, troubled, unlabelled, removed>>
      BY <1>2 DEF PutRequired, FetchRows, ForgetCookie, VerifyInvite
    <2>2. RegistrationTypeOK'
      BY <1>2, <2>1 DEF RegistrationFits, RegistrationTypeOK, PutRequired, FetchRows, ForgetCookie, VerifyInvite
    <2> QED
      BY <2>1, <2>2 DEF RegistrationFits, FlowsFit, UnspentFits, PendingFits, OneUserPerCode, UsedNamesItsUser, KeepsUsed
  <1>3. CASE \E c \in Invite : PostInvite(c) \/ DeleteCode(c)
    BY <1>3, InvitesFit
  <1>4. CASE \E p \in Person : SignIn(p) \/ Gate(p) \/ Setting(p) \/ Account(p) \/ CreateUser(p) \/ LinkAccount(p) \/ SignInFails(p)
    BY <1>4, SignInFits
  <1>5. CASE \E p \in Person : Consume(p) \/ Backfill(p)
    BY <1>5, ConsumeFits, BackfillFits
  <1> QED
    BY <1>1, <1>2, <1>3, <1>4, <1>5 DEF RegistrationNext

\* Between sign-ins nothing is under way that a pending code could belong to.
LEMMA BurnedFollows == RegistrationFits => BurnedOnlyByFailure
  BY DEF RegistrationFits, PendingFits, BurnedOnlyByFailure, AllIdle, InFlow

-----------------------------------------------------------------------------
(* Logging a machine in.                                                   *)

CodeSteps == {"code", "invalidate", "readKey", "mint", "reread", "consume"}
LoginRecord == [pc : CodeSteps \cup {"idle", "browser", "browserMint", "answer"},
                machine : Machine \cup {NoKey}, code : LoginCode \cup {NoKey},
                got : Nat \cup {NoKey}, waiting : BOOLEAN]

LoginRow == [there : BOOLEAN, old : BOOLEAN, used : BOOLEAN, failed : BOOLEAN]

LoginTypeOK ==
    /\ key \in Nat \cup {NoKey} /\ minted \in Nat
    /\ loginCodes \in [LoginCode -> LoginRow]
    /\ token \in [Machine -> Nat \cup {NoKey}]
    /\ req \in [LoginRequest -> LoginRecord]
    /\ granted \in [LoginCode -> Nat]

\* The keys that a machine may rightly hold, or an answer bring.
Known == {NoKey, key} \cup clobbered

LoginRequestFits(r) == req[r].got \in Known /\ (req[r].pc \in CodeSteps => req[r].code \in LoginCode)
GrantedFits == \A c \in LoginCode : granted[c] = 0 \/ (granted[c] = 1 /\ loginCodes[c].used)

LoginFits ==
    /\ LoginTypeOK /\ TokensWork /\ GrantedFits
    /\ \A r \in LoginRequest : LoginRequestFits(r)

LEMMA LoginStarts == ASSUME LoginInit PROVE LoginFits
  BY DEF LoginInit, LoginFits, LoginTypeOK, TokensWork, GrantedFits, LoginRequestFits, Known, NoCode, NoLogin,
         LoginRecord, LoginRow, CodeSteps

\* What the helpers do to a request.
LEMMA LoginGoes ==
    ASSUME LoginTypeOK, NEW r \in LoginRequest, NEW pc, GotoLogin(r, pc)
    PROVE  req' = [req EXCEPT ![r] = [pc |-> pc, machine |-> req[r].machine, code |-> req[r].code,
                                      got |-> req[r].got, waiting |-> req[r].waiting]]
  <1>1. req[r] = [pc |-> req[r].pc, machine |-> req[r].machine, code |-> req[r].code,
                  got |-> req[r].got, waiting |-> req[r].waiting]
    BY DEF LoginTypeOK, LoginRecord
  <1>2. [req[r] EXCEPT !.pc = pc] = [pc |-> pc, machine |-> req[r].machine, code |-> req[r].code,
                                     got |-> req[r].got, waiting |-> req[r].waiting]
    BY <1>1
  <1> QED
    BY <1>2 DEF GotoLogin

LEMMA LoginGoesWith ==
    ASSUME LoginTypeOK, NEW r \in LoginRequest, NEW pc, NEW k, GotoWith(r, pc, k)
    PROVE  req' = [req EXCEPT ![r] = [pc |-> pc, machine |-> req[r].machine, code |-> req[r].code,
                                      got |-> k, waiting |-> req[r].waiting]]
  <1> DEFINE gone == [pc |-> pc, machine |-> req[r].machine, code |-> req[r].code,
                      got |-> req[r].got, waiting |-> req[r].waiting]
  <1>1. req[r] = [pc |-> req[r].pc, machine |-> req[r].machine, code |-> req[r].code,
                  got |-> req[r].got, waiting |-> req[r].waiting]
    BY DEF LoginTypeOK, LoginRecord
  <1>2. [req[r] EXCEPT !.pc = pc] = gone
    BY <1>1
  <1>3. [req[r] EXCEPT !.pc = pc, !.got = k] = [[req[r] EXCEPT !.pc = pc] EXCEPT !.got = k]
    BY <1>1
  <1>4. [gone EXCEPT !.got = k] = [pc |-> pc, machine |-> req[r].machine, code |-> req[r].code,
                                   got |-> k, waiting |-> req[r].waiting]
    OBVIOUS
  <1>5. req' = [req EXCEPT ![r] = [req[r] EXCEPT !.pc = pc, !.got = k]]
    BY DEF GotoWith, LoginTypeOK
  <1> QED
    BY <1>2, <1>3, <1>4, <1>5

\* One request moves on and no key is forgotten: the requests still fit.
LEMMA LoginRequestMoves ==
    ASSUME LoginFits, NEW r \in LoginRequest, NEW new \in LoginRecord,
           req' = [req EXCEPT ![r] = new],
           new.got \in Known', new.pc \in CodeSteps => new.code \in LoginCode,
           Known \subseteq Known'
    PROVE  req' \in [LoginRequest -> LoginRecord] /\ \A q \in LoginRequest : LoginRequestFits(q)'
  <1>1. req \in [LoginRequest -> LoginRecord]
    BY DEF LoginFits, LoginTypeOK
  <1>2. req'[r] = new /\ \A q \in LoginRequest \ {r} : req'[q] = req[q]
    BY <1>1
  <1> QED
    BY <1>1, <1>2 DEF LoginFits, LoginRequestFits

\* The steps that only move a request on.
LEMMA MovesFit ==
    ASSUME LoginFits, NEW r \in LoginRequest,
           \/ \E m \in Machine, c \in LoginCode \cup {NoKey}, force \in BOOLEAN : Login(r, m, c, force)
           \/ GiveUp(r) \/ BrowserReadsKey(r) \/ ReadCode(r) \/ ReadKey(r) \/ RereadKey(r) \/ LoginFails(r)
    PROVE  LoginFits'
  <1>1. LoginTypeOK /\ LoginRequestFits(r) /\ req[r] \in LoginRecord
    BY DEF LoginFits, LoginTypeOK
  <1>2. UNCHANGED <<server, token>>
    BY DEF Login, GiveUp, BrowserReadsKey, ReadCode, ReadKey, RereadKey, LoginFails
  <1>3. PICK new \in LoginRecord :
           /\ req' = [req EXCEPT ![r] = new]
           /\ new.got \in Known /\ (new.pc \in CodeSteps => new.code \in LoginCode)
    <2>1. NoLogin \in LoginRecord /\ NoLogin.got \in Known /\ NoLogin.pc \notin CodeSteps
      BY DEF NoLogin, LoginRecord, Known, CodeSteps
    <2>2. CASE \E m \in Machine, c \in LoginCode \cup {NoKey}, force \in BOOLEAN : Login(r, m, c, force)
      <3>1. PICK m \in Machine, c \in LoginCode \cup {NoKey}, force \in BOOLEAN : Login(r, m, c, force)
        BY <2>2
      <3> DEFINE new == [pc |-> Flow(c), machine |-> m, code |-> c, got |-> NoKey, waiting |-> TRUE]
      <3>2. new \in LoginRecord /\ new.got \in Known /\ (new.pc \in CodeSteps => new.code \in LoginCode)
        BY DEF Flow, LoginRecord, CodeSteps, Known
      <3> QED
        BY <3>1, <3>2 DEF Login
    <2>3. CASE GiveUp(r)
      <3> DEFINE new == [pc |-> req[r].pc, machine |-> req[r].machine, code |-> req[r].code,
                         got |-> req[r].got, waiting |-> FALSE]
      <3>4. req[r] = [pc |-> req[r].pc, machine |-> req[r].machine, code |-> req[r].code,
                      got |-> req[r].got, waiting |-> req[r].waiting]
        BY <1>1 DEF LoginRecord
      <3>1. ASSUME NEW w
            PROVE  [req[r] EXCEPT !.waiting = w]
                      = [pc |-> req[r].pc, machine |-> req[r].machine, code |-> req[r].code,
                         got |-> req[r].got, waiting |-> w]
        BY <3>4
      <3>3. new \in LoginRecord
        BY <1>1 DEF LoginRecord
      <3>2. new.got \in Known /\ (new.pc \in CodeSteps => new.code \in LoginCode)
        BY <1>1 DEF LoginRequestFits
      <3> QED
        BY <2>3, <3>1, <3>2, <3>3 DEF GiveUp
    <2>4. CASE EndLogin(r)
      BY <2>1, <2>4 DEF EndLogin
    <2>5. ASSUME NEW pc \in {"invalidate", "readKey", "mint", "reread", "browserMint"}, GotoLogin(r, pc),
                 pc = "browserMint" \/ req[r].pc \in CodeSteps
          PROVE  \E new \in LoginRecord :
                    /\ req' = [req EXCEPT ![r] = new]
                    /\ new.got \in Known /\ (new.pc \in CodeSteps => new.code \in LoginCode)
      <3> DEFINE new == [pc |-> pc, machine |-> req[r].machine, code |-> req[r].code,
                         got |-> req[r].got, waiting |-> req[r].waiting]
      <3>1. new \in LoginRecord /\ new.got \in Known /\ (new.pc \in CodeSteps => new.code \in LoginCode)
        BY <1>1, <2>5 DEF LoginRecord, LoginRequestFits, CodeSteps
      <3> QED
        BY <1>1, <2>5, <3>1, LoginGoes
    <2>6. ASSUME NEW pc \in {"consume", "answer"}, GotoWith(r, pc, key),
                 pc = "answer" \/ req[r].pc \in CodeSteps
          PROVE  \E new \in LoginRecord :
                    /\ req' = [req EXCEPT ![r] = new]
                    /\ new.got \in Known /\ (new.pc \in CodeSteps => new.code \in LoginCode)
      <3> DEFINE new == [pc |-> pc, machine |-> req[r].machine, code |-> req[r].code,
                         got |-> key, waiting |-> req[r].waiting]
      <3>1. new \in LoginRecord /\ new.got \in Known /\ (new.pc \in CodeSteps => new.code \in LoginCode)
        BY <1>1, <2>6 DEF LoginRecord, LoginTypeOK, LoginRequestFits, CodeSteps, Known
      <3> QED
        BY <1>1, <2>6, <3>1, LoginGoesWith
    <2>7. CASE BrowserReadsKey(r) \/ ReadCode(r) \/ ReadKey(r) \/ RereadKey(r) \/ LoginFails(r)
      <3>1. \/ EndLogin(r) \/ GotoLogin(r, "browserMint") \/ GotoWith(r, "answer", key)
            \/ /\ req[r].pc \in CodeSteps
               /\ \/ GotoLogin(r, "invalidate") \/ GotoLogin(r, "readKey") \/ GotoLogin(r, "mint")
                  \/ GotoLogin(r, "reread") \/ GotoWith(r, "consume", key)
        BY <2>7 DEF BrowserReadsKey, ReadCode, ReadKey, RereadKey, LoginFails, LoginAt, CodeSteps
      <3> QED
        BY <2>4, <2>5, <2>6, <3>1
    <2> QED
      BY <2>2, <2>3, <2>7
  <1>4. Known' = Known
    BY <1>2 DEF server, Known
  <1>5. req' \in [LoginRequest -> LoginRecord] /\ \A q \in LoginRequest : LoginRequestFits(q)'
    BY <1>3, <1>4, LoginRequestMoves
  <1> QED
    BY <1>2, <1>5 DEF LoginFits, LoginTypeOK, TokensWork, GrantedFits, server

\* The answer, and what a user does.
LEMMA LoginAnswersFit ==
    ASSUME LoginFits, NEW r \in LoginRequest, AnswerLogin(r)
    PROVE  LoginFits'
  <1>1. LoginTypeOK /\ LoginRequestFits(r) /\ req[r] \in LoginRecord /\ UNCHANGED server /\ TokensWork
    BY DEF LoginFits, LoginTypeOK, AnswerLogin
  <1>2. NoLogin \in LoginRecord /\ NoLogin.got \in Known' /\ NoLogin.pc \notin CodeSteps
    BY DEF NoLogin, LoginRecord, Known, CodeSteps
  <1>3. req' \in [LoginRequest -> LoginRecord] /\ \A q \in LoginRequest : LoginRequestFits(q)'
    BY <1>1, <1>2, LoginRequestMoves DEF AnswerLogin, EndLogin, Known, server
  <1>4. token' = token \/ token' = [token EXCEPT ![req[r].machine] = req[r].got]
    BY DEF AnswerLogin
  <1>5. token' \in [Machine -> Nat \cup {NoKey}] /\ \A m \in Machine : token'[m] \in {token[m], req[r].got}
    BY <1>1, <1>4 DEF LoginTypeOK, LoginRecord
  <1>6. TokensWork'
    BY <1>1, <1>5 DEF TokensWork, LoginRequestFits, Known, server
  <1> QED
    BY <1>1, <1>3, <1>5, <1>6 DEF LoginFits, LoginTypeOK, GrantedFits, server

LEMMA OthersFit ==
    ASSUME LoginFits,
           (\E c \in LoginCode : PostLoginCode(c) \/ CodeExpires(c)) \/ (\E m \in Machine : Logout(m))
    PROVE  LoginFits'
  <1>1. UNCHANGED <<key, minted, req, granted, clobbered>>
    BY DEF PostLoginCode, CodeExpires, Logout, server
  <1>2. LoginTypeOK /\ TokensWork /\ GrantedFits
    BY DEF LoginFits
  <1>3. /\ loginCodes' \in [LoginCode -> LoginRow]
        /\ \A d \in LoginCode : loginCodes'[d].used = loginCodes[d].used
    <2>0. \A c \in LoginCode : loginCodes[c] \in LoginRow
      BY <1>2 DEF LoginTypeOK
    <2>1. ASSUME NEW c \in LoginCode, PostLoginCode(c)
          PROVE  /\ loginCodes' \in [LoginCode -> LoginRow]
                 /\ \A d \in LoginCode : loginCodes'[d].used = loginCodes[d].used
      <3>1. [loginCodes[c] EXCEPT !.there = TRUE] \in LoginRow
        BY <2>0 DEF LoginRow
      <3>2. [loginCodes[c] EXCEPT !.there = TRUE].used = loginCodes[c].used
        BY <2>0 DEF LoginRow
      <3> QED
        BY <1>2, <2>1, <3>1, <3>2 DEF LoginTypeOK, PostLoginCode
    <2>2. ASSUME NEW c \in LoginCode, CodeExpires(c)
          PROVE  /\ loginCodes' \in [LoginCode -> LoginRow]
                 /\ \A d \in LoginCode : loginCodes'[d].used = loginCodes[d].used
      <3>1. [loginCodes[c] EXCEPT !.old = TRUE] \in LoginRow
        BY <2>0 DEF LoginRow
      <3>2. [loginCodes[c] EXCEPT !.old = TRUE].used = loginCodes[c].used
        BY <2>0 DEF LoginRow
      <3> QED
        BY <1>2, <2>2, <3>1, <3>2 DEF LoginTypeOK, CodeExpires
    <2>3. CASE \E m \in Machine : Logout(m)
      BY <1>2, <2>3 DEF LoginTypeOK, Logout, server
    <2> QED
      BY <2>1, <2>2, <2>3
  <1>4. token' \in [Machine -> Nat \cup {NoKey}] /\ \A m \in Machine : token'[m] \in {token[m], NoKey}
    BY <1>2 DEF LoginTypeOK, PostLoginCode, CodeExpires, Logout
  <1>5. LoginTypeOK' /\ TokensWork' /\ GrantedFits'
    BY <1>1, <1>2, <1>3, <1>4 DEF LoginTypeOK, TokensWork, GrantedFits
  <1> QED
    BY <1>1, <1>5 DEF LoginFits, LoginRequestFits, Known

\* The steps that write a key.
LEMMA MintsFit ==
    ASSUME LoginFits, NEW r \in LoginRequest, BrowserWritesKey(r) \/ MintKey(r)
    PROVE  LoginFits'
  <1>1. /\ LoginTypeOK /\ LoginRequestFits(r) /\ req[r] \in LoginRecord /\ TokensWork
        /\ UNCHANGED <<loginCodes, token, granted>>
    BY DEF LoginFits, LoginTypeOK, BrowserWritesKey, MintKey
  <1>2. /\ key' \in Nat \cup {NoKey} /\ minted' \in Nat
        /\ Known \subseteq Known'
    <2>1. \/ minted' = minted + 1 /\ key' = minted'
          \/ UNCHANGED <<minted, key>>
      BY DEF BrowserWritesKey, MintKey
    <2>2. key' = key \/ key = NoKey \/ key \in clobbered'
      BY DEF BrowserWritesKey, MintKey, MayMint
    <2>3. clobbered \subseteq clobbered'
      BY DEF BrowserWritesKey, MintKey
    <2> QED
      BY <1>1, <2>1, <2>2, <2>3 DEF LoginTypeOK, Known
  <1>3. CASE GotoLogin(r, "reread") /\ req[r].pc \in CodeSteps
    <2> DEFINE new == [pc |-> "reread", machine |-> req[r].machine, code |-> req[r].code,
                       got |-> req[r].got, waiting |-> req[r].waiting]
    <2>1. new \in LoginRecord /\ new.got \in Known' /\ (new.pc \in CodeSteps => new.code \in LoginCode)
      BY <1>1, <1>2, <1>3 DEF LoginRecord, LoginRequestFits, CodeSteps
    <2>2. req' = [req EXCEPT ![r] = new]
      BY <1>1, <1>3, LoginGoes
    <2>3. req' \in [LoginRequest -> LoginRecord] /\ \A q \in LoginRequest : LoginRequestFits(q)'
      BY <1>2, <2>1, <2>2, LoginRequestMoves
    <2> QED
      BY <1>1, <1>2, <2>3 DEF LoginFits, LoginTypeOK, TokensWork, GrantedFits, Known
  <1>4. ASSUME NEW pc \in {"answer", "consume"}, GotoWith(r, pc, key'), pc = "answer" \/ req[r].pc \in CodeSteps
        PROVE  LoginFits'
    <2> DEFINE new == [pc |-> pc, machine |-> req[r].machine, code |-> req[r].code,
                       got |-> key', waiting |-> req[r].waiting]
    <2>1. new \in LoginRecord /\ new.got \in Known' /\ (new.pc \in CodeSteps => new.code \in LoginCode)
      BY <1>1, <1>2, <1>4 DEF LoginRecord, LoginRequestFits, CodeSteps, Known
    <2>2. req' = [req EXCEPT ![r] = new]
      BY <1>1, <1>4, LoginGoesWith
    <2>3. req' \in [LoginRequest -> LoginRecord] /\ \A q \in LoginRequest : LoginRequestFits(q)'
      BY <1>2, <2>1, <2>2, LoginRequestMoves
    <2> QED
      BY <1>1, <1>2, <2>3 DEF LoginFits, LoginTypeOK, TokensWork, GrantedFits, Known
  <1>5. \/ GotoLogin(r, "reread") /\ req[r].pc \in CodeSteps
        \/ GotoWith(r, "answer", key')
        \/ GotoWith(r, "consume", key') /\ req[r].pc \in CodeSteps
    BY DEF BrowserWritesKey, MintKey, LoginAt, CodeSteps
  <1> QED
    BY <1>3, <1>4, <1>5

\* The steps that write a code.
LEMMA CodesFit ==
    ASSUME LoginFits, NEW r \in LoginRequest, InvalidateCode(r) \/ ConsumeCode(r)
    PROVE  LoginFits'
  <1> DEFINE c == req[r].code
  <1>1. /\ LoginTypeOK /\ LoginRequestFits(r) /\ req[r] \in LoginRecord /\ TokensWork /\ GrantedFits
        /\ UNCHANGED <<key, minted, token, clobbered>> /\ req[r].pc \in CodeSteps
    BY DEF LoginFits, LoginTypeOK, InvalidateCode, ConsumeCode, LoginAt, CodeSteps
  <1>2. c \in LoginCode /\ Known' = Known
    BY <1>1 DEF LoginRequestFits, Known
  <1>3. req' \in [LoginRequest -> LoginRecord] /\ \A q \in LoginRequest : LoginRequestFits(q)'
    <2>1. CASE EndLogin(r)
      <3>1. NoLogin \in LoginRecord /\ NoLogin.got \in Known' /\ NoLogin.pc \notin CodeSteps
        BY DEF NoLogin, LoginRecord, Known, CodeSteps
      <3> QED
        BY <1>2, <2>1, <3>1, LoginRequestMoves DEF EndLogin
    <2>2. CASE GotoLogin(r, "answer")
      <3> DEFINE new == [pc |-> "answer", machine |-> req[r].machine, code |-> req[r].code,
                         got |-> req[r].got, waiting |-> req[r].waiting]
      <3>1. new \in LoginRecord /\ new.got \in Known' /\ new.pc \notin CodeSteps
        BY <1>1, <1>2 DEF LoginRecord, LoginRequestFits, CodeSteps
      <3>2. req' = [req EXCEPT ![r] = new]
        BY <1>1, <2>2, LoginGoes
      <3> QED
        BY <1>2, <3>1, <3>2, LoginRequestMoves
    <2> QED
      BY <2>1, <2>2 DEF InvalidateCode, ConsumeCode
  <1>4. \/ /\ loginCodes' = [loginCodes EXCEPT ![c].failed = TRUE] \/ loginCodes' = loginCodes
           /\ granted' = granted
        \/ /\ ~loginCodes[c].used
           /\ loginCodes' = [loginCodes EXCEPT ![c].used = TRUE]
           /\ granted' = [granted EXCEPT ![c] = @ + 1]
    BY DEF InvalidateCode, ConsumeCode, Unspent
  <1>10. loginCodes[c] \in LoginRow
    BY <1>1, <1>2 DEF LoginTypeOK
  <1>11. /\ [loginCodes[c] EXCEPT !.failed = TRUE] \in LoginRow
        /\ [loginCodes[c] EXCEPT !.used = TRUE] \in LoginRow
    BY <1>10 DEF LoginRow
  <1>12. /\ [loginCodes[c] EXCEPT !.failed = TRUE].used = loginCodes[c].used
        /\ [loginCodes[c] EXCEPT !.used = TRUE].used
    BY <1>10 DEF LoginRow
  <1>5. /\ loginCodes' \in [LoginCode -> LoginRow]
        /\ granted' \in [LoginCode -> Nat]
        /\ \A d \in LoginCode :
              \/ loginCodes'[d].used = loginCodes[d].used /\ granted'[d] = granted[d]
              \/ ~loginCodes[d].used /\ loginCodes'[d].used /\ granted'[d] = granted[d] + 1
    <2>1. CASE loginCodes' = loginCodes /\ granted' = granted
      BY <1>1, <2>1 DEF LoginTypeOK
    <2>2. CASE loginCodes' = [loginCodes EXCEPT ![c].failed = TRUE] /\ granted' = granted
      BY <1>1, <1>2, <1>11, <1>12, <2>2 DEF LoginTypeOK
    <2>3. CASE /\ ~loginCodes[c].used /\ loginCodes' = [loginCodes EXCEPT ![c].used = TRUE]
               /\ granted' = [granted EXCEPT ![c] = @ + 1]
      <3>1. /\ loginCodes' \in [LoginCode -> LoginRow] /\ loginCodes'[c].used
            /\ \A d \in LoginCode \ {c} : loginCodes'[d] = loginCodes[d]
        BY <1>1, <1>2, <1>11, <1>12, <2>3 DEF LoginTypeOK
      <3>2. /\ granted' \in [LoginCode -> Nat] /\ granted'[c] = granted[c] + 1
            /\ \A d \in LoginCode \ {c} : granted'[d] = granted[d]
        BY <1>1, <1>2, <2>3 DEF LoginTypeOK
      <3> QED
        BY <2>3, <3>1, <3>2
    <2> QED
      BY <1>4, <2>1, <2>2, <2>3
  <1>6. GrantedFits'
    BY <1>1, <1>5 DEF GrantedFits
  <1> QED
    BY <1>1, <1>3, <1>5, <1>6 DEF LoginFits, LoginTypeOK, TokensWork

LEMMA LoginStepFits == ASSUME LoginFits, [LoginNext]_loginVars PROVE LoginFits'
  <1>1. CASE UNCHANGED loginVars
    BY <1>1 DEF loginVars, LoginFits, LoginTypeOK, TokensWork, GrantedFits, LoginRequestFits, Known
  <1>2. CASE \E r \in LoginRequest :
                \/ \E m \in Machine, c \in LoginCode \cup {NoKey}, force \in BOOLEAN : Login(r, m, c, force)
                \/ GiveUp(r) \/ BrowserReadsKey(r) \/ ReadCode(r) \/ ReadKey(r) \/ RereadKey(r) \/ LoginFails(r)
    BY <1>2, MovesFit
  <1>3. CASE \E r \in LoginRequest : AnswerLogin(r)
    BY <1>3, LoginAnswersFit
  <1>4. CASE \E r \in LoginRequest : BrowserWritesKey(r) \/ MintKey(r)
    BY <1>4, MintsFit
  <1>5. CASE \E r \in LoginRequest : InvalidateCode(r) \/ ConsumeCode(r)
    BY <1>5, CodesFit
  <1>6. CASE (\E c \in LoginCode : PostLoginCode(c) \/ CodeExpires(c)) \/ (\E m \in Machine : Logout(m))
    BY <1>6, OthersFit
  <1> QED
    BY <1>1, <1>2, <1>3, <1>4, <1>5, <1>6 DEF LoginNext

LEMMA OneLoginFollows == LoginFits => OneLoginPerCode
  BY DEF LoginFits, LoginTypeOK, GrantedFits, OneLoginPerCode

-----------------------------------------------------------------------------
(* Editing organizations.                                                  *)

Word == Text \cup {0, 1, Closed}
OrgRow == [live : BOOLEAN, name : Word, slug : Word]
FormRecord == [of : Organization \cup {Closed}, name : Word, slug : Word]
TaskRecord == [pc : {"idle", "post", "insert", "patch", "update"}, of : Organization \cup {Closed},
               name : Word, slug : Word, sent : SUBSET Field, typed : SUBSET Field]

OrgTypeOK ==
    /\ org \in [Organization -> OrgRow] /\ rows \in [Admin -> [Organization -> OrgRow]]
    /\ form \in [Admin -> FormRecord] /\ task \in [Admin -> TaskRecord]
    /\ typedFields \in [Admin -> SUBSET Field] /\ under \in [Admin -> SUBSET Field]

\* What differs from the row was typed, or changed under the open form.
FormFits(a) ==
    form[a].of # Closed =>
        /\ form[a].of \in Organization
        /\ \A f \in Field : form[a][f] # rows[a][form[a].of][f] => f \in typedFields[a] \cup under[a]

TaskFits(a) ==
    /\ task[a].pc # "idle" => task[a].of \in Organization
    /\ task[a].sent \subseteq task[a].typed

OrgFits == OrgTypeOK /\ SlugsAreUnique /\ \A a \in Admin : FormFits(a) /\ TaskFits(a)

LEMMA OrgStarts == ASSUME OrgInit PROVE OrgFits
  <1>1. Absent \in OrgRow /\ NoForm \in FormRecord /\ NoTask \in TaskRecord
    BY DEF Absent, NoForm, NoTask, OrgRow, FormRecord, TaskRecord, Word, Field
  <1>2. [live |-> TRUE, name |-> 1, slug |-> 1] \in OrgRow
    BY DEF OrgRow, Word
  <1>3. OrgTypeOK
    BY <1>1, <1>2 DEF OrgInit, OrgTypeOK
  <1>4. \A a \in Admin : FormFits(a) /\ TaskFits(a)
    BY DEF OrgInit, FormFits, TaskFits, NoForm, NoTask
  <1>5. SlugsAreUnique
    BY ExistingAssumption DEF OrgInit, SlugsAreUnique, Takes, Live, Absent
  <1> QED
    BY <1>3, <1>4, <1>5 DEF OrgFits

\* What the page does to its rows and its form.
PageBecomes(a, row, new, ty, un) ==
    /\ rows' = [rows EXCEPT ![a] = row] /\ form' = [form EXCEPT ![a] = new]
    /\ typedFields' = [typedFields EXCEPT ![a] = ty] /\ under' = [under EXCEPT ![a] = un]
    /\ row \in [Organization -> OrgRow] /\ new \in FormRecord /\ ty \in SUBSET Field /\ un \in SUBSET Field
    /\ new.of # Closed =>
          /\ new.of \in Organization
          /\ \A f \in Field : new[f] # row[new.of][f] => f \in ty \cup un

LEMMA PageKeepsFit ==
    ASSUME OrgTypeOK, NEW a \in Admin, \A b \in Admin : FormFits(b),
           NEW row, NEW new, NEW ty, NEW un, PageBecomes(a, row, new, ty, un)
    PROVE  /\ rows' \in [Admin -> [Organization -> OrgRow]] /\ form' \in [Admin -> FormRecord]
           /\ typedFields' \in [Admin -> SUBSET Field] /\ under' \in [Admin -> SUBSET Field]
           /\ \A b \in Admin : FormFits(b)'
  <1>1. /\ rows' \in [Admin -> [Organization -> OrgRow]] /\ form' \in [Admin -> FormRecord]
        /\ typedFields' \in [Admin -> SUBSET Field] /\ under' \in [Admin -> SUBSET Field]
        /\ rows'[a] = row /\ form'[a] = new /\ typedFields'[a] = ty /\ under'[a] = un
        /\ \A b \in Admin \ {a} : /\ rows'[b] = rows[b] /\ form'[b] = form[b]
                                  /\ typedFields'[b] = typedFields[b] /\ under'[b] = under[b]
    BY DEF OrgTypeOK, PageBecomes
  <1>2. ASSUME NEW b \in Admin PROVE FormFits(b)'
    <2>1. CASE b = a
      BY <1>1, <2>1 DEF FormFits, PageBecomes
    <2>2. CASE b # a
      BY <1>1, <2>2 DEF FormFits
    <2> QED
      BY <2>1, <2>2
  <1> QED
    BY <1>1, <1>2

\* What a page has stays as it is.
LEMMA PageHas ==
    ASSUME OrgTypeOK, NEW a \in Admin
    PROVE  /\ rows[a] \in [Organization -> OrgRow] /\ form[a] \in FormRecord
           /\ typedFields[a] \in SUBSET Field /\ under[a] \in SUBSET Field
           /\ rows = [rows EXCEPT ![a] = rows[a]] /\ form = [form EXCEPT ![a] = form[a]]
           /\ typedFields = [typedFields EXCEPT ![a] = typedFields[a]]
           /\ under = [under EXCEPT ![a] = under[a]]
           /\ NoForm \in FormRecord /\ NoForm.of = Closed
  BY DEF OrgTypeOK, NoForm, FormRecord, Word

LEMMA FetchBecomes ==
    ASSUME OrgTypeOK, NEW a \in Admin, FormFits(a), Fetch(a)
    PROVE  \E row, new, ty, un : PageBecomes(a, row, new, ty, un)
  <1> DEFINE o == form[a].of
             un == under[a] \cup {f \in Field : rows[a][o][f] # org[o][f]}
  <1>1. org \in [Organization -> OrgRow] /\ rows' = [rows EXCEPT ![a] = org]
    BY DEF Fetch, OrgTypeOK
  <1>2. CASE o # Closed /\ org[o].live
    <2>1. under' = [under EXCEPT ![a] = un] /\ UNCHANGED <<form, typedFields>> /\ un \in SUBSET Field
      BY <1>2, PageHas DEF Fetch
    <2>2. o \in Organization /\ \A f \in Field : form[a][f] # org[o][f] => f \in typedFields[a] \cup un
      BY <1>2 DEF FormFits
    <2>3. PageBecomes(a, org, form[a], typedFields[a], un)
      BY <1>1, <2>1, <2>2, PageHas DEF PageBecomes
    <2> QED
      BY <2>3
  <1>3. CASE ~(o # Closed /\ org[o].live)
    <2>1. PageBecomes(a, org, NoForm, {}, {})
      BY <1>1, <1>3, PageHas DEF PageBecomes, Fetch
    <2> QED
      BY <2>1
  <1> QED
    BY <1>2, <1>3

LEMMA FormBecomes ==
    ASSUME OrgTypeOK, NEW a \in Admin, FormFits(a),
           CloseForm(a) \/ \E o \in Organization : OpenForm(a, o)
    PROVE  \E row, new, ty, un : PageBecomes(a, row, new, ty, un)
  <1>1. CASE CloseForm(a)
    <2>1. PageBecomes(a, rows[a], NoForm, {}, {})
      BY <1>1, PageHas DEF PageBecomes, CloseForm
    <2> QED
      BY <2>1
  <1>2. ASSUME NEW o \in Organization, OpenForm(a, o)
        PROVE  \E row, new, ty, un : PageBecomes(a, row, new, ty, un)
    <2> DEFINE new == [of |-> o, name |-> rows[a][o].name, slug |-> rows[a][o].slug]
    <2>1. rows[a][o] \in OrgRow
      BY PageHas
    <2>2. new \in FormRecord /\ \A f \in Field : new[f] = rows[a][new.of][f]
      BY <2>1 DEF FormRecord, OrgRow, Field
    <2>3. PageBecomes(a, rows[a], new, {}, {})
      BY <1>2, <2>2, PageHas DEF PageBecomes, OpenForm
    <2> QED
      BY <2>3
  <1> QED
    BY <1>1, <1>2

LEMMA TypingBecomes ==
    ASSUME OrgTypeOK, NEW a \in Admin, FormFits(a), NEW f \in Field, NEW t \in Text, TypeInto(a, f, t)
    PROVE  \E row, new, ty, un : PageBecomes(a, row, new, ty, un)
  <1> DEFINE new == [form[a] EXCEPT ![f] = t]
  <1>1. form' = [form EXCEPT ![a] = new] /\ typedFields' = [typedFields EXCEPT ![a] = typedFields[a] \cup {f}]
    BY DEF TypeInto
  <1>2. new \in FormRecord /\ new.of = form[a].of /\ \A g \in Field \ {f} : new[g] = form[a][g]
    BY PageHas DEF FormRecord, Field, Word
  <1>3. PageBecomes(a, rows[a], new, typedFields[a] \cup {f}, under[a])
    BY <1>1, <1>2, PageHas DEF PageBecomes, TypeInto, FormFits
  <1> QED
    BY <1>3

LEMMA PageFits ==
    ASSUME OrgFits, NEW a \in Admin,
           \/ Fetch(a) \/ CloseForm(a) \/ \E o \in Organization : OpenForm(a, o)
           \/ \E f \in Field, t \in Text : TypeInto(a, f, t)
    PROVE  OrgFits' /\ OnlyTyped
  <1>1. OrgTypeOK /\ SlugsAreUnique /\ UNCHANGED <<org, task>> /\ \A b \in Admin : FormFits(b) /\ TaskFits(b)
    BY DEF OrgFits, Fetch, CloseForm, OpenForm, TypeInto
  <1>2. \E row, new, ty, un : PageBecomes(a, row, new, ty, un)
    BY <1>1, FetchBecomes, FormBecomes, TypingBecomes
  <1>3. /\ rows' \in [Admin -> [Organization -> OrgRow]] /\ form' \in [Admin -> FormRecord]
        /\ typedFields' \in [Admin -> SUBSET Field] /\ under' \in [Admin -> SUBSET Field]
        /\ \A b \in Admin : FormFits(b)'
    BY <1>1, <1>2, PageKeepsFit
  <1>4. OrgTypeOK' /\ SlugsAreUnique' /\ \A b \in Admin : TaskFits(b)'
    BY <1>1, <1>3 DEF OrgTypeOK, SlugsAreUnique, Takes, Live, TaskFits
  <1> QED
    BY <1>1, <1>3, <1>4 DEF OrgFits, OnlyTyped

\* A page's request moves on: those of the others stay.
LEMMA TaskMoves ==
    ASSUME OrgTypeOK, \A b \in Admin : TaskFits(b), NEW a \in Admin, NEW new \in TaskRecord,
           task' = [task EXCEPT ![a] = new],
           new.pc # "idle" => new.of \in Organization, new.sent \subseteq new.typed
    PROVE  /\ task' \in [Admin -> TaskRecord] /\ \A b \in Admin : TaskFits(b)'
           /\ task'[a] = new /\ \A b \in Admin \ {a} : task'[b] = task[b]
  <1>1. /\ task' \in [Admin -> TaskRecord] /\ task'[a] = new
        /\ \A b \in Admin \ {a} : task'[b] = task[b]
    BY DEF OrgTypeOK
  <1> QED
    BY <1>1 DEF TaskFits

\* Sending a request, and the looks of the routes.
LEMMA TasksFit ==
    ASSUME OrgFits, NEW a \in Admin,
           \/ SaveForm(a) \/ CheckNew(a) \/ CheckEdit(a)
           \/ \E o \in Organization, s \in Text : SubmitNew(a, o, s)
    PROVE  OrgFits' /\ OnlyTyped
  <1>1. /\ OrgTypeOK /\ SlugsAreUnique /\ UNCHANGED <<org, rows, form, typedFields, under>>
        /\ \A b \in Admin : FormFits(b) /\ TaskFits(b)
    BY DEF OrgFits, SaveForm, CheckNew, CheckEdit, SubmitNew
  <1>2. task[a] \in TaskRecord /\ form[a] \in FormRecord
    BY <1>1 DEF OrgTypeOK
  <1>3. task[a].pc # "update" /\ \E new \in TaskRecord :
           /\ task' = [task EXCEPT ![a] = new]
           /\ (new.pc # "idle" => new.of \in Organization) /\ new.sent \subseteq new.typed
    <2>1. CASE SaveForm(a)
      <3> DEFINE new == [pc |-> "patch", of |-> form[a].of, name |-> form[a].name, slug |-> form[a].slug,
                         sent |-> Payload(a), typed |-> typedFields[a] \cup under[a]]
      <3>1. form[a].of \in Organization /\ Payload(a) \subseteq typedFields[a] \cup under[a]
        BY <1>1, <2>1 DEF SaveForm, FormFits, Payload
      <3>2. typedFields[a] \in SUBSET Field /\ under[a] \in SUBSET Field
        BY <1>1 DEF OrgTypeOK
      <3>3. new \in TaskRecord
        BY <1>2, <3>1, <3>2 DEF TaskRecord, FormRecord
      <3> QED
        BY <2>1, <3>1, <3>3 DEF SaveForm, SendTask
    <2>2. ASSUME NEW o \in Organization, NEW s \in Text, SubmitNew(a, o, s)
          PROVE  task[a].pc # "update" /\ \E new \in TaskRecord :
                    /\ task' = [task EXCEPT ![a] = new]
                    /\ (new.pc # "idle" => new.of \in Organization) /\ new.sent \subseteq new.typed
      <3> DEFINE new == [pc |-> "post", of |-> o, name |-> s, slug |-> s, sent |-> Field, typed |-> Field]
      <3>1. new \in TaskRecord
        BY DEF TaskRecord, Word
      <3> QED
        BY <2>2, <3>1 DEF SubmitNew, SendTask
    <2>3. ASSUME NEW pc \in {"insert", "update"}, task[a].pc \in {"post", "patch"}, GotoTask(a, pc)
          PROVE  task[a].pc # "update" /\ \E new \in TaskRecord :
                    /\ task' = [task EXCEPT ![a] = new]
                    /\ (new.pc # "idle" => new.of \in Organization) /\ new.sent \subseteq new.typed
      <3> DEFINE new == [task[a] EXCEPT !.pc = pc]
      <3>1. new \in TaskRecord /\ new.of = task[a].of /\ new.sent = task[a].sent /\ new.typed = task[a].typed
        BY <1>2 DEF TaskRecord
      <3>2. task[a].of \in Organization /\ task[a].sent \subseteq task[a].typed
        BY <1>1, <2>3 DEF TaskFits
      <3> QED
        BY <2>3, <3>1, <3>2 DEF GotoTask
    <2>4. CASE Refused(a) /\ task[a].pc \in {"post", "patch"}
      <3>1. NoTask \in TaskRecord /\ NoTask.pc = "idle" /\ NoTask.sent \subseteq NoTask.typed
        BY DEF NoTask, TaskRecord, Word, Field
      <3> QED
        BY <2>4, <3>1 DEF Refused
    <2>5. CASE CheckNew(a) \/ CheckEdit(a)
      BY <2>3, <2>4, <2>5 DEF CheckNew, CheckEdit
    <2> QED
      BY <2>1, <2>2, <2>5
  <1>4. /\ task' \in [Admin -> TaskRecord] /\ \A b \in Admin : TaskFits(b)'
        /\ \A b \in Admin \ {a} : task'[b] = task[b]
    BY <1>1, <1>3, TaskMoves
  <1>5. OrgTypeOK' /\ SlugsAreUnique' /\ \A b \in Admin : FormFits(b)'
    BY <1>1, <1>4 DEF OrgTypeOK, SlugsAreUnique, Takes, Live, FormFits
  <1>6. OnlyTyped
    BY <1>1 DEF OnlyTyped
  <1> QED
    BY <1>4, <1>5, <1>6 DEF OrgFits

\* A row is written with a slug that none of the others has.
LEMMA SlugsStayUnique ==
    ASSUME OrgTypeOK, SlugsAreUnique, NEW o \in Organization, NEW row \in OrgRow,
           org' = [org EXCEPT ![o] = row],
           \/ ~row.live \/ ~Takes(row.slug, o)
           \/ org[o].live /\ row.slug = org[o].slug
    PROVE  org' \in [Organization -> OrgRow] /\ SlugsAreUnique'
  <1>1. /\ org' \in [Organization -> OrgRow] /\ org'[o] = row
        /\ \A p \in Organization \ {o} : org'[p] = org[p]
    BY DEF OrgTypeOK
  <1>2. \A p \in Organization, q \in Organization : p # q /\ org[p].live /\ org[q].live => org[p].slug # org[q].slug
    BY DEF SlugsAreUnique, Takes, Live
  <1>3. row.live => \A p \in Organization \ {o} : org[p].live => org[p].slug # row.slug
    BY <1>2 DEF Takes, Live
  <1>4. \A p \in Organization, q \in Organization : p # q /\ org'[p].live /\ org'[q].live => org'[p].slug # org'[q].slug
    BY <1>1, <1>2, <1>3
  <1> QED
    BY <1>1, <1>4 DEF SlugsAreUnique, Takes, Live

LEMMA OrgWritesFit ==
    ASSUME OrgFits, NEW a \in Admin, InsertNew(a) \/ UpdateRow(a)
    PROVE  OrgFits' /\ OnlyTyped
  <1> DEFINE t == task[a]
  <1>1. /\ OrgTypeOK /\ SlugsAreUnique /\ Refused(a) /\ UNCHANGED rows
        /\ \A b \in Admin : FormFits(b) /\ TaskFits(b)
        /\ t \in TaskRecord /\ t.pc \in {"insert", "update"} /\ t.of \in Organization /\ t.sent \subseteq t.typed
    BY DEF OrgFits, OrgTypeOK, TaskFits, InsertNew, UpdateRow
  <1>2. /\ task' \in [Admin -> TaskRecord] /\ \A b \in Admin : TaskFits(b)'
        /\ \A b \in Admin \ {a} : task'[b] = task[b]
    <2>1. NoTask \in TaskRecord /\ NoTask.pc = "idle" /\ NoTask.sent \subseteq NoTask.typed
      BY DEF NoTask, TaskRecord, Word, Field
    <2> QED
      BY <1>1, <2>1, TaskMoves DEF Refused
  <1>3. \/ UNCHANGED <<form, typedFields, under>>
        \/ PageBecomes(a, rows[a], NoForm, {}, {})
    BY <1>1, PageHas DEF InsertNew, UpdateRow, PageBecomes
  <1>4. /\ form' \in [Admin -> FormRecord]
        /\ typedFields' \in [Admin -> SUBSET Field] /\ under' \in [Admin -> SUBSET Field]
        /\ \A b \in Admin : FormFits(b)'
    <2>1. CASE UNCHANGED <<form, typedFields, under>>
      BY <1>1, <2>1 DEF OrgTypeOK, FormFits
    <2>2. CASE PageBecomes(a, rows[a], NoForm, {}, {})
      BY <1>1, <2>2, PageKeepsFit
    <2> QED
      BY <1>3, <2>1, <2>2
  <1>5. CASE UNCHANGED org
    <2>1. OrgTypeOK' /\ SlugsAreUnique' /\ OnlyTyped
      BY <1>1, <1>2, <1>4, <1>5 DEF OrgTypeOK, SlugsAreUnique, Takes, Live, OnlyTyped
    <2> QED
      BY <1>2, <1>4, <2>1 DEF OrgFits
  <1>6. CASE t.pc = "insert" /\ ~UNCHANGED org
    <2> DEFINE row == [live |-> TRUE, name |-> t.name, slug |-> t.slug]
    <2>1. org' = [org EXCEPT ![t.of] = row] /\ ~Takes(row.slug, t.of)
      BY <1>6 DEF InsertNew, UpdateRow, Storable
    <2>2. row \in OrgRow
      BY <1>1 DEF OrgRow, TaskRecord
    <2>3. org' \in [Organization -> OrgRow] /\ SlugsAreUnique'
      BY <1>1, <2>1, <2>2, SlugsStayUnique
    <2>4. OrgTypeOK' /\ OnlyTyped
      BY <1>1, <1>2, <1>4, <1>6, <2>3 DEF OrgTypeOK, OnlyTyped
    <2> QED
      BY <1>2, <1>4, <2>3, <2>4 DEF OrgFits
  <1>7. CASE t.pc = "update" /\ ~UNCHANGED org
    <2> DEFINE row == Edited(org[t.of], t)
    <2>1. /\ org' = [org EXCEPT ![t.of] = row]
          /\ org[t.of].live /\ ("slug" \in t.sent => ~Takes(t.slug, t.of))
      BY <1>7 DEF InsertNew, UpdateRow, Storable, Live
    <2>2. org[t.of] \in OrgRow
      BY <1>1 DEF OrgTypeOK
    <2>3. /\ row \in OrgRow /\ \A f \in Field \ t.sent : row[f] = org[t.of][f]
          /\ "slug" \in t.sent => row.slug = t.slug
      BY <1>1, <2>2 DEF Edited, OrgRow, TaskRecord, Field
    <2>4. "slug" \notin t.sent => row.slug = org[t.of].slug
      BY <2>3 DEF Field
    <2>5. org' \in [Organization -> OrgRow] /\ SlugsAreUnique'
      BY <1>1, <2>1, <2>3, <2>4, SlugsStayUnique
    <2>6. OrgTypeOK'
      BY <1>1, <1>2, <1>4, <2>5 DEF OrgTypeOK
    <2>7. org'[t.of] = row
      BY <1>1, <2>1 DEF OrgTypeOK
    <2>8. OnlyTyped
      <3>1. ASSUME NEW f \in Field, row[f] # org[t.of][f] PROVE f \in t.typed
        BY <1>1, <2>3, <3>1
      <3> QED
        BY <1>2, <2>7, <3>1 DEF OnlyTyped
    <2> QED
      BY <1>2, <1>4, <2>5, <2>6, <2>8 DEF OrgFits
  <1> QED
    BY <1>1, <1>5, <1>6, <1>7

LEMMA DeletionFits ==
    ASSUME OrgFits, NEW a \in Admin, NEW o \in Organization, DeleteOrganization(a, o)
    PROVE  OrgFits' /\ OnlyTyped
  <1>1. /\ OrgTypeOK /\ SlugsAreUnique /\ UNCHANGED <<rows, form, typedFields, under, task>>
        /\ \A b \in Admin : FormFits(b) /\ TaskFits(b)
        /\ org' = [org EXCEPT ![o] = DeletedRow]
    BY DEF OrgFits, DeleteOrganization
  <1>2. DeletedRow \in OrgRow /\ ~DeletedRow.live
    BY DEF DeletedRow, Absent, OrgRow, Word
  <1>3. org' \in [Organization -> OrgRow] /\ SlugsAreUnique'
    BY <1>1, <1>2, SlugsStayUnique
  <1> QED
    BY <1>1, <1>3 DEF OrgFits, OrgTypeOK, FormFits, TaskFits, OnlyTyped

LEMMA OrgStepFits == ASSUME OrgFits, [OrgNext]_orgVars PROVE OrgFits' /\ OnlyTyped
  <1>1. CASE UNCHANGED orgVars
    BY <1>1 DEF orgVars, OrgFits, OrgTypeOK, SlugsAreUnique, Takes, Live, FormFits, TaskFits, OnlyTyped
  <1>2. ASSUME NEW a \in Admin,
               \/ Fetch(a) \/ CloseForm(a) \/ (\E o \in Organization : OpenForm(a, o))
               \/ \E f \in Field, t \in Text : TypeInto(a, f, t)
        PROVE  OrgFits' /\ OnlyTyped
    BY <1>2, PageFits
  <1>3. ASSUME NEW a \in Admin,
               \/ SaveForm(a) \/ CheckNew(a) \/ CheckEdit(a)
               \/ \E o \in Organization, s \in Text : SubmitNew(a, o, s)
        PROVE  OrgFits' /\ OnlyTyped
    BY <1>3, TasksFit
  <1>4. ASSUME NEW a \in Admin, InsertNew(a) \/ UpdateRow(a) PROVE OrgFits' /\ OnlyTyped
    BY <1>4, OrgWritesFit
  <1>5. ASSUME NEW a \in Admin, NEW o \in Organization, DeleteOrganization(a, o) PROVE OrgFits' /\ OnlyTyped
    BY <1>5, DeletionFits
  <1> QED
    BY <1>1, <1>2, <1>3, <1>4, <1>5 DEF OrgNext

-----------------------------------------------------------------------------
(* Members of organizations.                                               *)

HandlerAnswer == (SUBSET Org) \cup [Org -> Nat]
HandlerRecord == [pc : {"idle", "look", "write", "ok", "askAll", "all", "askMine", "mine"},
                  of : Org \cup {NoOrg}, kind : {"join", "leave"}, answer : HandlerAnswer]
DialogRecord == [of : Org \cup {NoOrg}, pc : {"closed", "asked", "sent", "shown"},
                 list : SUBSET User, answer : SUBSET User, user : {NoOrg}]

MemberTypeOK ==
    /\ live \subseteq Org /\ member \subseteq Org \X (User \cup {Me})
    /\ handler \in [Handler -> HandlerRecord]
    /\ memberNewest \in [all : Handler \cup {NoOrg}, mine : Handler \cup {NoOrg}]
    /\ memberForeign \in BOOLEAN /\ early \in BOOLEAN
    /\ dialog \in DialogRecord

\* Overrides are there while an answer is being worked on.
MemberOverFits ==
    \/ memberOver = [o \in Org |-> 0]
    \/ \E h \in Handler : handler[h].pc \in {"askAll", "all", "askMine", "mine"}

\* The two lists: a newer one is on its way, or the page has it.
AllAsked(h) == memberNewest.all = h /\ handler[h].pc \in {"askAll", "all"}
CountsFit ==
    ~memberForeign =>
        \/ \E h \in Handler : handler[h].pc = "ok"
        \/ \E h \in Handler : AllAsked(h) /\ (handler[h].pc = "all" => handler[h].answer = CountNow)
        \/ counts = CountNow /\ \A h \in Handler : ~AllAsked(h)

MineAsked(h) == memberNewest.mine = h /\ handler[h].pc \in {"askMine", "mine"}
MineFits ==
    ~memberForeign =>
        \/ \E h \in Handler : handler[h].pc \in {"ok", "askAll", "all"}
        \/ \E h \in Handler : MineAsked(h) /\ (handler[h].pc = "mine" => handler[h].answer = MineNow)
        \/ mine = MineNow /\ \A h \in Handler : ~MineAsked(h)

\* What the dialog was sent, and what it shows.
ListFits(list) == list \ {Me} = MembersOf(dialog.of) \ {Me} \/ dialog.of \notin live
DialogFits ==
    ~early => /\ dialog.pc = "sent" => ListFits(dialog.answer)
              /\ dialog.pc = "shown" => ListFits(dialog.list)

MembersFit ==
    /\ MemberTypeOK /\ NoMemberOfDeleted /\ MemberOverFits /\ CountsFit /\ MineFits /\ DialogFits

LEMMA CountsAreNat == \A o \in Org : CountNow[o] \in Nat
  <1> SUFFICES ASSUME NEW o \in Org PROVE Cardinality(MembersOf(o)) \in Nat
    BY DEF CountNow
  <1>1. IsFiniteSet(MembersOf(o))
    BY MembersAssumption, FS_Subset DEF MembersOf
  <1> QED
    BY <1>1, FS_CardinalityType

LEMMA MemberStarts == ASSUME MemberInit PROVE MembersFit
  <1>1. NoClick \in HandlerRecord /\ NoClick.pc = "idle"
    BY DEF NoClick, HandlerRecord, HandlerAnswer
  <1>2. MemberTypeOK
    BY <1>1 DEF MemberInit, MemberTypeOK, NoDialog, DialogRecord
  <1>3. CountsFit /\ MineFits
    BY <1>1 DEF MemberInit, CountsFit, MineFits, AllAsked, MineAsked, MineNow
  <1>4. NoMemberOfDeleted /\ MemberOverFits /\ DialogFits
    BY DEF MemberInit, NoMemberOfDeleted, MemberOverFits, DialogFits, NoDialog
  <1> QED
    BY <1>2, <1>3, <1>4 DEF MembersFit

\* At rest no override is left and both lists are the server's.
LEMMA MemberPageFollows == MembersFit => QuietPageIsTrue /\ DialogIsTrue
  <1> SUFFICES ASSUME MembersFit PROVE QuietPageIsTrue /\ DialogIsTrue
    OBVIOUS
  <1>1. ASSUME Quiet, ~memberForeign
        PROVE  ShownMine = MineNow /\ \A o \in Org : ShownCount(o) = CountNow[o]
    <2>1. memberOver = [o \in Org |-> 0]
      BY <1>1 DEF MembersFit, MemberOverFits, Quiet
    <2>2. counts = CountNow /\ mine = MineNow
      BY <1>1 DEF MembersFit, CountsFit, MineFits, AllAsked, MineAsked, Quiet
    <2>3. ShownMine = MineNow
      BY <2>1, <2>2 DEF ShownMine, MineNow
    <2>4. ASSUME NEW o \in Org PROVE ShownCount(o) = CountNow[o]
      BY <2>1, <2>2, CountsAreNat DEF ShownCount
    <2> QED
      BY <2>3, <2>4
  <1>2. DialogIsTrue
    BY DEF MembersFit, DialogFits, ListFits, DialogIsTrue
  <1> QED
    BY <1>1, <1>2 DEF QuietPageIsTrue

\* Nothing is done to the organizations, their members or the dialog.
LEMMA DeskStays ==
    ASSUME MembersFit, UNCHANGED <<live, member, dialog, early>>
    PROVE  /\ NoMemberOfDeleted' /\ DialogFits' /\ CountNow' = CountNow /\ MineNow' = MineNow
  BY DEF MembersFit, NoMemberOfDeleted, DialogFits, ListFits, CountNow, MineNow, MembersOf

\* A handler moves on.
Handled(h, pc, answer) ==
    /\ handler' \in [Handler -> HandlerRecord]
    /\ handler'[h].pc = pc /\ handler'[h].answer = answer
    /\ \A g \in Handler \ {h} : handler'[g] = handler[g]

LEMMA HandlerGoes ==
    ASSUME MembersFit, NEW h \in Handler, NEW pc \in {"write", "ok", "askAll", "askMine"}, GotoHandler(h, pc)
    PROVE  Handled(h, pc, handler[h].answer)
  <1> DEFINE new == [handler[h] EXCEPT !.pc = pc]
  <1>1. handler[h] \in HandlerRecord /\ handler \in [Handler -> HandlerRecord]
    BY DEF MembersFit, MemberTypeOK
  <1>2. new \in HandlerRecord /\ new.pc = pc /\ new.answer = handler[h].answer
    BY <1>1 DEF HandlerRecord
  <1> QED
    BY <1>1, <1>2 DEF GotoHandler, Handled

LEMMA HandlerEnds ==
    ASSUME MembersFit, NEW h \in Handler, handler' = [handler EXCEPT ![h] = NoClick]
    PROVE  Handled(h, "idle", {})
  <1>1. NoClick \in HandlerRecord /\ NoClick.pc = "idle" /\ NoClick.answer = {}
    BY DEF NoClick, HandlerRecord, HandlerAnswer
  <1> QED
    BY <1>1 DEF MembersFit, MemberTypeOK, Handled

\* Before anything is written a handler changes nothing that is shown.
LEMMA HandlersBefore ==
    ASSUME MembersFit, NEW h \in Handler, NEW pc \in {"idle", "look", "write"}, NEW answer, Handled(h, pc, answer),
           handler[h].pc \in {"idle", "look", "write"},
           UNCHANGED <<live, member, counts, mine, memberOver, memberNewest, memberForeign, deskVars>>
    PROVE  MembersFit'
  <1>1. NoMemberOfDeleted' /\ DialogFits' /\ CountNow' = CountNow /\ MineNow' = MineNow
    BY DeskStays DEF deskVars
  <1>2. MemberTypeOK'
    BY DEF MembersFit, MemberTypeOK, Handled, deskVars
  <1>3. MemberOverFits'
    BY DEF MembersFit, MemberOverFits, Handled
  <1>4. CountsFit'
    BY <1>1 DEF MembersFit, CountsFit, AllAsked, Handled
  <1>5. MineFits'
    BY <1>1 DEF MembersFit, MineFits, MineAsked, Handled
  <1> QED
    BY <1>1, <1>2, <1>3, <1>4, <1>5 DEF MembersFit

LEMMA MemberClicksFit ==
    ASSUME MembersFit, NEW h \in Handler,
           LookMember(h) \/ \E o \in Org : ClickMember(h, o)
    PROVE  MembersFit'
  <1>1. CASE LookMember(h)
    <2>1. GotoHandler(h, "write") \/ handler' = [handler EXCEPT ![h] = NoClick]
      BY <1>1 DEF LookMember, Finally
    <2> QED
      BY <1>1, <2>1, HandlerGoes, HandlerEnds, HandlersBefore DEF LookMember
  <1>2. ASSUME NEW o \in Org, ClickMember(h, o) PROVE MembersFit'
    <2>1. PICK kind \in {"join", "leave"} :
             handler' = [handler EXCEPT ![h] = [pc |-> "look", of |-> o, answer |-> {}, kind |-> kind]]
      BY <1>2 DEF ClickMember
    <2>2. [pc |-> "look", of |-> o, answer |-> {}, kind |-> kind] \in HandlerRecord
      BY DEF HandlerRecord, HandlerAnswer
    <2>3. Handled(h, "look", {})
      BY <2>1, <2>2 DEF MembersFit, MemberTypeOK, Handled
    <2> QED
      BY <1>2, <2>3, HandlersBefore DEF ClickMember
  <1> QED
    BY <1>1, <1>2

LEMMA MemberWritesFit ==
    ASSUME MembersFit, NEW h \in Handler, WriteMember(h)
    PROVE  MembersFit'
  <1> DEFINE c == handler[h]
  <1>1. CASE ~(c.kind = "leave" \/ Insertable(c.of, Me))
    <2>1. handler' = [handler EXCEPT ![h] = NoClick] /\ UNCHANGED member
      BY <1>1 DEF WriteMember, Finally
    <2> QED
      BY <2>1, HandlerEnds, HandlersBefore DEF WriteMember
  <1>2. CASE c.kind = "leave" \/ Insertable(c.of, Me)
    <2>1. Handled(h, "ok", c.answer)
      BY <1>2, HandlerGoes DEF WriteMember
    <2>2. /\ MemberTypeOK /\ UNCHANGED <<live, counts, mine, memberOver, memberNewest, memberForeign, dialog, early>>
          /\ member' \ {<<c.of, Me>>} = member \ {<<c.of, Me>>}
          /\ <<c.of, Me>> \in member' => <<c.of, Me>> \in member \/ c.of \in live
      BY <1>2 DEF MembersFit, WriteMember, Insertable, deskVars
    <2>3. MemberTypeOK'
      BY <2>1, <2>2 DEF MemberTypeOK, Handled
    <2>4. NoMemberOfDeleted'
      BY <2>2 DEF MembersFit, NoMemberOfDeleted, MembersOf
    <2>5. \A o : MembersOf(o)' \ {Me} = MembersOf(o) \ {Me}
      BY <2>2 DEF MembersOf
    <2>6. DialogFits'
      BY <2>2, <2>5 DEF MembersFit, DialogFits, ListFits
    <2>7. CountsFit' /\ MineFits' /\ MemberOverFits'
      BY <2>1, <2>2 DEF MembersFit, CountsFit, MineFits, MemberOverFits, Handled, WriteMember
    <2> QED
      BY <2>3, <2>4, <2>6, <2>7 DEF MembersFit
  <1> QED
    BY <1>1, <1>2

LEMMA AnswersTyped == CountNow \in HandlerAnswer /\ MineNow \in HandlerAnswer
  <1>1. CountNow \in [Org -> Nat]
    <2>1. CountNow = [o \in Org |-> CountNow[o]]
      BY DEF CountNow
    <2> QED
      BY <2>1, CountsAreNat
  <1>2. MineNow \subseteq Org
    BY DEF MineNow
  <1>3. CountNow \in HandlerAnswer
    BY <1>1, Zenon DEF HandlerAnswer
  <1>4. MineNow \in HandlerAnswer
    BY <1>2, Zenon DEF HandlerAnswer
  <1> QED
    BY <1>3, <1>4

\* The write is answered, or the answer is lost.
LEMMA AnsweredFits ==
    ASSUME MembersFit, NEW h \in Handler, JoinAnswered(h)
    PROVE  MembersFit'
  <1> USE DEF deskVars
  <1>1. NoMemberOfDeleted' /\ DialogFits'
    BY DeskStays DEF JoinAnswered
  <1>2. CASE Finally(h) /\ memberForeign' = TRUE /\ UNCHANGED <<memberOver, memberNewest>>
    <2>1. Handled(h, "idle", {}) /\ handler[h].pc = "ok"
      BY <1>2, HandlerEnds DEF Finally, JoinAnswered
    <2>2. MemberTypeOK'
      BY <1>2, <2>1 DEF MembersFit, MemberTypeOK, Handled, JoinAnswered
    <2>3. MemberOverFits'
      BY <1>2, <2>1 DEF MembersFit, MemberOverFits, Handled
    <2> QED
      BY <1>1, <1>2, <2>2, <2>3 DEF MembersFit, CountsFit, MineFits
  <1>3. CASE /\ memberNewest' = [memberNewest EXCEPT !.all = h] /\ GotoHandler(h, "askAll")
             /\ UNCHANGED <<pending, memberForeign>>
    <2>1. Handled(h, "askAll", handler[h].answer)
      BY <1>3, HandlerGoes
    <2>2. MemberTypeOK' /\ memberNewest'.all = h
      BY <1>3, <2>1 DEF MembersFit, MemberTypeOK, Handled, JoinAnswered
    <2>3. MemberOverFits' /\ CountsFit' /\ MineFits'
      BY <2>1, <2>2 DEF MemberOverFits, CountsFit, AllAsked, MineFits, Handled
    <2> QED
      BY <1>1, <2>2, <2>3 DEF MembersFit
  <1> QED
    BY <1>2, <1>3 DEF JoinAnswered

\* The server answers a request for a list with what there is.
LEMMA ListReadFits ==
    ASSUME MembersFit, NEW h \in Handler, Reads(h)
    PROVE  MembersFit'
  <1> USE DEF deskVars
  <1>1. NoMemberOfDeleted' /\ DialogFits' /\ CountNow' = CountNow /\ MineNow' = MineNow
    BY DeskStays DEF Reads
  <1>2. CASE handler[h].pc = "askAll" /\ handler' = [handler EXCEPT ![h].pc = "all", ![h].answer = CountNow]
    <2> DEFINE new == [[handler[h] EXCEPT !.pc = "all"] EXCEPT !.answer = CountNow]
    <2>1. handler[h] \in HandlerRecord /\ handler \in [Handler -> HandlerRecord]
      BY DEF MembersFit, MemberTypeOK
    <2>2. new \in HandlerRecord /\ new.pc = "all" /\ new.answer = CountNow
      BY <2>1, AnswersTyped DEF HandlerRecord
    <2>3. Handled(h, "all", CountNow)
      BY <1>2, <2>1, <2>2 DEF Handled
    <2>4. MemberTypeOK'
      BY <2>3 DEF MembersFit, MemberTypeOK, Handled, Reads
    <2>5. MemberOverFits'
      BY <2>3 DEF MemberOverFits, Handled
    <2>6. CountsFit'
      BY <1>1, <1>2, <2>3 DEF MembersFit, CountsFit, AllAsked, Handled, Reads
    <2>7. MineFits'
      BY <2>3 DEF MineFits, Handled
    <2> QED
      BY <1>1, <2>4, <2>5, <2>6, <2>7 DEF MembersFit
  <1>3. CASE handler[h].pc = "askMine" /\ handler' = [handler EXCEPT ![h].pc = "mine", ![h].answer = MineNow]
    <2> DEFINE new == [[handler[h] EXCEPT !.pc = "mine"] EXCEPT !.answer = MineNow]
    <2>1. handler[h] \in HandlerRecord /\ handler \in [Handler -> HandlerRecord]
      BY DEF MembersFit, MemberTypeOK
    <2>2. new \in HandlerRecord /\ new.pc = "mine" /\ new.answer = MineNow
      BY <2>1, AnswersTyped DEF HandlerRecord
    <2>3. Handled(h, "mine", MineNow)
      BY <1>3, <2>1, <2>2 DEF Handled
    <2>4. MemberTypeOK'
      BY <2>3 DEF MembersFit, MemberTypeOK, Handled, Reads
    <2>5. MemberOverFits'
      BY <2>3 DEF MemberOverFits, Handled
    <2>6. CountsFit'
      BY <1>1, <1>3, <2>3 DEF MembersFit, CountsFit, AllAsked, Handled, Reads
    <2>7. MineFits'
      BY <1>1, <1>3, <2>3 DEF MembersFit, MineFits, MineAsked, Handled, Reads
    <2> QED
      BY <1>1, <2>4, <2>5, <2>6, <2>7 DEF MembersFit
  <1> QED
    BY <1>2, <1>3 DEF Reads

\* The counts arrive: they are the newest asked for, or are thrown away.
LEMMA CountsArriveFits ==
    ASSUME MembersFit, NEW h \in Handler, ArriveAll(h)
    PROVE  MembersFit'
  <1> USE DEF deskVars
  <1>1. NoMemberOfDeleted' /\ DialogFits' /\ CountNow' = CountNow /\ MineNow' = MineNow
    BY DeskStays DEF ArriveAll
  <1>2. Handled(h, "askMine", handler[h].answer) /\ handler[h].pc = "all"
    BY HandlerGoes DEF ArriveAll
  <1>3. MemberTypeOK' /\ memberNewest'.mine = h /\ memberNewest'.all = memberNewest.all
    BY <1>2 DEF MembersFit, MemberTypeOK, Handled, ArriveAll
  <1>4. MemberOverFits' /\ MineFits'
    BY <1>2, <1>3 DEF MemberOverFits, MineFits, MineAsked, Handled
  <1>5. CountsFit'
    BY <1>1, <1>2, <1>3 DEF MembersFit, CountsFit, AllAsked, Handled, ArriveAll
  <1> QED
    BY <1>1, <1>3, <1>4, <1>5 DEF MembersFit

\* The user's own organizations arrive, and every override goes.
LEMMA MineArriveFits ==
    ASSUME MembersFit, NEW h \in Handler, ArriveMine(h)
    PROVE  MembersFit'
  <1> USE DEF deskVars
  <1>1. NoMemberOfDeleted' /\ DialogFits' /\ CountNow' = CountNow /\ MineNow' = MineNow
    BY DeskStays DEF ArriveMine
  <1>2. Handled(h, "idle", {}) /\ handler[h].pc = "mine"
    BY HandlerEnds DEF ArriveMine, Finally
  <1>3. MemberTypeOK'
    BY <1>2 DEF MembersFit, MemberTypeOK, Handled, ArriveMine
  <1>4. MemberOverFits'
    BY DEF MemberOverFits, ArriveMine, OverCleared
  <1>5. CountsFit'
    BY <1>1, <1>2 DEF MembersFit, CountsFit, AllAsked, Handled, ArriveMine
  <1>6. MineFits'
    BY <1>1, <1>2 DEF MembersFit, MineFits, MineAsked, Handled, ArriveMine
  <1> QED
    BY <1>1, <1>3, <1>4, <1>5, <1>6 DEF MembersFit

LEMMA MemberFocusFits ==
    ASSUME MembersFit, FocusMembers
    PROVE  MembersFit'
  <1> USE DEF deskVars
  <1>1. NoMemberOfDeleted' /\ DialogFits' /\ CountNow' = CountNow /\ MineNow' = MineNow
    BY DeskStays DEF FocusMembers
  <1>2. MemberTypeOK' /\ MemberOverFits'
    BY DEF MembersFit, MemberTypeOK, MemberOverFits, FocusMembers
  <1>3. CountsFit' /\ MineFits'
    BY <1>1 DEF CountsFit, MineFits, AllAsked, MineAsked, FocusMembers, Quiet
  <1> QED
    BY <1>1, <1>2, <1>3 DEF MembersFit

-----------------------------------------------------------------------------
\* Others change the members: the settings page is not told.
LEMMA ToldNothing ==
    ASSUME MembersFit, memberForeign' = TRUE, UNCHANGED <<handler, memberOver>>
    PROVE  CountsFit' /\ MineFits' /\ MemberOverFits'
  BY DEF MembersFit, CountsFit, MineFits, MemberOverFits

LEMMA DeletesFit ==
    ASSUME MembersFit, NEW o \in Org, DeleteOrg(o)
    PROVE  MembersFit'
  <1> USE DEF deskVars, DeleteOrg
  <1>1. CountsFit' /\ MineFits' /\ MemberOverFits'
    BY ToldNothing
  <1>2. MemberTypeOK'
    BY DEF MembersFit, MemberTypeOK
  <1>3. MembersOf(o)' = {} /\ \A p : p # o => MembersOf(p)' = MembersOf(p)
    BY DEF MembersOf, MembersDeleted
  <1>4. NoMemberOfDeleted' /\ DialogFits'
    BY <1>3 DEF MembersFit, NoMemberOfDeleted, DialogFits, ListFits
  <1> QED
    BY <1>1, <1>2, <1>4 DEF MembersFit

\* The dialog is opened, closed, answered and filled: the members stay.
LEMMA OnlyDialog ==
    ASSUME MembersFit, UNCHANGED <<live, member, memberPageVars>>, dialog' \in DialogRecord, early' \in BOOLEAN,
           DialogFits'
    PROVE  MembersFit'
  <1> USE DEF memberPageVars
  <1>1. CountNow' = CountNow /\ MineNow' = MineNow /\ NoMemberOfDeleted'
    BY DEF MembersFit, CountNow, MineNow, MembersOf, NoMemberOfDeleted
  <1>2. MemberTypeOK' /\ MemberOverFits'
    BY DEF MembersFit, MemberTypeOK, MemberOverFits
  <1>3. CountsFit' /\ MineFits'
    BY <1>1 DEF MembersFit, CountsFit, MineFits, AllAsked, MineAsked
  <1> QED
    BY <1>1, <1>2, <1>3 DEF MembersFit

LEMMA DialogMovesFit ==
    ASSUME MembersFit, CloseDialog \/ ReadMembers \/ ShowList \/ \E o \in Org : OpenDialog(o)
    PROVE  MembersFit'
  <1>1. NoDialog \in DialogRecord /\ dialog \in DialogRecord /\ early \in BOOLEAN
    BY DEF MembersFit, MemberTypeOK, NoDialog, DialogRecord
  <1>2. CASE CloseDialog
    <2>1. DialogFits'
      BY <1>2 DEF CloseDialog, NoDialog, DialogFits
    <2> QED
      BY <1>1, <1>2, <2>1, OnlyDialog DEF CloseDialog
  <1>3. ASSUME NEW o \in Org, OpenDialog(o) PROVE MembersFit'
    <2> DEFINE new == [[NoDialog EXCEPT !.of = o] EXCEPT !.pc = "asked"]
    <2>1. new \in DialogRecord /\ new.pc = "asked" /\ dialog' = new
      BY <1>1, <1>3 DEF OpenDialog, DialogRecord
    <2>2. DialogFits'
      BY <2>1 DEF DialogFits
    <2> QED
      BY <1>3, <2>1, <2>2, OnlyDialog DEF OpenDialog
  <1>4. CASE ReadMembers
    <2> DEFINE new == [[dialog EXCEPT !.pc = "sent"] EXCEPT !.answer = MembersOf(dialog.of)]
    <2>1. new \in DialogRecord /\ new.pc = "sent" /\ new.answer = MembersOf(dialog.of) /\ new.of = dialog.of
      BY <1>1 DEF DialogRecord, MembersOf
    <2>2. dialog' = new
      BY <1>4 DEF ReadMembers
    <2>3. DialogFits'
      BY <1>4, <2>1, <2>2 DEF DialogFits, ListFits, ReadMembers, MembersOf
    <2> QED
      BY <1>1, <1>4, <2>1, <2>2, <2>3, OnlyDialog DEF ReadMembers
  <1>5. CASE ShowList
    <2> DEFINE new == [[[dialog EXCEPT !.pc = "shown"] EXCEPT !.list = dialog.answer] EXCEPT !.answer = {}]
    <2>1. new \in DialogRecord /\ new.pc = "shown" /\ new.list = dialog.answer /\ new.of = dialog.of
      BY <1>1 DEF DialogRecord
    <2>2. dialog' = new
      BY <1>5 DEF ShowList
    <2>3. DialogFits'
      BY <1>5, <2>1, <2>2 DEF MembersFit, DialogFits, ListFits, ShowList, MembersOf
    <2> QED
      BY <1>1, <1>5, <2>1, <2>2, <2>3, OnlyDialog DEF ShowList
  <1> QED
    BY <1>2, <1>3, <1>4, <1>5

LEMMA AdditionFits ==
    ASSUME MembersFit, NEW u \in User, AddMember(u)
    PROVE  MembersFit'
  <1> DEFINE o == dialog.of
             new == [dialog EXCEPT !.list = @ \cup {u}]
  <1>1. CountsFit' /\ MineFits' /\ MemberOverFits'
    BY ToldNothing DEF AddMember
  <1>2. dialog \in DialogRecord /\ o \in live /\ o \in Org
    BY DEF MembersFit, MemberTypeOK, AddMember, Insertable
  <1>3. new \in DialogRecord /\ new.pc = dialog.pc /\ new.list = dialog.list \cup {u} /\ new.of = o
    BY <1>2 DEF DialogRecord
  <1>4. dialog' = new
    BY DEF AddMember
  <1>5. MemberTypeOK'
    BY <1>2, <1>3, <1>4 DEF MembersFit, MemberTypeOK, AddMember
  <1>6. MembersOf(o)' = MembersOf(o) \cup {u} /\ \A p : p # o => MembersOf(p)' = MembersOf(p)
    BY DEF MembersOf, AddMember
  <1>7. NoMemberOfDeleted'
    BY <1>2, <1>6 DEF MembersFit, NoMemberOfDeleted, AddMember
  <1>8. DialogFits'
    <2>1. SUFFICES ASSUME ~early' PROVE dialog'.pc = "shown" /\ ListFits(dialog.list \cup {u})'
      BY <1>3, <1>4 DEF DialogFits
    <2> QED
      BY <1>3, <1>4, <1>6, <2>1 DEF MembersFit, DialogFits, ListFits, AddMember
  <1> QED
    BY <1>1, <1>5, <1>7, <1>8 DEF MembersFit

LEMMA RemovalFits ==
    ASSUME MembersFit, NEW u \in User, RemoveMember(u)
    PROVE  MembersFit'
  <1> DEFINE o == dialog.of
             new == [dialog EXCEPT !.list = Without(@, u)]
  <1>1. CountsFit' /\ MineFits' /\ MemberOverFits'
    BY ToldNothing DEF RemoveMember
  <1>2. dialog \in DialogRecord /\ dialog.pc = "shown"
    BY DEF MembersFit, MemberTypeOK, RemoveMember
  <1>3. new \in DialogRecord /\ new.pc = "shown" /\ new.list = dialog.list \ {u} /\ new.of = o
    BY <1>2 DEF DialogRecord, Without
  <1>4. dialog' = new
    BY DEF RemoveMember
  <1>5. MemberTypeOK'
    BY <1>2, <1>3, <1>4 DEF MembersFit, MemberTypeOK, RemoveMember
  <1>6. MembersOf(o)' = MembersOf(o) \ {u} /\ \A p : p # o => MembersOf(p)' = MembersOf(p)
    BY DEF MembersOf, RemoveMember
  <1>7. NoMemberOfDeleted'
    BY <1>6 DEF MembersFit, NoMemberOfDeleted, RemoveMember
  <1>8. DialogFits'
    BY <1>2, <1>3, <1>4, <1>6 DEF MembersFit, DialogFits, ListFits, RemoveMember
  <1> QED
    BY <1>1, <1>5, <1>7, <1>8 DEF MembersFit

LEMMA MemberStepFits == ASSUME MembersFit, [MemberNext]_memberVars PROVE MembersFit'
  <1>1. CASE UNCHANGED memberVars
    <2> USE DEF memberVars, deskVars, memberPageVars
    <2>1. DialogFits' /\ dialog' \in DialogRecord /\ early' \in BOOLEAN
      BY <1>1, DeskStays DEF MembersFit, MemberTypeOK
    <2> QED
      BY <1>1, <2>1, OnlyDialog
  <1>2. CASE MemberNext
    BY <1>2, MemberClicksFit, MemberWritesFit, AnsweredFits, ListReadFits, CountsArriveFits, MineArriveFits, MemberFocusFits,
       DeletesFit, DialogMovesFit, AdditionFits, RemovalFits DEF MemberNext
  <1> QED
    BY <1>1, <1>2

-----------------------------------------------------------------------------
(* Logos.                                                                  *)

Owner == LogoTeam \cup LogoOrg
LogoRecord == [pc : {"new", "put", "read", "save", "undo", "sweep", "clear", "done"},
               of : Owner \cup {NoLogo}, old : LogoUpload \cup {NoLogo}]

\* The row has been written, or never will be.
Settled(r) == logoRequest[r].pc \in {"undo", "sweep", "done"}

LogoRequestFits(r) ==
    LET q == logoRequest[r]
    IN  /\ IF q.pc = "new" THEN q.old = NoLogo ELSE q.of \in Owner
        /\ q.old # NoLogo => Settled(q.old) /\ logoRequest[q.old].of = q.of
        /\ q.pc \in {"read", "save"} => r \in objects
        /\ q.pc = "sweep" /\ q.old # NoLogo => q.of \in ownerGone \/ logo[q.of] # q.old

\* What a row refers to was put by a request of its own, and is there.
LogoFits(e) ==
    LET u == logo[e]
    IN  u # NoLogo =>
            /\ Settled(u) /\ logoRequest[u].of = e
            /\ logoRequest[u].pc = "undo" => u \in lost
            /\ u \in objects \/ u \in lost \/ e \in ownerGone

\* Why an object is there.
Explained(u) ==
    \/ \E e \in Owner \ ownerGone : logo[e] = u
    \/ u \in spilled \/ u \in logoUnseen
    \/ logoRequest[u].of \in ownerGone
    \/ logoRequest[u].pc \in {"read", "save", "undo"}
    \/ \E r \in LogoUpload : logoRequest[r].pc = "sweep" /\ logoRequest[r].old = u

ObjectFits(u) == logoRequest[u].pc \notin {"new", "put", "clear"} /\ Explained(u)

LogoTypeOK ==
    /\ logo \in [Owner -> LogoUpload \cup {NoLogo}] /\ ownerGone \subseteq Owner
    /\ logoRequest \in [LogoUpload -> LogoRecord] /\ objects \subseteq LogoUpload

LogosFit ==
    /\ LogoTypeOK
    /\ \A r \in LogoUpload : LogoRequestFits(r)
    /\ \A e \in Owner : LogoFits(e)
    /\ \A u \in objects : ObjectFits(u)

LEMMA LogoStarts == ASSUME LogoInit PROVE LogosFit
  BY DEF LogoInit, LogosFit, LogoTypeOK, LogoRecord, Owner, LogoRequestFits, LogoFits

LEMMA LogosShown == LogosFit => NoDanglingLogo /\ LeaksAreExplained
  <1> SUFFICES ASSUME LogosFit PROVE NoDanglingLogo /\ LeaksAreExplained
    OBVIOUS
  <1>1. NoDanglingLogo
    BY DEF LogosFit, LogoFits, NoDanglingLogo, Shown, Owner
  <1>2. ASSUME \A r \in LogoUpload : logoRequest[r].pc \in {"new", "done"},
               NEW u \in objects, u \notin Shown
        PROVE  u \in spilled \cup logoUnseen \cup {r \in LogoUpload : logoRequest[r].of \in ownerGone}
    BY <1>2, LogoAssumption DEF LogosFit, LogoTypeOK, ObjectFits, Explained, Shown, Owner
  <1> QED
    BY <1>1, <1>2 DEF LeaksAreExplained

\* A request moves on: no other does, and what is settled stays so.
LEMMA LogoMoves ==
    ASSUME LogosFit, NEW r \in LogoUpload, NEW new \in LogoRecord,
           logoRequest' = [logoRequest EXCEPT ![r] = new],
           Settled(r) => new.pc = "done" /\ new.of = logoRequest[r].of
    PROVE  /\ logoRequest' \in [LogoUpload -> LogoRecord] /\ logoRequest'[r] = new
           /\ \A x \in LogoUpload \ {r} : logoRequest'[x] = logoRequest[x]
           /\ \A x \in LogoUpload : Settled(x) => Settled(x)' /\ logoRequest'[x].of = logoRequest[x].of
  <1>1. /\ logoRequest' \in [LogoUpload -> LogoRecord] /\ logoRequest'[r] = new
        /\ \A x \in LogoUpload \ {r} : logoRequest'[x] = logoRequest[x]
    BY DEF LogosFit, LogoTypeOK
  <1> QED
    BY <1>1 DEF Settled

LEMMA LogoGoes ==
    ASSUME LogosFit, NEW r \in LogoUpload, NEW pc, Go(r, pc)
    PROVE  logoRequest' = [logoRequest EXCEPT ![r] =
                              [pc |-> pc, of |-> logoRequest[r].of, old |-> logoRequest[r].old]]
  <1>1. logoRequest[r] = [pc |-> logoRequest[r].pc, of |-> logoRequest[r].of, old |-> logoRequest[r].old]
    BY DEF LogosFit, LogoTypeOK, LogoRecord
  <1>2. [logoRequest[r] EXCEPT !.pc = pc] = [pc |-> pc, of |-> logoRequest[r].of, old |-> logoRequest[r].old]
    BY <1>1
  <1> QED
    BY <1>2 DEF Go

LEMMA AsksFit ==
    ASSUME LogosFit, NEW r \in LogoUpload, NEW e \in Owner,
           PostTeamLogo(r, e) \/ PostOrgLogo(r, e) \/ DeleteTeamLogo(r, e) \/ DeleteOrgLogo(r, e)
    PROVE  LogosFit'
  <1>1. /\ LogoTypeOK /\ UNCHANGED <<logo, ownerGone, objects, lost, spilled, logoUnseen>>
        /\ logoRequest[r].pc = "new" /\ e \notin ownerGone /\ LogoFits(e)
    BY DEF LogosFit, PostTeamLogo, PostOrgLogo, DeleteTeamLogo, DeleteOrgLogo, LogoAt
  <1>2. PICK pc \in {"put", "clear"}, old \in {NoLogo, logo[e]} :
           logoRequest' = [logoRequest EXCEPT ![r] = [pc |-> pc, of |-> e, old |-> old]]
    BY DEF PostTeamLogo, PostOrgLogo, DeleteTeamLogo, DeleteOrgLogo, Ask
  <1> DEFINE new == [pc |-> pc, of |-> e, old |-> old]
  <1>3. new \in LogoRecord /\ ~Settled(r)
    BY <1>1 DEF LogoTypeOK, LogoRecord, Settled
  <1>4. /\ logoRequest' \in [LogoUpload -> LogoRecord] /\ logoRequest'[r] = new
        /\ \A x \in LogoUpload \ {r} : logoRequest'[x] = logoRequest[x]
        /\ \A x \in LogoUpload : Settled(x) => Settled(x)' /\ logoRequest'[x].of = logoRequest[x].of
    BY <1>2, <1>3, LogoMoves
  <1>5. LogoRequestFits(r)'
    <2>1. old # NoLogo => Settled(old) /\ logoRequest[old].of = e /\ old \in LogoUpload
      BY <1>1 DEF LogoFits, LogoTypeOK
    <2>2. old # NoLogo => Settled(old)' /\ logoRequest'[old].of = e
      BY <1>4, <2>1
    <2> QED
      BY <1>4, <2>2 DEF LogoRequestFits
  <1>6. ASSUME NEW x \in LogoUpload \ {r} PROVE LogoRequestFits(x)'
    <2>1. LogoRequestFits(x) /\ logoRequest[x].old \in LogoUpload \cup {NoLogo}
      BY DEF LogosFit, LogoTypeOK, LogoRecord
    <2> QED
      BY <1>1, <1>4, <2>1 DEF LogoRequestFits
  <1>7. ASSUME NEW f \in Owner PROVE LogoFits(f)'
    <2>1. LogoFits(f) /\ logo[f] \in LogoUpload \cup {NoLogo}
      BY DEF LogosFit, LogoTypeOK
    <2>2. logo[f] # NoLogo => logo[f] # r
      BY <1>3, <2>1 DEF LogoFits
    <2> QED
      BY <1>1, <1>4, <2>1, <2>2 DEF LogoFits
  <1>8. ASSUME NEW u \in objects' PROVE ObjectFits(u)'
    <2>1. ObjectFits(u) /\ u # r /\ u \in LogoUpload
      BY <1>1 DEF LogosFit, LogoTypeOK, ObjectFits
    <2>2. \A x \in LogoUpload : logoRequest[x].pc = "sweep" => logoRequest'[x] = logoRequest[x]
      BY <1>1, <1>4
    <2> QED
      BY <1>1, <1>4, <2>1, <2>2 DEF ObjectFits, Explained
  <1>9. LogoTypeOK'
    BY <1>1, <1>4 DEF LogoTypeOK
  <1> QED
    BY <1>5, <1>6, <1>7, <1>8, <1>9 DEF LogosFit

\* The row's owner goes.
LEMMA OwnersFit ==
    ASSUME LogosFit, NEW e \in Owner, DeleteOwner(e)
    PROVE  LogosFit'
  <1>1. /\ ownerGone' = ownerGone \cup {e} /\ LogoTypeOK
        /\ UNCHANGED <<logo, objects, logoRequest, lost, spilled, logoUnseen>>
    BY DEF LogosFit, DeleteOwner
  <1>2. LogoTypeOK' /\ (\A r \in LogoUpload : LogoRequestFits(r)') /\ \A f \in Owner : LogoFits(f)'
    BY <1>1 DEF LogosFit, LogoTypeOK, LogoRequestFits, LogoFits, Settled
  <1>3. ASSUME NEW u \in objects' PROVE ObjectFits(u)'
    <2>1. ObjectFits(u) /\ u # NoLogo /\ u \in LogoUpload
      BY <1>1, LogoAssumption DEF LogosFit, LogoTypeOK
    <2>2. \A f \in Owner : logo[f] = u => logoRequest[u].of = f
      BY <2>1 DEF LogosFit, LogoFits
    <2> QED
      BY <1>1, <2>1, <2>2 DEF ObjectFits, Explained
  <1> QED
    BY <1>2, <1>3 DEF LogosFit

\* A request moves from one step to another.
Moved(r, pc, old) ==
    /\ logoRequest' \in [LogoUpload -> LogoRecord]
    /\ logoRequest'[r] = [pc |-> pc, of |-> logoRequest[r].of, old |-> old]
    /\ \A x \in LogoUpload \ {r} : logoRequest'[x] = logoRequest[x]
    /\ \A x \in LogoUpload : Settled(x) => Settled(x)' /\ logoRequest'[x].of = logoRequest[x].of

LEMMA GoMoves ==
    ASSUME LogosFit, NEW r \in LogoUpload, NEW pc \in {"put", "read", "save", "undo", "sweep", "clear", "done"},
           Go(r, pc), Settled(r) => pc = "done"
    PROVE  Moved(r, pc, logoRequest[r].old)
  <1> DEFINE new == [pc |-> pc, of |-> logoRequest[r].of, old |-> logoRequest[r].old]
  <1>1. new \in LogoRecord
    BY DEF LogosFit, LogoTypeOK, LogoRecord
  <1>2. logoRequest' = [logoRequest EXCEPT ![r] = new]
    BY LogoGoes
  <1> QED
    BY <1>1, <1>2, LogoMoves DEF Moved

\* The others' requests: a row may have been cleared, or got an object of a
\* request that had none in a row before, and an object of a settled request
\* may be gone.
LEMMA RequestsKeep ==
    ASSUME LogosFit, NEW r \in LogoUpload, NEW pc, NEW old, Moved(r, pc, old), UNCHANGED ownerGone,
           \A u \in objects \ objects' : u = r \/ Settled(u),
           \A e \in Owner : logo'[e] \in {logo[e], NoLogo} \/ (logo'[e] = r /\ ~Settled(r))
    PROVE  \A x \in LogoUpload \ {r} : LogoRequestFits(x)'
  <1> SUFFICES ASSUME NEW x \in LogoUpload \ {r} PROVE LogoRequestFits(x)'
    OBVIOUS
  <1>1. /\ LogoRequestFits(x) /\ logoRequest[x].old \in LogoUpload \cup {NoLogo}
        /\ logoRequest[x].of \in Owner \cup {NoLogo}
    BY DEF LogosFit, LogoTypeOK, LogoRecord
  <1>2. logoRequest'[x] = logoRequest[x]
    BY DEF Moved
  <1>3. logoRequest[x].old # NoLogo => Settled(logoRequest[x].old)' /\ logoRequest'[logoRequest[x].old].of = logoRequest[x].of
    BY <1>1 DEF LogoRequestFits, Moved
  <1>4. logoRequest[x].pc \in {"read", "save"} => x \in objects'
    BY <1>1 DEF LogoRequestFits, Settled
  <1>5. logoRequest[x].pc = "sweep" /\ logoRequest[x].old # NoLogo =>
           logoRequest[x].of \in ownerGone \/ logo'[logoRequest[x].of] # logoRequest[x].old
    BY <1>1 DEF LogoRequestFits
  <1> QED
    BY <1>1, <1>2, <1>3, <1>4, <1>5 DEF LogoRequestFits

\* The rows, when none is written.
LEMMA RowsKeep ==
    ASSUME LogosFit, NEW r \in LogoUpload, NEW pc, NEW old, Moved(r, pc, old), UNCHANGED <<logo, ownerGone>>,
           lost \subseteq lost', pc = "undo" => ~Settled(r),
           \A u \in objects \ objects' : \A e \in Owner \ ownerGone : logo[e] = u => u \in lost
    PROVE  \A e \in Owner : LogoFits(e)'
  <1> SUFFICES ASSUME NEW e \in Owner, logo[e] # NoLogo PROVE LogoFits(e)'
    BY DEF LogoFits
  <1>1. LogoFits(e) /\ logo[e] \in LogoUpload
    BY DEF LogosFit, LogoTypeOK
  <1>2. Settled(logo[e])' /\ logoRequest'[logo[e]].of = e
    BY <1>1 DEF LogoFits, Moved
  <1>3. logoRequest'[logo[e]].pc = "undo" => logo[e] \in lost'
    BY <1>1 DEF LogoFits, Moved
  <1>4. logo[e] \in objects' \/ logo[e] \in lost' \/ e \in ownerGone
    BY <1>1 DEF LogoFits
  <1> QED
    BY <1>2, <1>3, <1>4 DEF LogoFits

\* The objects of others, when no row is written.
LEMMA ObjectsKeep ==
    ASSUME LogosFit, NEW r \in LogoUpload, NEW pc, NEW old, Moved(r, pc, old), UNCHANGED <<logo, ownerGone>>,
           spilled \subseteq spilled', logoUnseen \subseteq logoUnseen', objects' \subseteq objects \cup {r},
           logoRequest[r].pc = "sweep" /\ logoRequest[r].old \in objects' => logoRequest[r].old \in spilled'
    PROVE  \A u \in objects' \ {r} : ObjectFits(u)'
  <1> SUFFICES ASSUME NEW u \in objects' \ {r} PROVE ObjectFits(u)'
    OBVIOUS
  <1>1. ObjectFits(u) /\ u \in LogoUpload /\ logoRequest'[u] = logoRequest[u]
    BY DEF LogosFit, LogoTypeOK, Moved
  <1>2. CASE \E x \in LogoUpload : logoRequest[x].pc = "sweep" /\ logoRequest[x].old = u
    <2>1. PICK x \in LogoUpload : logoRequest[x].pc = "sweep" /\ logoRequest[x].old = u
      BY <1>2
    <2>2. CASE x = r
      BY <1>1, <2>1, <2>2 DEF ObjectFits, Explained
    <2>3. CASE x # r
      <3>1. logoRequest'[x] = logoRequest[x]
        BY <2>3 DEF Moved
      <3> QED
        BY <1>1, <2>1, <3>1 DEF ObjectFits, Explained
    <2> QED
      BY <2>2, <2>3
  <1>3. CASE ~ \E x \in LogoUpload : logoRequest[x].pc = "sweep" /\ logoRequest[x].old = u
    BY <1>1, <1>3 DEF ObjectFits, Explained
  <1> QED
    BY <1>2, <1>3

LEMMA PutsFit ==
    ASSUME LogosFit, NEW r \in LogoUpload, PutObject(r)
    PROVE  LogosFit'
  <1>1. /\ LogoTypeOK /\ logoRequest[r].pc = "put" /\ LogoRequestFits(r) /\ ~Settled(r)
        /\ UNCHANGED <<logo, ownerGone, lost, logoUnseen>>
    BY DEF LogosFit, PutObject, LogoAt, Settled
  <1>2. PICK pc \in {"read", "done"} :
           /\ Go(r, pc) /\ objects \subseteq objects' /\ objects' \subseteq objects \cup {r}
           /\ spilled \subseteq spilled' /\ (pc = "read" => r \in objects')
           /\ pc = "done" /\ r \in objects' => r \in spilled' \/ r \in objects
    BY DEF PutObject
  <1>3. Moved(r, pc, logoRequest[r].old)
    BY <1>1, <1>2, GoMoves
  <1>4. LogoRequestFits(r)'
    BY <1>1, <1>2, <1>3 DEF LogoRequestFits, Moved, LogoTypeOK, LogoRecord
  <1>5. r \notin objects
    BY <1>1 DEF LogosFit, ObjectFits
  <1>6. r \in objects' => ObjectFits(r)'
    BY <1>2, <1>3, <1>5 DEF ObjectFits, Explained, Moved
  <1>7. \A u \in objects' \ {r} : ObjectFits(u)'
    BY <1>1, <1>2, <1>3, ObjectsKeep
  <1>8. \A x \in LogoUpload \ {r} : LogoRequestFits(x)'
    BY <1>1, <1>2, <1>3, RequestsKeep
  <1>9. \A e \in Owner : LogoFits(e)'
    BY <1>1, <1>2, <1>3, RowsKeep
  <1>10. LogoTypeOK'
    BY <1>1, <1>2, <1>3 DEF LogoTypeOK, Moved
  <1> QED
    BY <1>4, <1>6, <1>7, <1>8, <1>9, <1>10 DEF LogosFit

LEMMA LogoLooksFit ==
    ASSUME LogosFit, NEW r \in LogoUpload, ReadOld(r)
    PROVE  LogosFit'
  <1> DEFINE e == logoRequest[r].of
  <1>1. /\ LogoTypeOK /\ logoRequest[r].pc = "read" /\ LogoRequestFits(r) /\ ~Settled(r) /\ r \in objects
        /\ UNCHANGED <<logo, ownerGone, objects, lost, spilled, logoUnseen>> /\ e \in Owner
    BY DEF LogosFit, ReadOld, LogoAt, Settled, LogoRequestFits
  <1>2. Current(e) \in LogoUpload \cup {NoLogo}
    BY <1>1 DEF LogoTypeOK, Current
  <1>3. PICK pc \in {"save", "undo"}, old \in {logoRequest[r].old, Current(e)} : Moved(r, pc, old)
    <2>1. CASE Ask(r, e, "save", Current(e))
      <3> DEFINE new == [pc |-> "save", of |-> e, old |-> Current(e)]
      <3>1. new \in LogoRecord
        BY <1>1, <1>2 DEF LogoRecord
      <3>2. Moved(r, "save", Current(e))
        BY <1>1, <2>1, <3>1, LogoMoves DEF Ask, Moved
      <3> QED
        BY <3>2
    <2>2. CASE Go(r, "undo")
      BY <1>1, <2>2, GoMoves
    <2> QED
      BY <2>1, <2>2 DEF ReadOld
  <1>4. LogoRequestFits(r)'
    <2>1. old \in LogoUpload \cup {NoLogo}
      BY <1>1, <1>2, <1>3 DEF LogoTypeOK, LogoRecord
    <2>2. old # NoLogo => Settled(old) /\ logoRequest[old].of = e
      BY <1>1 DEF LogosFit, LogoFits, LogoRequestFits, Current
    <2>3. old # NoLogo => Settled(old)' /\ logoRequest'[old].of = e
      BY <1>3, <2>1, <2>2 DEF Moved
    <2> QED
      BY <1>1, <1>3, <2>3 DEF LogoRequestFits, Moved
  <1>5. ObjectFits(r)'
    BY <1>1, <1>3 DEF ObjectFits, Explained, Moved
  <1>6. \A u \in objects' \ {r} : ObjectFits(u)'
    BY <1>1, <1>3, ObjectsKeep
  <1>7. \A x \in LogoUpload \ {r} : LogoRequestFits(x)'
    BY <1>1, <1>3, RequestsKeep
  <1>8. \A f \in Owner : LogoFits(f)'
    BY <1>1, <1>3, RowsKeep
  <1>9. LogoTypeOK'
    BY <1>1, <1>3 DEF LogoTypeOK, Moved
  <1> QED
    BY <1>4, <1>5, <1>6, <1>7, <1>8, <1>9 DEF LogosFit

\* The compensation, and the removal of what was replaced.
LEMMA RemovalsFit ==
    ASSUME LogosFit, NEW r \in LogoUpload, Undo(r) \/ Sweep(r)
    PROVE  LogosFit'
  <1> DEFINE q == logoRequest[r]
             gone == IF q.pc = "undo" THEN r ELSE q.old
  <1>1. /\ LogoTypeOK /\ q.pc \in {"undo", "sweep"} /\ LogoRequestFits(r) /\ Settled(r)
        /\ UNCHANGED <<logo, ownerGone, lost, logoUnseen>> /\ Go(r, "done")
        /\ objects \ {gone} \subseteq objects' /\ objects' \subseteq objects /\ spilled \subseteq spilled'
        /\ gone \in objects' => gone \in spilled'
    BY DEF LogosFit, Undo, Sweep, LogoAt, Settled, RemoveObjects, Compensated, Replaced
  <1>2. Moved(r, "done", q.old)
    BY <1>1, GoMoves
  <1>3. \A f \in Owner \ ownerGone : logo[f] = gone /\ gone \in objects => gone \in lost
    <2>1. ASSUME NEW f \in Owner \ ownerGone, logo[f] = gone, gone \in objects PROVE gone \in lost
      <3>1. LogoFits(f) /\ gone # NoLogo /\ gone \in LogoUpload
        BY <1>1, <2>1, LogoAssumption DEF LogosFit, LogoTypeOK
      <3>2. CASE q.pc = "undo"
        BY <2>1, <3>1, <3>2 DEF LogoFits
      <3>3. CASE q.pc = "sweep"
        <4>1. gone = q.old /\ logoRequest[gone].of = q.of /\ logoRequest[gone].of = f
          BY <1>1, <2>1, <3>1, <3>3 DEF LogoFits, LogoRequestFits
        <4> QED
          BY <1>1, <2>1, <3>1, <3>3, <4>1 DEF LogoRequestFits
      <3> QED
        BY <1>1, <3>2, <3>3
    <2> QED
      BY <2>1
  <1>4. \A u \in objects \ objects' : u = r \/ Settled(u)
    BY <1>1, LogoAssumption DEF LogoRequestFits, LogoTypeOK
  <1>5. LogoRequestFits(r)'
    BY <1>1, <1>2 DEF LogoRequestFits, Moved, LogoTypeOK, LogoRecord
  <1>6. r \in objects' => ObjectFits(r)'
    <2>1. CASE q.pc = "undo"
      BY <1>1, <1>2, <2>1 DEF ObjectFits, Explained, Moved
    <2>2. ASSUME q.pc = "sweep", r \in objects' PROVE ObjectFits(r)'
      <3>1. ObjectFits(r)
        BY <1>1, <2>2 DEF LogosFit
      <3>2. CASE \E x \in LogoUpload : logoRequest[x].pc = "sweep" /\ logoRequest[x].old = r
        <4>1. PICK x \in LogoUpload : logoRequest[x].pc = "sweep" /\ logoRequest[x].old = r
          BY <3>2
        <4>2. CASE x = r
          <5>1. logoRequest[r].old = r /\ r # NoLogo
            BY <4>1, <4>2, LogoAssumption
          <5>2. r \in spilled'
            BY <1>1, <2>2, <5>1
          <5> QED
            BY <1>2, <5>2 DEF ObjectFits, Explained, Moved
        <4>3. CASE x # r
          <5>1. logoRequest'[x] = logoRequest[x]
            BY <1>2, <4>3 DEF Moved
          <5> QED
            BY <1>2, <4>1, <5>1 DEF ObjectFits, Explained, Moved
        <4> QED
          BY <4>2, <4>3
      <3>3. CASE ~ \E x \in LogoUpload : logoRequest[x].pc = "sweep" /\ logoRequest[x].old = r
        BY <1>1, <1>2, <2>2, <3>1, <3>3 DEF ObjectFits, Explained, Moved
      <3> QED
        BY <3>2, <3>3
    <2> QED
      BY <1>1, <2>1, <2>2
  <1>7. \A u \in objects' \ {r} : ObjectFits(u)'
    BY <1>1, <1>2, ObjectsKeep
  <1>8. \A x \in LogoUpload \ {r} : LogoRequestFits(x)'
    BY <1>1, <1>2, <1>4, RequestsKeep
  <1>9. \A f \in Owner : LogoFits(f)'
    BY <1>1, <1>2, <1>3, RowsKeep
  <1>10. LogoTypeOK'
    BY <1>1, <1>2 DEF LogoTypeOK, Moved
  <1> QED
    BY <1>5, <1>6, <1>7, <1>8, <1>9, <1>10 DEF LogosFit

\* A row is saved or cleared, whatever the answer says.
LEMMA RowWritten ==
    ASSUME LogosFit, NEW r \in LogoUpload, NEW url, NEW pc \in {"sweep", "undo", "done"},
           Moved(r, pc, logoRequest[r].old), logoRequest[r].of \notin ownerGone,
           UNCHANGED <<ownerGone, objects>>, lost \subseteq lost', spilled \subseteq spilled',
           logo' = [logo EXCEPT ![logoRequest[r].of] = url],
           logoUnseen' = IF logo[logoRequest[r].of] = logoRequest[r].old
                           THEN logoUnseen ELSE logoUnseen \cup {logo[logoRequest[r].of]},
           pc # "sweep" => logoRequest[r].old \in spilled',
           \/ url = NoLogo /\ logoRequest[r].pc = "clear" /\ pc # "undo"
           \/ url = r /\ logoRequest[r].pc = "save" /\ pc # "done" /\ (pc = "undo" => r \in lost')
    PROVE  LogosFit'
  <1> DEFINE q == logoRequest[r]
             e == q.of
  <1>1. LogoTypeOK /\ LogoRequestFits(r) /\ ~Settled(r) /\ e \in Owner
    BY DEF LogosFit, Settled, LogoRequestFits
  <1>2. /\ logo' \in [Owner -> LogoUpload \cup {NoLogo}] /\ logo'[e] = url
        /\ \A f \in Owner \ {e} : logo'[f] = logo[f]
    BY <1>1 DEF LogoTypeOK
  <1>3. \A x \in LogoUpload \ {r} : LogoRequestFits(x)'
    BY <1>1, <1>2, RequestsKeep
  <1>4. LogoRequestFits(r)'
    <2>1. q.old # NoLogo => Settled(q.old)' /\ logoRequest'[q.old].of = e /\ q.old # url
      BY <1>1 DEF LogoRequestFits, LogoTypeOK, LogoRecord, Moved
    <2> QED
      BY <1>1, <1>2, <2>1 DEF LogoRequestFits, Moved
  <1>5. ASSUME NEW f \in Owner PROVE LogoFits(f)'
    <2>1. CASE f = e
      BY <1>1, <1>2, <2>1 DEF LogoFits, Moved, Settled, LogoRequestFits
    <2>2. CASE f # e
      <3>1. LogoFits(f) /\ logo'[f] = logo[f] /\ logo[f] \in LogoUpload \cup {NoLogo}
        BY <1>1, <1>2, <2>2 DEF LogosFit, LogoTypeOK
      <3> QED
        BY <1>1, <3>1 DEF LogoFits, Moved
    <2> QED
      BY <2>1, <2>2
  <1>6. ASSUME NEW u \in objects', u # r PROVE ObjectFits(u)'
    <2>1. ObjectFits(u) /\ u \in LogoUpload /\ logoRequest'[u] = logoRequest[u]
      BY <1>1, <1>6 DEF LogosFit, LogoTypeOK, Moved
    <2>2. \A x \in LogoUpload : logoRequest[x].pc = "sweep" => logoRequest'[x] = logoRequest[x]
      BY <1>1 DEF Moved, Settled
    <2>3. CASE u = logo[e]
      <3>1. logo[e] # q.old => u \in logoUnseen'
        BY <2>3
      <3>2. logo[e] = q.old => u \in spilled' \/ (logoRequest'[r].pc = "sweep" /\ logoRequest'[r].old = u)
        BY <2>3 DEF Moved
      <3> QED
        BY <2>1, <3>1, <3>2 DEF ObjectFits, Explained
    <2>4. CASE u # logo[e]
      <3>1. (\E f \in Owner \ ownerGone : logo[f] = u) => \E f \in Owner \ ownerGone : logo'[f] = u
        BY <1>2, <2>4
      <3>2. logoUnseen \subseteq logoUnseen'
        OBVIOUS
      <3> QED
        BY <2>1, <2>2, <3>1, <3>2 DEF ObjectFits, Explained
    <2> QED
      BY <2>3, <2>4
  <1>7. r \in objects' => ObjectFits(r)'
    <2>1. r \in objects => url = r
      BY DEF LogosFit, ObjectFits
    <2> QED
      BY <1>1, <1>2, <2>1 DEF ObjectFits, Explained, Moved
  <1>8. LogoTypeOK'
    BY <1>1, <1>2 DEF LogoTypeOK, Moved
  <1> QED
    BY <1>3, <1>4, <1>5, <1>6, <1>7, <1>8 DEF LogosFit

LEMMA RowNotWritten ==
    ASSUME LogosFit, NEW r \in LogoUpload, NEW pc \in {"sweep", "undo", "done"},
           Moved(r, pc, logoRequest[r].old), UNCHANGED <<logo, ownerGone, objects, logoUnseen>>,
           lost \subseteq lost', spilled \subseteq spilled',
           logoRequest[r].pc \in {"save", "clear"}, logoRequest[r].pc = "save" => pc # "done",
           pc = "sweep" => logoRequest[r].of \in ownerGone
    PROVE  LogosFit'
  <1>1. LogoTypeOK /\ LogoRequestFits(r) /\ ~Settled(r)
    BY DEF LogosFit, Settled
  <1>2. LogoRequestFits(r)'
    BY <1>1 DEF LogoRequestFits, Moved, LogoTypeOK, LogoRecord
  <1>3. r \in objects' => ObjectFits(r)'
    <2>1. r \in objects => logoRequest[r].pc = "save"
      BY DEF LogosFit, ObjectFits
    <2> QED
      BY <2>1 DEF ObjectFits, Explained, Moved
  <1>4. \A u \in objects' \ {r} : ObjectFits(u)'
    BY <1>1, ObjectsKeep
  <1>5. \A x \in LogoUpload \ {r} : LogoRequestFits(x)'
    BY RequestsKeep
  <1>6. \A f \in Owner : LogoFits(f)'
    BY <1>1, RowsKeep
  <1>7. LogoTypeOK'
    BY <1>1 DEF LogoTypeOK, Moved
  <1> QED
    BY <1>2, <1>3, <1>4, <1>5, <1>6, <1>7 DEF LogosFit

LEMMA SavesFit ==
    ASSUME LogosFit, NEW r \in LogoUpload, SaveLogo(r) \/ Clear(r)
    PROVE  LogosFit'
  <1> DEFINE q == logoRequest[r]
             e == q.of
  <1>1. /\ ~Settled(r) /\ q.pc \in {"save", "clear"} /\ UNCHANGED <<ownerGone, objects>>
        /\ lost \subseteq lost' /\ spilled \subseteq spilled'
    BY DEF SaveLogo, Clear, LogoAt, Settled
  <1>2. CASE SaveLogo(r)
    <2>1. PICK pc \in {"sweep", "undo"} :
             /\ Go(r, pc)
             /\ \/ UNCHANGED <<logo, logoUnseen>> /\ pc = "undo"
                \/ WriteLogo(r, r) /\ (pc = "undo" => r \in lost' /\ q.old \in spilled')
      BY <1>2 DEF SaveLogo, Replaced
    <2>2. Moved(r, pc, q.old)
      BY <1>1, <2>1, GoMoves
    <2>3. CASE UNCHANGED <<logo, logoUnseen>> /\ (pc = "undo" \/ e \in ownerGone)
      BY <1>1, <2>2, <2>3, RowNotWritten
    <2>4. CASE e \notin ownerGone /\ WriteLogo(r, r) /\ (pc = "undo" => r \in lost' /\ q.old \in spilled')
      BY <1>1, <1>2, <2>2, <2>4, RowWritten DEF WriteLogo, SaveLogo, LogoAt
    <2> QED
      BY <2>1, <2>3, <2>4 DEF WriteLogo
  <1>3. CASE Clear(r)
    <2>1. PICK pc \in {"sweep", "done"} :
             /\ Go(r, pc) /\ (pc = "done" => q.old \in spilled')
             /\ \/ UNCHANGED <<logo, logoUnseen>> /\ pc = "done"
                \/ WriteLogo(r, NoLogo)
      BY <1>3 DEF Clear, Replaced
    <2>2. Moved(r, pc, q.old)
      BY <1>1, <2>1, GoMoves
    <2>3. CASE e \in ownerGone \/ ~WriteLogo(r, NoLogo)
      <3>1. UNCHANGED <<logo, logoUnseen>> /\ (pc = "sweep" => e \in ownerGone)
        BY <2>1, <2>3 DEF WriteLogo
      <3> QED
        BY <1>1, <1>3, <2>2, <3>1, RowNotWritten DEF Clear, LogoAt
    <2>4. CASE e \notin ownerGone /\ WriteLogo(r, NoLogo)
      BY <1>1, <1>3, <2>1, <2>2, <2>4, RowWritten DEF WriteLogo, Clear, LogoAt
    <2> QED
      BY <2>3, <2>4
  <1> QED
    BY <1>2, <1>3

LEMMA LogoStepFits == ASSUME LogosFit, [LogoNext]_logoVars PROVE LogosFit'
  <1>1. CASE UNCHANGED logoVars
    BY <1>1 DEF logoVars, LogosFit, LogoTypeOK, LogoRequestFits, LogoFits, ObjectFits, Explained, Settled
  <1>2. ASSUME NEW r \in LogoUpload, NEW e \in Owner,
               PostTeamLogo(r, e) \/ PostOrgLogo(r, e) \/ DeleteTeamLogo(r, e) \/ DeleteOrgLogo(r, e)
        PROVE  LogosFit'
    BY <1>2, AsksFit
  <1>3. ASSUME NEW r \in LogoUpload,
               PutObject(r) \/ ReadOld(r) \/ SaveLogo(r) \/ Undo(r) \/ Sweep(r) \/ Clear(r)
        PROVE  LogosFit'
    BY <1>3, PutsFit, LogoLooksFit, SavesFit, RemovalsFit
  <1>4. ASSUME NEW e \in Owner, DeleteOwner(e) PROVE LogosFit'
    BY <1>4, OwnersFit
  <1> QED
    BY <1>1, <1>2, <1>3, <1>4 DEF LogoNext, Owner

-----------------------------------------------------------------------------
(* Naming and revoking devices.                                            *)

DeviceName == Name \cup {NoDevice}
Card == [alias : DeviceName, revoked : BOOLEAN]
CardList == UNION {[D -> Card] : D \in SUBSET Device}
NameField == [dev : Device \cup {NoDevice}, text : DeviceName, typed : BOOLEAN]

\* Where a request stands: nothing is written yet, or the list is fetched.
Before == {"idle", "sent", "exists", "free", "refused"}
RequestRecord == [pc : Before \cup {"done", "fetch", "read"}, tab : Tab \cup {NoDevice},
                  dev : Device \cup {NoDevice},
                  kind : {"name", "revoke", "restore", "delete", NoDevice}, name : DeviceName,
                  typed : BOOLEAN, list : CardList \cup {<<>>}, lacks : SUBSET Device]

ServerTypeOK ==
    /\ records \subseteq Device /\ revoked \subseteq Device
    /\ alias \in [Device -> DeviceName] /\ uploads \in [Device -> Nat]

TabTypeOK ==
    /\ deviceShown \in [Tab -> CardList] /\ field \in [Tab -> NameField]
    /\ deviceNewest \in [Tab -> DeviceRequest \cup {NoDevice}]
    /\ deviceUnseen \in [Tab -> SUBSET Device] /\ untold \in [Tab -> SUBSET Device]

\* A text nobody typed is the name shown.
FieldFits(t) ==
    field[t].dev # NoDevice =>
        /\ field[t].dev \in DOMAIN deviceShown[t]
        /\ field[t].typed \/ field[t].text = deviceShown[t][field[t].dev].alias

DeviceRequestFits(r) ==
    LET q == deviceRequest[r]
    IN  /\ q.typed
        /\ q.pc # "idle" => q.tab \in Tab /\ q.dev \in Device
        /\ q.pc = "read" => q.list \in CardList
        /\ q.pc # "read" => q.lacks = {}

\* A change that is written and not yet answered, and a list that will be
\* kept and has the device as it is.
Unanswered(t, d) ==
    \E r \in DeviceRequest : deviceRequest[r].pc = "done" /\ deviceRequest[r].tab = t /\ deviceRequest[r].dev = d
Awaited(t, d) ==
    \E r \in DeviceRequest :
        /\ deviceNewest[t] = r /\ deviceRequest[r].tab = t
        /\ deviceRequest[r].pc = "fetch" \/ (deviceRequest[r].pc = "read" /\ d \notin deviceRequest[r].lacks)

\* Whatever a tab changed is on its way, or it was told of a failure.
WorkFits ==
    /\ \A t \in Tab : \A d \in deviceUnseen[t] \ untold[t] : Unanswered(t, d) \/ Awaited(t, d)
    /\ \A t \in Tab, r \in DeviceRequest :
          deviceNewest[t] = r /\ deviceRequest[r].tab = t /\ deviceRequest[r].pc = "read" =>
              \A d \in deviceRequest[r].lacks : d \in untold[t] \/ Unanswered(t, d)

DeviceFits ==
    /\ ServerTypeOK /\ NamesUnique /\ HiddenNamesCrossed
    /\ TabTypeOK /\ \A t \in Tab : FieldFits(t)
    /\ deviceRequest \in [DeviceRequest -> RequestRecord] /\ \A r \in DeviceRequest : DeviceRequestFits(r)
    /\ WorkFits

LEMMA ListingFits == ASSUME ServerTypeOK PROVE Listing \in CardList
  BY DEF ServerTypeOK, Listing, CardList, Card

LEMMA DeviceStarts == ASSUME DeviceInit PROVE DeviceFits
  <1>1. ServerTypeOK /\ NamesUnique /\ HiddenNamesCrossed
    BY DEF DeviceInit, ServerTypeOK, NamesUnique, HiddenNamesCrossed, DeviceName
  <1>2. NoField \in NameField /\ NoRequest \in RequestRecord
    BY DEF NoField, NoRequest, NameField, RequestRecord, DeviceName, Before
  <1>3. TabTypeOK /\ \A t \in Tab : FieldFits(t)
    BY <1>1, <1>2, ListingFits DEF DeviceInit, TabTypeOK, FieldFits, NoField
  <1>4. /\ deviceRequest \in [DeviceRequest -> RequestRecord]
        /\ \A r \in DeviceRequest : DeviceRequestFits(r) /\ deviceRequest[r].pc = "idle"
    BY <1>2 DEF DeviceInit, DeviceRequestFits, NoRequest
  <1>5. WorkFits
    BY <1>4 DEF DeviceInit, WorkFits
  <1> QED
    BY <1>1, <1>3, <1>4, <1>5 DEF DeviceFits

LEMMA UploadFits ==
    ASSUME DeviceFits, NEW d \in Device, NEW tagged \in BOOLEAN, UploadFrom(d, tagged)
    PROVE  DeviceFits' /\ IgnoresRevoked
  <1>1. /\ ServerTypeOK /\ NamesUnique /\ HiddenNamesCrossed
        /\ UNCHANGED <<alias, revoked, tabVars, deviceRequest, deviceUnseen, untold>>
        /\ uploads' = [uploads EXCEPT ![d] = @ + 1]
        /\ records' = IF d \in revoked THEN records ELSE records \cup {d}
        /\ crossed' = crossed \ records'
        /\ tagged \/ d = DefaultDevice
        /\ tagged => d \notin revoked
    BY DEF DeviceFits, UploadFrom, Accepts
  <1>2. ServerTypeOK' /\ NamesUnique' /\ HiddenNamesCrossed'
    BY <1>1 DEF ServerTypeOK, NamesUnique, HiddenNamesCrossed
  <1>3. IgnoresRevoked
    <2>1. ASSUME NEW e \in revoked, uploads'[e] # uploads[e] PROVE e = DefaultDevice /\ UploadFrom(e, FALSE)
      <3>1. e = d
        BY <1>1, <2>1 DEF ServerTypeOK
      <3>2. tagged = FALSE
        BY <1>1, <2>1, <3>1
      <3> QED
        BY <1>1, <3>1, <3>2
    <2>2. \A e \in revoked : e \in records' => e \in records
      BY <1>1
    <2> QED
      BY <2>1, <2>2 DEF IgnoresRevoked
  <1> QED
    BY <1>1, <1>2, <1>3 DEF DeviceFits, TabTypeOK, FieldFits, DeviceRequestFits, WorkFits, Unanswered, Awaited, tabVars

\* The server as it is.
LEMMA ServerStays ==
    ASSUME DeviceFits, UNCHANGED serverVars
    PROVE  ServerTypeOK' /\ NamesUnique' /\ HiddenNamesCrossed' /\ IgnoresRevoked
  BY DEF DeviceFits, serverVars, ServerTypeOK, NamesUnique, HiddenNamesCrossed, IgnoresRevoked

\* A request that is not yet written changes nothing that a tab waits for.
LEMMA DeviceRequestMoves ==
    ASSUME DeviceFits, NEW r \in DeviceRequest, NEW new \in RequestRecord,
           deviceRequest' = [deviceRequest EXCEPT ![r] = new],
           deviceRequest[r].pc \in Before, new.pc \in Before,
           new.typed, new.pc # "idle" => new.tab \in Tab /\ new.dev \in Device, new.lacks = {},
           UNCHANGED <<deviceNewest, deviceUnseen, untold>>
    PROVE  /\ deviceRequest' \in [DeviceRequest -> RequestRecord]
           /\ \A x \in DeviceRequest : DeviceRequestFits(x)'
           /\ WorkFits'
  <1>1. /\ deviceRequest' \in [DeviceRequest -> RequestRecord] /\ deviceRequest'[r] = new
        /\ \A x \in DeviceRequest \ {r} : deviceRequest'[x] = deviceRequest[x]
    BY DEF DeviceFits
  <1>2. \A x \in DeviceRequest : DeviceRequestFits(x)'
    BY <1>1 DEF DeviceFits, DeviceRequestFits, Before
  <1>3. \A t \in Tab, d \in Device : (Unanswered(t, d) => Unanswered(t, d)') /\ (Awaited(t, d) => Awaited(t, d)')
    BY <1>1 DEF Unanswered, Awaited, Before
  <1>4. TabTypeOK /\ WorkFits /\ \A x \in DeviceRequest : deviceRequest[x] \in RequestRecord
    BY DEF DeviceFits
  <1>5. \A t \in Tab : \A d \in deviceUnseen'[t] \ untold'[t] : Unanswered(t, d)' \/ Awaited(t, d)'
    BY <1>3, <1>4 DEF WorkFits, TabTypeOK
  <1>6. \A t \in Tab, x \in DeviceRequest :
           deviceNewest'[t] = x /\ deviceRequest'[x].tab = t /\ deviceRequest'[x].pc = "read" =>
               \A d \in deviceRequest'[x].lacks : d \in untold'[t] \/ Unanswered(t, d)'
    BY <1>1, <1>3, <1>4 DEF WorkFits, RequestRecord, Before
  <1> QED
    BY <1>1, <1>2, <1>5, <1>6 DEF WorkFits

\* What a tab sends.
LEMMA SendFits ==
    ASSUME DeviceFits, NEW t \in Tab, NEW d \in Device, NEW kind \in {"name", "revoke", "restore", "delete"},
           NEW name \in DeviceName, SendDevice(t, d, kind, name, TRUE),
           UNCHANGED <<serverVars, tabVars, deviceUnseen, untold>>
    PROVE  DeviceFits' /\ IgnoresRevoked
  <1> DEFINE new == [NoRequest EXCEPT !.pc = "sent", !.tab = t, !.dev = d, !.kind = kind, !.name = name,
                                      !.typed = TRUE]
  <1>1. PICK r \in DeviceRequest :
           deviceRequest[r].pc = "idle" /\ deviceRequest' = [deviceRequest EXCEPT ![r] = new]
    BY DEF SendDevice
  <1>2. NoRequest \in RequestRecord
    BY DEF NoRequest, RequestRecord, Before, DeviceName
  <1>3. /\ new \in RequestRecord /\ new.pc = "sent" /\ new.tab = t /\ new.dev = d
        /\ new.typed = TRUE /\ new.lacks = NoRequest.lacks
    BY <1>2 DEF RequestRecord, Before
  <1>7. NoRequest.lacks = {}
    BY DEF NoRequest
  <1>4. /\ deviceRequest' \in [DeviceRequest -> RequestRecord]
        /\ \A x \in DeviceRequest : DeviceRequestFits(x)'
        /\ WorkFits'
    BY <1>1, <1>3, <1>7, DeviceRequestMoves DEF tabVars, Before
  <1>5. TabTypeOK' /\ \A u \in Tab : FieldFits(u)'
    BY DEF DeviceFits, TabTypeOK, FieldFits, tabVars
  <1> QED
    BY <1>4, <1>5, ServerStays DEF DeviceFits

LEMMA DeviceClicksFit ==
    ASSUME DeviceFits, NEW t \in Tab, NEW d \in Device, ClickStatus(t, d) \/ ClickDelete(t, d)
    PROVE  DeviceFits' /\ IgnoresRevoked
  <1>1. NoDevice \in DeviceName
    BY DEF DeviceName
  <1>2. \/ SendDevice(t, d, "restore", NoDevice, TRUE)
        \/ SendDevice(t, d, "revoke", NoDevice, TRUE)
        \/ SendDevice(t, d, "delete", NoDevice, TRUE)
    BY DEF ClickStatus, ClickDelete
  <1> QED
    BY <1>1, <1>2, SendFits DEF ClickStatus, ClickDelete

\* The name field of a tab.
LEMMA FieldsFit ==
    ASSUME DeviceFits, NEW t \in Tab, NEW new \in NameField, field' = [field EXCEPT ![t] = new],
           UNCHANGED <<serverVars, deviceShown, deviceNewest, deviceRequest, deviceUnseen, untold>>,
           new.dev # NoDevice =>
               /\ new.dev \in DOMAIN deviceShown[t]
               /\ new.typed \/ new.text = deviceShown[t][new.dev].alias
    PROVE  DeviceFits' /\ IgnoresRevoked
  <1>1. /\ field' \in [Tab -> NameField] /\ field'[t] = new
        /\ \A u \in Tab \ {t} : field'[u] = field[u]
    BY DEF DeviceFits, TabTypeOK
  <1>2. \A u \in Tab : FieldFits(u)'
    BY <1>1 DEF DeviceFits, FieldFits
  <1>3. TabTypeOK'
    BY <1>1 DEF DeviceFits, TabTypeOK
  <1> QED
    BY <1>2, <1>3, ServerStays DEF DeviceFits, DeviceRequestFits, WorkFits, Unanswered, Awaited

LEMMA EditsFit ==
    ASSUME DeviceFits, NEW t \in Tab,
           \/ Escape(t) \/ SaveName(t)
           \/ (\E d \in Device : StartEdit(t, d)) \/ \E name \in Name : TypeName(t, name)
    PROVE  DeviceFits' /\ IgnoresRevoked
  <1>1. field[t] \in NameField /\ FieldFits(t) /\ deviceShown[t] \in CardList
    BY DEF DeviceFits, TabTypeOK
  <1>2. NoField \in NameField /\ NoField.dev = NoDevice
    BY DEF NoField, NameField, DeviceName
  <1>3. CASE Escape(t) \/ (SaveName(t) /\ ~Worth(t))
    BY <1>2, <1>3, FieldsFit DEF Escape, SaveName
  <1>4. CASE SaveName(t) /\ Worth(t)
    <2>1. SendDevice(t, field[t].dev, "name", field[t].text, field[t].typed)
      BY <1>4 DEF SaveName
    <2>2. field[t].dev \in Device /\ field[t].text \in DeviceName /\ field[t].typed = TRUE
      BY <1>1, <1>4 DEF SaveName, Worth, FieldFits, NameField
    <2> QED
      BY <1>4, <2>1, <2>2, SendFits DEF SaveName, tabVars
  <1>5. ASSUME NEW d \in Device, StartEdit(t, d) PROVE DeviceFits' /\ IgnoresRevoked
    <2> DEFINE new == [NoField EXCEPT !.dev = d, !.text = deviceShown[t][d].alias]
    <2>1. deviceShown[t][d] \in Card
      BY <1>1, <1>5 DEF StartEdit, CardList
    <2>2. /\ new \in NameField /\ new.dev = d /\ new.text = deviceShown[t][d].alias
      BY <2>1 DEF NoField, NameField, Card
    <2> QED
      BY <1>5, <2>2, FieldsFit DEF StartEdit
  <1>6. ASSUME NEW name \in Name, TypeName(t, name) PROVE DeviceFits' /\ IgnoresRevoked
    <2> DEFINE new == [field[t] EXCEPT !.text = name, !.typed = TRUE]
    <2>1. new \in NameField /\ new.dev = field[t].dev /\ new.typed
      BY <1>1 DEF NameField, DeviceName
    <2>2. field' = [field EXCEPT ![t] = new]
      BY <1>6 DEF TypeName, DeviceFits, TabTypeOK
    <2> QED
      BY <1>1, <1>6, <2>1, <2>2, FieldsFit DEF TypeName, FieldFits
  <1> QED
    BY <1>3, <1>4, <1>5, <1>6

\* A route looks at what is there.
LEMMA DeviceLooksFit ==
    ASSUME DeviceFits, NEW r \in DeviceRequest, LookDevice(r)
    PROVE  DeviceFits' /\ IgnoresRevoked
  <1>1. /\ deviceRequest[r] \in RequestRecord /\ DeviceRequestFits(r)
        /\ deviceRequest[r].pc \in {"sent", "exists"}
        /\ UNCHANGED <<serverVars, tabVars, deviceUnseen, untold>>
    BY DEF DeviceFits, LookDevice
  <1>2. PICK pc \in {"exists", "refused", "free"} :
           deviceRequest' = [deviceRequest EXCEPT ![r] = [deviceRequest[r] EXCEPT !.pc = pc]]
    BY DEF LookDevice, GotoDevice
  <1> DEFINE new == [deviceRequest[r] EXCEPT !.pc = pc]
  <1>3. /\ new \in RequestRecord /\ new.pc = pc /\ new.tab = deviceRequest[r].tab
        /\ new.dev = deviceRequest[r].dev /\ new.typed = deviceRequest[r].typed
        /\ new.lacks = deviceRequest[r].lacks
    BY <1>1 DEF RequestRecord, Before
  <1>4. /\ deviceRequest' \in [DeviceRequest -> RequestRecord]
        /\ \A x \in DeviceRequest : DeviceRequestFits(x)'
        /\ WorkFits'
    BY <1>1, <1>2, <1>3, DeviceRequestMoves DEF DeviceRequestFits, tabVars, Before
  <1>5. TabTypeOK' /\ \A u \in Tab : FieldFits(u)'
    BY <1>1 DEF DeviceFits, TabTypeOK, FieldFits, tabVars
  <1> QED
    BY <1>1, <1>4, <1>5, ServerStays DEF DeviceFits

\* A write: the tab that asked for it has to read its device again.
LEMMA WroteFits ==
    ASSUME DeviceFits, NEW r \in DeviceRequest, deviceRequest[r].pc \in {"sent", "free"}, Wrote(r),
           UNCHANGED <<tabVars, untold>>
    PROVE  /\ deviceRequest' \in [DeviceRequest -> RequestRecord]
           /\ \A x \in DeviceRequest : DeviceRequestFits(x)'
           /\ TabTypeOK' /\ (\A t \in Tab : FieldFits(t)') /\ WorkFits'
  <1> DEFINE q == deviceRequest[r]
             Lacking(x) == deviceRequest[x].tab = q.tab /\ deviceRequest[x].pc = "read"
  <1>1. /\ \A x \in DeviceRequest : deviceRequest[x] \in RequestRecord /\ DeviceRequestFits(x)
        /\ TabTypeOK /\ q.tab \in Tab /\ q.dev \in Device
    BY DEF DeviceFits, DeviceRequestFits
  <1>2. deviceRequest'[r] = [q EXCEPT !.pc = "done"]
    BY DEF Wrote
  <1>3. /\ deviceRequest'[r] \in RequestRecord /\ deviceRequest'[r].pc = "done" /\ deviceRequest'[r].tab = q.tab
        /\ deviceRequest'[r].dev = q.dev /\ deviceRequest'[r].typed = q.typed /\ deviceRequest'[r].lacks = q.lacks
    BY <1>1, <1>2 DEF RequestRecord
  <1>4. \A x \in DeviceRequest \ {r} : ~Lacking(x) => deviceRequest'[x] = deviceRequest[x]
    BY DEF Wrote
  <1>5. ASSUME NEW x \in DeviceRequest \ {r}, Lacking(x)
        PROVE  /\ deviceRequest'[x] \in RequestRecord /\ deviceRequest'[x].pc = "read"
               /\ deviceRequest'[x].tab = deviceRequest[x].tab /\ deviceRequest'[x].dev = deviceRequest[x].dev
               /\ deviceRequest'[x].typed = deviceRequest[x].typed /\ deviceRequest'[x].list = deviceRequest[x].list
               /\ deviceRequest'[x].lacks = deviceRequest[x].lacks \cup {q.dev}
    <2>1. deviceRequest'[x] = [deviceRequest[x] EXCEPT !.lacks = @ \cup {q.dev}]
      BY <1>5 DEF Wrote
    <2>2. deviceRequest[x].lacks \cup {q.dev} \in SUBSET Device
      BY <1>1 DEF RequestRecord
    <2> QED
      BY <1>1, <1>5, <2>1, <2>2 DEF RequestRecord
  <1>6. deviceRequest' \in [DeviceRequest -> RequestRecord]
    <2>1. \A x \in DeviceRequest : deviceRequest'[x] \in RequestRecord
      BY <1>1, <1>3, <1>4, <1>5
    <2>2. deviceRequest' = [x \in DeviceRequest |-> deviceRequest'[x]]
      BY DEF Wrote
    <2> QED
      BY <2>1, <2>2
  <1>7. \A x \in DeviceRequest : DeviceRequestFits(x)'
    BY <1>1, <1>3, <1>4, <1>5 DEF DeviceRequestFits
  <1>8. /\ deviceUnseen' \in [Tab -> SUBSET Device]
        /\ deviceUnseen'[q.tab] = deviceUnseen[q.tab] \cup {q.dev}
        /\ \A t \in Tab \ {q.tab} : deviceUnseen'[t] = deviceUnseen[t]
    BY <1>1 DEF Wrote, TabTypeOK
  <1>9. TabTypeOK' /\ \A t \in Tab : FieldFits(t)'
    BY <1>8 DEF DeviceFits, TabTypeOK, FieldFits, tabVars
  <1>10. WorkFits'
    <2>1. \A t \in Tab, d \in Device : t = q.tab /\ d = q.dev => Unanswered(t, d)'
      BY <1>3 DEF Unanswered
    <2>2. \A t \in Tab, d \in Device : Unanswered(t, d) => Unanswered(t, d)'
      <3>1. \A x \in DeviceRequest : deviceRequest[x].pc = "done" => deviceRequest'[x] = deviceRequest[x]
        BY <1>4
      <3> QED
        BY <3>1 DEF Unanswered
    <2>3. ASSUME NEW t \in Tab, NEW d \in Device, Awaited(t, d), t # q.tab \/ d # q.dev PROVE Awaited(t, d)'
      <3>1. PICK x \in DeviceRequest :
               /\ deviceNewest[t] = x /\ deviceRequest[x].tab = t
               /\ deviceRequest[x].pc = "fetch" \/ (deviceRequest[x].pc = "read" /\ d \notin deviceRequest[x].lacks)
        BY <2>3 DEF Awaited
      <3>2. x # r
        BY <3>1
      <3>3. CASE Lacking(x)
        BY <1>5, <2>3, <3>1, <3>2, <3>3 DEF Awaited, tabVars
      <3>4. CASE ~Lacking(x)
        BY <1>4, <3>1, <3>2, <3>4 DEF Awaited, tabVars
      <3> QED
        BY <3>3, <3>4
    <2>4. WorkFits
      BY DEF DeviceFits
    <2>5. ASSUME NEW t \in Tab, NEW d \in deviceUnseen'[t] \ untold'[t]
          PROVE  Unanswered(t, d)' \/ Awaited(t, d)'
      <3>1. CASE t = q.tab /\ d = q.dev
        BY <1>1, <2>1, <3>1
      <3>2. CASE t # q.tab \/ d # q.dev
        <4>1. d \in deviceUnseen[t] \ untold[t] /\ d \in Device
          BY <1>1, <1>8, <3>2 DEF TabTypeOK
        <4> QED
          BY <2>2, <2>3, <2>4, <3>2, <4>1 DEF WorkFits
      <3> QED
        BY <3>1, <3>2
    <2>6. ASSUME NEW t \in Tab, NEW x \in DeviceRequest,
                 deviceNewest'[t] = x, deviceRequest'[x].tab = t, deviceRequest'[x].pc = "read",
                 NEW d \in deviceRequest'[x].lacks
          PROVE  d \in untold'[t] \/ Unanswered(t, d)'
      <3>1. x # r
        BY <1>3, <2>6
      <3>2. CASE Lacking(x) /\ d = q.dev
        BY <1>1, <1>5, <2>1, <2>6, <3>1, <3>2
      <3>3. CASE ~(Lacking(x) /\ d = q.dev)
        <4>1. /\ deviceRequest[x].tab = t /\ deviceRequest[x].pc = "read" /\ deviceNewest[t] = x
              /\ d \in deviceRequest[x].lacks
          BY <1>4, <1>5, <2>6, <3>1, <3>3 DEF tabVars
        <4>2. d \in Device
          BY <1>1, <4>1 DEF RequestRecord
        <4> QED
          BY <2>2, <2>4, <4>1, <4>2 DEF WorkFits
      <3> QED
        BY <3>2, <3>3
    <2> QED
      BY <2>5, <2>6 DEF WorkFits
  <1> QED
    BY <1>6, <1>7, <1>9, <1>10

LEMMA DeviceWritesFit ==
    ASSUME DeviceFits, NEW r \in DeviceRequest, WriteName(r) \/ WriteStatus(r) \/ Delete(r)
    PROVE  DeviceFits' /\ IgnoresRevoked
  <1> DEFINE q == deviceRequest[r]
  <1>1. /\ q \in RequestRecord /\ DeviceRequestFits(r) /\ ServerTypeOK /\ NamesUnique /\ HiddenNamesCrossed
        /\ UNCHANGED <<tabVars, untold>> /\ q.pc \in {"sent", "free"}
    BY DEF DeviceFits, WriteName, WriteStatus, Delete
  <1>2. q.dev \in Device /\ q.name \in DeviceName
    BY <1>1 DEF DeviceRequestFits, RequestRecord
  <1>3. CASE WriteName(r) /\ ~NameStorable(q.dev, q.name)
    <2> DEFINE new == [q EXCEPT !.pc = "refused"]
    <2>1. /\ new \in RequestRecord /\ new.pc = "refused" /\ new.tab = q.tab
          /\ new.dev = q.dev /\ new.typed = q.typed /\ new.lacks = q.lacks
      BY <1>1 DEF RequestRecord, Before
    <2>2. /\ deviceRequest' = [deviceRequest EXCEPT ![r] = new]
          /\ UNCHANGED <<serverVars, deviceNewest, deviceUnseen>>
      BY <1>1, <1>3 DEF WriteName, GotoDevice, tabVars, serverVars
    <2>3. /\ deviceRequest' \in [DeviceRequest -> RequestRecord]
          /\ \A x \in DeviceRequest : DeviceRequestFits(x)'
          /\ WorkFits'
      BY <1>1, <2>1, <2>2, DeviceRequestMoves DEF DeviceRequestFits, Before
    <2>4. TabTypeOK' /\ \A u \in Tab : FieldFits(u)'
      BY <1>1, <2>2 DEF DeviceFits, TabTypeOK, FieldFits, tabVars
    <2> QED
      BY <2>2, <2>3, <2>4, ServerStays DEF DeviceFits
  <1>4. CASE WriteName(r) /\ NameStorable(q.dev, q.name)
    <2>1. /\ alias' = [alias EXCEPT ![q.dev] = q.name] /\ Wrote(r)
          /\ crossed' = crossed \cup ({q.dev} \ records) /\ UNCHANGED <<records, revoked, uploads>>
      BY <1>4 DEF WriteName
    <2>2. /\ alias' \in [Device -> DeviceName] /\ alias'[q.dev] = q.name
          /\ \A d \in Device \ {q.dev} : alias'[d] = alias[d]
      BY <1>1, <1>2, <2>1 DEF ServerTypeOK
    <2>3. ServerTypeOK' /\ HiddenNamesCrossed' /\ IgnoresRevoked
      BY <1>1, <2>1, <2>2 DEF ServerTypeOK, HiddenNamesCrossed, IgnoresRevoked
    <2>4. NamesUnique'
      BY <1>1, <1>4, <2>2 DEF NamesUnique, NameStorable, Taken
    <2> QED
      BY <1>1, <2>1, <2>3, <2>4, WroteFits DEF DeviceFits
  <1>5. CASE WriteStatus(r)
    <2>1. Wrote(r) /\ UNCHANGED <<records, alias, uploads, crossed>> /\ revoked' \subseteq revoked \cup {q.dev}
      BY <1>5 DEF WriteStatus
    <2>2. ServerTypeOK' /\ HiddenNamesCrossed' /\ IgnoresRevoked /\ NamesUnique'
      BY <1>1, <1>2, <2>1 DEF ServerTypeOK, HiddenNamesCrossed, IgnoresRevoked, NamesUnique
    <2> QED
      BY <1>1, <2>1, <2>2, WroteFits DEF DeviceFits
  <1>6. CASE Delete(r)
    <2>1. /\ Wrote(r) /\ UNCHANGED <<revoked, uploads, crossed>> /\ records' = records \ {q.dev}
          /\ alias' = NameGoes(q.dev)
      BY <1>6 DEF Delete
    <2>2. /\ alias' \in [Device -> DeviceName] /\ \A d \in Device \ {q.dev} : alias'[d] = alias[d]
          /\ IF q.dev \in records THEN alias'[q.dev] = NoDevice ELSE alias' = alias
      BY <1>1, <1>2, <2>1 DEF ServerTypeOK, NameGoes, DeviceName
    <2>3. ServerTypeOK' /\ IgnoresRevoked
      BY <1>1, <2>1, <2>2 DEF ServerTypeOK, IgnoresRevoked
    <2>4. HiddenNamesCrossed' /\ NamesUnique'
      BY <1>1, <2>1, <2>2 DEF HiddenNamesCrossed, NamesUnique
    <2> QED
      BY <1>1, <2>1, <2>3, <2>4, WroteFits DEF DeviceFits
  <1> QED
    BY <1>3, <1>4, <1>5, <1>6

\* An answer, and the fetch of the list that follows it.
LEMMA DeviceAnswersFit ==
    ASSUME DeviceFits, NEW r \in DeviceRequest, DeviceAnswered(r)
    PROVE  DeviceFits' /\ IgnoresRevoked
  <1> DEFINE q == deviceRequest[r]
  <1>1. /\ q \in RequestRecord /\ DeviceRequestFits(r) /\ TabTypeOK /\ WorkFits
        /\ deviceRequest \in [DeviceRequest -> RequestRecord] /\ \A x \in DeviceRequest : DeviceRequestFits(x)
        /\ UNCHANGED <<serverVars, deviceShown, field, deviceUnseen>>
        /\ NoRequest \in RequestRecord /\ NoRequest.pc = "idle" /\ NoRequest.typed = TRUE /\ NoRequest.lacks = {}
    BY DEF DeviceFits, DeviceAnswered, NoRequest, RequestRecord, Before, DeviceName
  <1>2. CASE q.pc = "refused"
    <2>1. deviceRequest' = [deviceRequest EXCEPT ![r] = NoRequest] /\ UNCHANGED <<deviceNewest, untold>>
      BY <1>2 DEF DeviceAnswered
    <2>2. /\ deviceRequest' \in [DeviceRequest -> RequestRecord] /\ WorkFits'
          /\ \A x \in DeviceRequest : DeviceRequestFits(x)'
      BY <1>1, <1>2, <2>1, DeviceRequestMoves DEF Before
    <2>3. TabTypeOK' /\ \A u \in Tab : FieldFits(u)'
      BY <1>1, <2>1 DEF DeviceFits, TabTypeOK, FieldFits
    <2> QED
      BY <1>1, <2>2, <2>3, ServerStays DEF DeviceFits
  <1>3. CASE q.pc = "done"
    <2>1. q.tab \in Tab /\ q.dev \in Device /\ q.lacks = {}
      BY <1>1, <1>3 DEF DeviceRequestFits
    <2>2. PICK new \in RequestRecord :
             /\ deviceRequest' = [deviceRequest EXCEPT ![r] = new]
             /\ new.typed = TRUE /\ new.lacks = {}
             /\ \/ /\ new.pc = "fetch" /\ new.tab = q.tab /\ new.dev = q.dev
                   /\ deviceNewest' = [deviceNewest EXCEPT ![q.tab] = r] /\ untold' = untold
                \/ /\ new.pc = "idle"
                   /\ untold' = [untold EXCEPT ![q.tab] = @ \cup {q.dev}] /\ deviceNewest' = deviceNewest
      <3>1. CASE GotoDevice(r, "fetch")
        <4> DEFINE new == [q EXCEPT !.pc = "fetch"]
        <4>1. /\ new \in RequestRecord /\ new.pc = "fetch" /\ new.tab = q.tab /\ new.dev = q.dev
              /\ new.typed = q.typed /\ new.lacks = q.lacks
          BY <1>1 DEF RequestRecord
        <4>2. q.typed = TRUE
          BY <1>1 DEF DeviceRequestFits, RequestRecord
        <4>3. deviceRequest'[r].pc = "fetch"
          BY <1>1, <3>1, <4>1 DEF GotoDevice
        <4>4. deviceNewest' = [deviceNewest EXCEPT ![q.tab] = r] /\ untold' = untold
          BY <1>1, <1>3, <4>3 DEF DeviceAnswered
        <4> QED
          BY <2>1, <3>1, <4>1, <4>2, <4>4 DEF GotoDevice
      <3>2. CASE ~GotoDevice(r, "fetch")
        BY <1>1, <1>3, <3>2 DEF DeviceAnswered
      <3> QED
        BY <3>1, <3>2
    <2>3. /\ deviceRequest' \in [DeviceRequest -> RequestRecord] /\ deviceRequest'[r] = new
          /\ \A x \in DeviceRequest \ {r} : deviceRequest'[x] = deviceRequest[x]
      BY <1>1, <2>2
    <2>4. \A x \in DeviceRequest : DeviceRequestFits(x)'
      BY <1>1, <2>1, <2>2, <2>3 DEF DeviceRequestFits
    <2>5. /\ deviceNewest' \in [Tab -> DeviceRequest \cup {NoDevice}] /\ untold' \in [Tab -> SUBSET Device]
          /\ \A t \in Tab \ {q.tab} : deviceNewest'[t] = deviceNewest[t] /\ untold'[t] = untold[t]
          /\ \/ new.pc = "fetch" /\ new.tab = q.tab /\ deviceNewest'[q.tab] = r /\ untold'[q.tab] = untold[q.tab]
             \/ /\ new.pc = "idle" /\ deviceNewest'[q.tab] = deviceNewest[q.tab]
                /\ untold'[q.tab] = untold[q.tab] \cup {q.dev}
      BY <1>1, <2>1, <2>2 DEF TabTypeOK
    <2>6. TabTypeOK' /\ \A u \in Tab : FieldFits(u)'
      BY <1>1, <2>5 DEF DeviceFits, TabTypeOK, FieldFits
    <2>7. ASSUME NEW t \in Tab, NEW d \in Device, Unanswered(t, d)
          PROVE  Unanswered(t, d)' \/ (t = q.tab /\ (Awaited(t, d)' \/ d \in untold'[t]))
      <3>1. PICK x \in DeviceRequest :
               deviceRequest[x].pc = "done" /\ deviceRequest[x].tab = t /\ deviceRequest[x].dev = d
        BY <2>7 DEF Unanswered
      <3>2. CASE x # r
        BY <2>3, <3>1, <3>2 DEF Unanswered
      <3>3. CASE x = r
        BY <2>3, <2>5, <3>1, <3>3 DEF Awaited
      <3> QED
        BY <3>2, <3>3
    <2>8. ASSUME NEW t \in Tab, NEW d \in Device, Awaited(t, d)
          PROVE  Awaited(t, d)'
      <3>1. CASE t = q.tab /\ new.pc = "fetch"
        BY <2>3, <2>5, <3>1 DEF Awaited
      <3>2. CASE ~(t = q.tab /\ new.pc = "fetch")
        BY <1>3, <2>3, <2>5, <2>8, <3>2 DEF Awaited
      <3> QED
        BY <3>1, <3>2
    <2>9. ASSUME NEW t \in Tab, NEW d \in deviceUnseen'[t] \ untold'[t]
          PROVE  Unanswered(t, d)' \/ Awaited(t, d)'
      <3>1. d \in deviceUnseen[t] \ untold[t] /\ d \in Device
        BY <1>1, <2>5 DEF TabTypeOK
      <3> QED
        BY <1>1, <2>7, <2>8, <3>1 DEF WorkFits
    <2>10. ASSUME NEW t \in Tab, NEW x \in DeviceRequest,
                  deviceNewest'[t] = x, deviceRequest'[x].tab = t, deviceRequest'[x].pc = "read",
                  NEW d \in deviceRequest'[x].lacks
           PROVE  d \in untold'[t] \/ Unanswered(t, d)'
      <3>1. x # r
        BY <2>2, <2>3, <2>10
      <3>2. /\ deviceRequest[x].tab = t /\ deviceRequest[x].pc = "read" /\ deviceNewest[t] = x
            /\ d \in deviceRequest[x].lacks
        BY <2>3, <2>5, <2>10, <3>1
      <3>3. d \in Device
        BY <1>1, <3>2 DEF RequestRecord
      <3>4. d \in untold[t] \/ Unanswered(t, d)
        BY <1>1, <3>2 DEF WorkFits
      <3>5. CASE Unanswered(t, d)
        <4>1. PICK y \in DeviceRequest :
                 deviceRequest[y].pc = "done" /\ deviceRequest[y].tab = t /\ deviceRequest[y].dev = d
          BY <3>5 DEF Unanswered
        <4>2. CASE y # r
          BY <2>3, <4>1, <4>2 DEF Unanswered
        <4>3. CASE y = r
          BY <2>5, <2>10, <3>1, <4>1, <4>3
        <4> QED
          BY <4>2, <4>3
      <3> QED
        BY <2>5, <3>4, <3>5
    <2>11. WorkFits'
      BY <2>9, <2>10 DEF WorkFits
    <2> QED
      BY <1>1, <2>3, <2>4, <2>6, <2>11, ServerStays DEF DeviceFits
  <1> QED
    BY <1>2, <1>3 DEF DeviceAnswered

LEMMA ReadsFit ==
    ASSUME DeviceFits, NEW r \in DeviceRequest, ReadDevices(r)
    PROVE  DeviceFits' /\ IgnoresRevoked
  <1> DEFINE q == deviceRequest[r]
             new == [q EXCEPT !.pc = "read", !.list = Listing]
  <1>1. /\ q \in RequestRecord /\ DeviceRequestFits(r) /\ TabTypeOK /\ WorkFits /\ Listing \in CardList
        /\ deviceRequest \in [DeviceRequest -> RequestRecord] /\ \A x \in DeviceRequest : DeviceRequestFits(x)
        /\ q.pc = "fetch" /\ UNCHANGED <<serverVars, tabVars, deviceUnseen, untold>>
    BY ListingFits DEF DeviceFits, ReadDevices
  <1>2. /\ new \in RequestRecord /\ new.pc = "read" /\ new.tab = q.tab /\ new.dev = q.dev
        /\ new.typed = q.typed /\ new.lacks = q.lacks /\ new.list = Listing
    BY <1>1 DEF RequestRecord
  <1>3. deviceRequest' = [deviceRequest EXCEPT ![r] = new]
    BY <1>1 DEF ReadDevices
  <1>4. /\ deviceRequest' \in [DeviceRequest -> RequestRecord] /\ deviceRequest'[r] = new
        /\ \A x \in DeviceRequest \ {r} : deviceRequest'[x] = deviceRequest[x]
    BY <1>1, <1>2, <1>3
  <1>5. (\A x \in DeviceRequest : DeviceRequestFits(x)') /\ q.lacks = {}
    <2>1. q.lacks = {} /\ q.typed /\ q.tab \in Tab /\ q.dev \in Device
      BY <1>1 DEF DeviceRequestFits
    <2> HIDE DEF new
    <2>2. DeviceRequestFits(r)'
      BY <1>1, <1>2, <1>4, <2>1 DEF DeviceRequestFits
    <2>3. \A x \in DeviceRequest \ {r} : DeviceRequestFits(x)'
      BY <1>1, <1>4 DEF DeviceRequestFits
    <2> QED
      BY <2>1, <2>2, <2>3
  <1>6. TabTypeOK' /\ \A u \in Tab : FieldFits(u)'
    BY <1>1 DEF DeviceFits, TabTypeOK, FieldFits, tabVars
  <1>7. \A t \in Tab, d \in Device : Unanswered(t, d) => Unanswered(t, d)'
    BY <1>1, <1>4 DEF Unanswered
  <1>8. \A t \in Tab, d \in Device : Awaited(t, d) => Awaited(t, d)'
    BY <1>1, <1>2, <1>4, <1>5 DEF Awaited, tabVars
  <1>9. \A t \in Tab : \A d \in deviceUnseen'[t] \ untold'[t] : Unanswered(t, d)' \/ Awaited(t, d)'
    BY <1>1, <1>7, <1>8 DEF WorkFits, TabTypeOK
  <1>10. ASSUME NEW t \in Tab, NEW x \in DeviceRequest,
                deviceNewest'[t] = x, deviceRequest'[x].tab = t, deviceRequest'[x].pc = "read",
                NEW d \in deviceRequest'[x].lacks
         PROVE  d \in untold'[t] \/ Unanswered(t, d)'
    <2>1. x # r
      BY <1>2, <1>4, <1>5
    <2>2. deviceRequest'[x] = deviceRequest[x] /\ d \in Device /\ deviceNewest[t] = x
      BY <1>1, <1>4, <1>10, <2>1 DEF RequestRecord, tabVars
    <2> QED
      BY <1>1, <1>7, <1>10, <2>2 DEF WorkFits
  <1>11. WorkFits'
    BY <1>9, <1>10 DEF WorkFits
  <1> QED
    BY <1>1, <1>4, <1>5, <1>6, <1>11, ServerStays DEF DeviceFits

\* The card is released.
LEMMA ReleasedFits ==
    ASSUME DeviceFits, NEW r \in DeviceRequest, deviceRequest[r].pc \in {"fetch", "read"}
    PROVE  LET t == deviceRequest[r].tab
               f == Released(r)
           IN  /\ t \in Tab /\ f \in NameField
               /\ f.dev # NoDevice => /\ f.dev \in DOMAIN deviceShown[t]
                                      /\ f.typed \/ f.text = deviceShown[t][f.dev].alias
  <1>1. deviceRequest[r].tab \in Tab
    BY DEF DeviceFits, DeviceRequestFits
  <1>2. NoField \in NameField /\ NoField.dev = NoDevice
    BY DEF NoField, NameField, DeviceName
  <1> QED
    BY <1>1, <1>2 DEF DeviceFits, TabTypeOK, FieldFits, Released

LEMMA DeviceOverFits ==
    ASSUME NEW t \in Tab, NEW f \in NameField, NEW list \in CardList,
           f.dev # NoDevice => f.typed \/ f.text = deviceShown[t][f.dev].alias
    PROVE  LET g == Over(t, f, list)
           IN  /\ g \in NameField
               /\ g.dev # NoDevice => g.dev \in DOMAIN list /\ (g.typed \/ g.text = list[g.dev].alias)
  <1>1. CASE f.dev = NoDevice \/ f.dev \notin DOMAIN list
    BY <1>1 DEF Over, NoField, NameField, DeviceName
  <1>2. CASE ~(f.dev = NoDevice \/ f.dev \notin DOMAIN list)
    <2> DEFINE b == f.typed \/ list[f.dev].alias # deviceShown[t][f.dev].alias
               g == [f EXCEPT !.typed = b]
    <2>1. b \in BOOLEAN /\ f.typed \in BOOLEAN
      BY DEF NameField
    <2>2. g \in NameField /\ g.dev = f.dev /\ g.text = f.text /\ g.typed = b
      BY <2>1 DEF NameField
    <2>3. Over(t, f, list) = g
      BY <1>2 DEF Over
    <2>4. b \/ f.text = list[f.dev].alias
      BY <1>2
    <2> HIDE DEF b, g
    <2> QED
      BY <1>2, <2>2, <2>3, <2>4
  <1> QED
    BY <1>1, <1>2

\* A request that ends leaves the others as they are.
LEMMA RequestEnds ==
    ASSUME DeviceFits, NEW r \in DeviceRequest, deviceRequest[r].pc \in {"fetch", "read"},
           deviceRequest' = [deviceRequest EXCEPT ![r] = NoRequest]
    PROVE  /\ deviceRequest' \in [DeviceRequest -> RequestRecord] /\ deviceRequest'[r].pc = "idle"
           /\ \A x \in DeviceRequest \ {r} : deviceRequest'[x] = deviceRequest[x]
           /\ \A x \in DeviceRequest : DeviceRequestFits(x)'
           /\ \A t \in Tab, d \in Device : Unanswered(t, d) => Unanswered(t, d)'
  <1>1. /\ NoRequest \in RequestRecord /\ NoRequest.pc = "idle" /\ NoRequest.typed = TRUE /\ NoRequest.lacks = {}
    BY DEF NoRequest, RequestRecord, Before, DeviceName
  <1>2. /\ deviceRequest' \in [DeviceRequest -> RequestRecord] /\ deviceRequest'[r] = NoRequest
        /\ \A x \in DeviceRequest \ {r} : deviceRequest'[x] = deviceRequest[x]
    BY <1>1 DEF DeviceFits
  <1>3. \A x \in DeviceRequest : DeviceRequestFits(x)'
    BY <1>1, <1>2 DEF DeviceFits, DeviceRequestFits
  <1>4. \A t \in Tab, d \in Device : Unanswered(t, d) => Unanswered(t, d)'
    BY <1>2 DEF Unanswered
  <1> QED
    BY <1>1, <1>2, <1>3, <1>4

LEMMA LossFits ==
    ASSUME DeviceFits, NEW r \in DeviceRequest, LoseList(r)
    PROVE  DeviceFits' /\ IgnoresRevoked
  <1> DEFINE q == deviceRequest[r]
  <1>1. /\ TabTypeOK /\ WorkFits /\ q.pc = "fetch"
        /\ deviceRequest' = [deviceRequest EXCEPT ![r] = NoRequest]
        /\ field' = [field EXCEPT ![q.tab] = Released(r)]
        /\ untold' = [untold EXCEPT ![q.tab] = @ \cup deviceUnseen[q.tab]]
        /\ UNCHANGED <<serverVars, deviceShown, deviceNewest, deviceUnseen>>
    BY DEF DeviceFits, LoseList
  <1>2. /\ deviceRequest' \in [DeviceRequest -> RequestRecord] /\ deviceRequest'[r].pc = "idle"
        /\ \A x \in DeviceRequest \ {r} : deviceRequest'[x] = deviceRequest[x]
        /\ \A x \in DeviceRequest : DeviceRequestFits(x)'
        /\ \A t \in Tab, d \in Device : Unanswered(t, d) => Unanswered(t, d)'
    BY <1>1, RequestEnds
  <1>3. /\ q.tab \in Tab /\ Released(r) \in NameField
        /\ field' \in [Tab -> NameField] /\ field'[q.tab] = Released(r)
        /\ \A t \in Tab \ {q.tab} : field'[t] = field[t]
    BY <1>1, ReleasedFits DEF TabTypeOK
  <1>4. /\ untold' \in [Tab -> SUBSET Device] /\ untold'[q.tab] = untold[q.tab] \cup deviceUnseen[q.tab]
        /\ \A t \in Tab \ {q.tab} : untold'[t] = untold[t]
    BY <1>1, <1>3 DEF TabTypeOK
  <1>5. TabTypeOK' /\ \A t \in Tab : FieldFits(t)'
    <2>1. ASSUME NEW t \in Tab PROVE FieldFits(t)'
      BY <1>1, <1>3, ReleasedFits DEF DeviceFits, FieldFits
    <2> QED
      BY <1>1, <1>3, <1>4, <2>1 DEF TabTypeOK
  <1>6. ASSUME NEW t \in Tab, NEW d \in deviceUnseen'[t] \ untold'[t]
        PROVE  Unanswered(t, d)' \/ Awaited(t, d)'
    <2>1. t # q.tab /\ d \in deviceUnseen[t] \ untold[t] /\ d \in Device
      BY <1>1, <1>4, <1>6 DEF TabTypeOK
    <2>2. Awaited(t, d) => Awaited(t, d)'
      BY <1>1, <1>2, <2>1 DEF Awaited
    <2> QED
      BY <1>1, <1>2, <2>1, <2>2 DEF WorkFits
  <1>7. ASSUME NEW t \in Tab, NEW x \in DeviceRequest,
               deviceNewest'[t] = x, deviceRequest'[x].tab = t, deviceRequest'[x].pc = "read",
               NEW d \in deviceRequest'[x].lacks
        PROVE  d \in untold'[t] \/ Unanswered(t, d)'
    <2>1. x # r /\ deviceRequest'[x] = deviceRequest[x] /\ deviceNewest[t] = x
      BY <1>1, <1>2, <1>7
    <2>2. d \in Device
      BY <2>1 DEF DeviceFits, RequestRecord
    <2>3. untold[t] \subseteq untold'[t]
      BY <1>4
    <2> QED
      BY <1>1, <1>2, <1>7, <2>1, <2>2, <2>3 DEF WorkFits
  <1>8. WorkFits'
    BY <1>6, <1>7 DEF WorkFits
  <1> QED
    BY <1>1, <1>2, <1>5, <1>8, ServerStays DEF DeviceFits

\* A list replaces the one shown.
LEMMA ListShown ==
    ASSUME DeviceFits, NEW t \in Tab, NEW list \in CardList, NEW f \in NameField,
           f.dev # NoDevice => f.typed \/ f.text = deviceShown[t][f.dev].alias,
           deviceShown' = [deviceShown EXCEPT ![t] = list], field' = [field EXCEPT ![t] = Over(t, f, list)]
    PROVE  /\ deviceShown' \in [Tab -> CardList] /\ field' \in [Tab -> NameField]
           /\ \A u \in Tab : FieldFits(u)'
  <1> DEFINE g == Over(t, f, list)
  <1>1. /\ g \in NameField
        /\ g.dev # NoDevice => g.dev \in DOMAIN list /\ (g.typed \/ g.text = list[g.dev].alias)
    BY DeviceOverFits
  <1> HIDE DEF g
  <1>2. /\ deviceShown' \in [Tab -> CardList] /\ field' \in [Tab -> NameField]
        /\ deviceShown'[t] = list /\ field'[t] = g
        /\ \A u \in Tab \ {t} : deviceShown'[u] = deviceShown[u] /\ field'[u] = field[u]
    BY <1>1 DEF g, DeviceFits, TabTypeOK
  <1> QED
    BY <1>1, <1>2 DEF DeviceFits, FieldFits

LEMMA ArrivalFits ==
    ASSUME DeviceFits, NEW r \in DeviceRequest, Arrive(r)
    PROVE  DeviceFits' /\ IgnoresRevoked
  <1> DEFINE q == deviceRequest[r]
             u == q.tab
  <1>1. /\ TabTypeOK /\ WorkFits /\ q.pc = "read" /\ q \in RequestRecord /\ DeviceRequestFits(r)
        /\ deviceRequest' = [deviceRequest EXCEPT ![r] = NoRequest]
        /\ UNCHANGED <<serverVars, deviceNewest>>
    BY DEF DeviceFits, Arrive
  <1>2. /\ deviceRequest' \in [DeviceRequest -> RequestRecord] /\ deviceRequest'[r].pc = "idle"
        /\ \A x \in DeviceRequest \ {r} : deviceRequest'[x] = deviceRequest[x]
        /\ \A x \in DeviceRequest : DeviceRequestFits(x)'
        /\ \A t \in Tab, d \in Device : Unanswered(t, d) => Unanswered(t, d)'
    BY <1>1, RequestEnds
  <1>3. /\ u \in Tab /\ q.list \in CardList /\ q.lacks \in SUBSET Device
    BY <1>1 DEF DeviceRequestFits, RequestRecord
  <1>4. \A t \in Tab, d \in Device :
           Awaited(t, d) /\ ~(t = u /\ deviceNewest[u] = r) => Awaited(t, d)'
    BY <1>1, <1>2 DEF Awaited
  <1>5. CASE Keeps(r)
    <2>1. /\ deviceNewest[u] = r
          /\ deviceShown' = [deviceShown EXCEPT ![u] = q.list]
          /\ field' = [field EXCEPT ![u] = Over(u, Released(r), q.list)]
          /\ deviceUnseen' = [deviceUnseen EXCEPT ![u] = q.lacks]
          /\ untold' = [untold EXCEPT ![u] = @ \cap q.lacks]
      BY <1>5 DEF Arrive, Keeps
    <2>2. /\ deviceShown' \in [Tab -> CardList] /\ field' \in [Tab -> NameField]
          /\ \A t \in Tab : FieldFits(t)'
      BY <1>1, <1>3, <2>1, ReleasedFits, ListShown
    <2>3. /\ deviceUnseen' \in [Tab -> SUBSET Device] /\ untold' \in [Tab -> SUBSET Device]
          /\ deviceUnseen'[u] = q.lacks /\ untold'[u] = untold[u] \cap q.lacks
          /\ \A t \in Tab \ {u} : deviceUnseen'[t] = deviceUnseen[t] /\ untold'[t] = untold[t]
      BY <1>1, <1>3, <2>1 DEF TabTypeOK
    <2>4. ASSUME NEW t \in Tab, NEW d \in deviceUnseen'[t] \ untold'[t]
          PROVE  Unanswered(t, d)' \/ Awaited(t, d)'
      <3>1. d \in Device
        BY <2>3 DEF TabTypeOK
      <3>2. CASE t = u
        <4>1. d \in q.lacks /\ d \notin untold[t]
          BY <2>3, <2>4, <3>2
        <4>2. Unanswered(t, d)
          BY <1>1, <1>3, <2>1, <3>2, <4>1 DEF WorkFits
        <4> QED
          BY <1>2, <3>1, <4>2
      <3>3. CASE t # u
        BY <1>1, <1>2, <1>4, <2>3, <2>4, <3>1, <3>3 DEF WorkFits
      <3> QED
        BY <3>2, <3>3
    <2>5. ASSUME NEW t \in Tab, NEW x \in DeviceRequest,
                 deviceNewest'[t] = x, deviceRequest'[x].tab = t, deviceRequest'[x].pc = "read",
                 NEW d \in deviceRequest'[x].lacks
          PROVE  d \in untold'[t] \/ Unanswered(t, d)'
      <3>1. x # r /\ deviceRequest'[x] = deviceRequest[x] /\ deviceNewest[t] = x
        BY <1>1, <1>2, <2>5
      <3>2. t # u /\ d \in Device
        BY <2>1, <3>1 DEF DeviceFits, RequestRecord
      <3> QED
        BY <1>1, <1>2, <2>3, <2>5, <3>1, <3>2 DEF WorkFits
    <2>6. WorkFits'
      BY <2>4, <2>5 DEF WorkFits
    <2>7. TabTypeOK'
      BY <1>1, <2>2, <2>3 DEF TabTypeOK
    <2> QED
      BY <1>1, <1>2, <2>2, <2>6, <2>7, ServerStays DEF DeviceFits
  <1>6. CASE ~Keeps(r)
    <2>1. /\ deviceNewest[u] # r /\ field' = [field EXCEPT ![u] = Released(r)]
          /\ UNCHANGED <<deviceShown, deviceUnseen, untold>>
      BY <1>6 DEF Arrive, Keeps
    <2>2. /\ Released(r) \in NameField /\ field' \in [Tab -> NameField] /\ field'[u] = Released(r)
          /\ \A t \in Tab \ {u} : field'[t] = field[t]
      BY <1>1, <1>3, <2>1, ReleasedFits DEF TabTypeOK
    <2>3. TabTypeOK' /\ \A t \in Tab : FieldFits(t)'
      <3>1. ASSUME NEW t \in Tab PROVE FieldFits(t)'
        BY <1>1, <2>1, <2>2, ReleasedFits DEF DeviceFits, FieldFits
      <3> QED
        BY <1>1, <2>1, <2>2, <3>1 DEF TabTypeOK
    <2>4. \A t \in Tab : \A d \in deviceUnseen'[t] \ untold'[t] : Unanswered(t, d)' \/ Awaited(t, d)'
      BY <1>1, <1>2, <1>4, <2>1 DEF WorkFits, TabTypeOK
    <2>5. ASSUME NEW t \in Tab, NEW x \in DeviceRequest,
                 deviceNewest'[t] = x, deviceRequest'[x].tab = t, deviceRequest'[x].pc = "read",
                 NEW d \in deviceRequest'[x].lacks
          PROVE  d \in untold'[t] \/ Unanswered(t, d)'
      <3>1. x # r /\ deviceRequest'[x] = deviceRequest[x] /\ deviceNewest[t] = x
        BY <1>1, <1>2, <2>5
      <3>2. d \in Device
        BY <3>1 DEF DeviceFits, RequestRecord
      <3> QED
        BY <1>1, <1>2, <2>1, <2>5, <3>1, <3>2 DEF WorkFits
    <2>6. WorkFits'
      BY <2>4, <2>5 DEF WorkFits
    <2> QED
      BY <1>1, <1>2, <2>3, <2>6, ServerStays DEF DeviceFits
  <1> QED
    BY <1>5, <1>6

LEMMA DeviceFocusFits ==
    ASSUME DeviceFits, NEW u \in Tab, FocusDevices(u)
    PROVE  DeviceFits' /\ IgnoresRevoked
  <1>1. /\ TabTypeOK /\ WorkFits /\ Listing \in CardList /\ field[u] \in NameField /\ FieldFits(u)
        /\ \A x \in DeviceRequest : deviceRequest[x].tab = u => deviceRequest[x].pc \notin {"fetch", "read"}
        /\ UNCHANGED <<serverVars, deviceNewest, deviceRequest>>
        /\ deviceShown' = [deviceShown EXCEPT ![u] = Listing]
        /\ field' = [field EXCEPT ![u] = Over(u, field[u], Listing)]
        /\ deviceUnseen' = [deviceUnseen EXCEPT ![u] = {}] /\ untold' = [untold EXCEPT ![u] = {}]
    BY ListingFits DEF DeviceFits, TabTypeOK, FocusDevices, Fetching
  <1>2. /\ deviceShown' \in [Tab -> CardList] /\ field' \in [Tab -> NameField]
        /\ \A t \in Tab : FieldFits(t)'
    BY <1>1, ListShown DEF FieldFits
  <1>3. /\ deviceUnseen' \in [Tab -> SUBSET Device] /\ untold' \in [Tab -> SUBSET Device]
        /\ deviceUnseen'[u] = {}
        /\ \A t \in Tab \ {u} : deviceUnseen'[t] = deviceUnseen[t] /\ untold'[t] = untold[t]
    BY <1>1 DEF TabTypeOK
  <1>4. TabTypeOK'
    BY <1>1, <1>2, <1>3 DEF TabTypeOK
  <1>5. \A t \in Tab, d \in Device : (Unanswered(t, d)' <=> Unanswered(t, d)) /\ (Awaited(t, d)' <=> Awaited(t, d))
    BY <1>1 DEF Unanswered, Awaited
  <1>6. \A t \in Tab : \A d \in deviceUnseen'[t] \ untold'[t] : Unanswered(t, d)' \/ Awaited(t, d)'
    BY <1>1, <1>3, <1>5 DEF WorkFits, TabTypeOK
  <1>7. ASSUME NEW t \in Tab, NEW x \in DeviceRequest,
               deviceNewest'[t] = x, deviceRequest'[x].tab = t, deviceRequest'[x].pc = "read",
               NEW d \in deviceRequest'[x].lacks
        PROVE  d \in untold'[t] \/ Unanswered(t, d)'
    <2>1. t # u /\ d \in Device
      BY <1>1, <1>7 DEF DeviceFits, RequestRecord
    <2> QED
      BY <1>1, <1>3, <1>5, <1>7, <2>1 DEF WorkFits
  <1>8. WorkFits'
    BY <1>6, <1>7 DEF WorkFits
  <1> QED
    BY <1>1, <1>2, <1>4, <1>8, ServerStays DEF DeviceFits, DeviceRequestFits

LEMMA DeviceStepFits == ASSUME DeviceFits, [DeviceNext]_deviceVars PROVE DeviceFits' /\ IgnoresRevoked
  <1>1. CASE UNCHANGED deviceVars
    BY <1>1, ServerStays DEF deviceVars, serverVars, tabVars, DeviceFits, TabTypeOK, FieldFits, DeviceRequestFits, WorkFits,
                             Unanswered, Awaited
  <1>2. ASSUME NEW d \in Device, NEW tagged \in BOOLEAN, UploadFrom(d, tagged)
        PROVE  DeviceFits' /\ IgnoresRevoked
    BY <1>2, UploadFits
  <1>3. ASSUME NEW t \in Tab, NEW d \in Device, ClickStatus(t, d) \/ ClickDelete(t, d)
        PROVE  DeviceFits' /\ IgnoresRevoked
    BY <1>3, DeviceClicksFit
  <1>4. ASSUME NEW t \in Tab,
               \/ Escape(t) \/ SaveName(t)
               \/ (\E d \in Device : StartEdit(t, d)) \/ \E name \in Name : TypeName(t, name)
        PROVE  DeviceFits' /\ IgnoresRevoked
    BY <1>4, EditsFit
  <1>5. ASSUME NEW t \in Tab, FocusDevices(t) PROVE DeviceFits' /\ IgnoresRevoked
    BY <1>5, DeviceFocusFits
  <1>6. ASSUME NEW r \in DeviceRequest,
               \/ LookDevice(r) \/ WriteName(r) \/ WriteStatus(r) \/ Delete(r)
               \/ DeviceAnswered(r) \/ ReadDevices(r) \/ LoseList(r) \/ Arrive(r)
        PROVE  DeviceFits' /\ IgnoresRevoked
    BY <1>6, DeviceLooksFit, DeviceWritesFit, DeviceAnswersFit, ReadsFit, LossFits, ArrivalFits
  <1> QED
    BY <1>1, <1>2, <1>3, <1>4, <1>5, <1>6 DEF DeviceNext

\* At rest nothing is left unanswered or awaited.
LEMMA DevicePageFollows == DeviceFits => OwnWorkShown /\ OnlyTypedNames
  <1> SUFFICES ASSUME DeviceFits PROVE OwnWorkShown /\ OnlyTypedNames
    OBVIOUS
  <1>1. OnlyTypedNames
    BY DEF DeviceFits, DeviceRequestFits, OnlyTypedNames
  <1>2. ASSUME NEW t \in Tab, \A r \in DeviceRequest : deviceRequest[r].tab # t,
               NEW d \in deviceUnseen[t], d \notin untold[t]
        PROVE  FALSE
    BY <1>2 DEF DeviceFits, WorkFits, Unanswered, Awaited
  <1> QED
    BY <1>1, <1>2 DEF OwnWorkShown

-----------------------------------------------------------------------------
(* The page of a team.                                                     *)

TeamRecord == [mates : SUBSET Mate, auto : BOOLEAN, registered : BOOLEAN]
OverrideRecord == [registered : BOOLEAN, delta : Int]

TeamTypeOK ==
    /\ exists \in BOOLEAN /\ mates \in SUBSET Mate /\ auto \in BOOLEAN /\ registered \in BOOLEAN
    /\ team \in TeamRecord /\ override \in OverrideRecord
    /\ getTeam.pc \in {"idle", "asked", "read"} /\ (getTeam.pc = "read" => getTeam.team \in TeamRecord)
    /\ enabled \in BOOLEAN /\ hides \in BOOLEAN /\ prev \in BOOLEAN /\ teamForeign \in BOOLEAN /\ unread \in BOOLEAN
    /\ toggling \in {"no", "sent", "done"}
    /\ entering \in {"no", "register", "withdraw", "registered", "withdrawn"}

\* The switch says what was last asked for, and the section follows the
\* switch or a list.
SwitchFits ==
    /\ ~teamForeign => enabled = IF toggling = "sent" THEN ~auto ELSE auto
    /\ prev = team.auto /\ (team.auto = enabled => hides = enabled)

\* The row: an override once one was laid, else what every list says.
RowFits ==
    ~teamForeign =>
        /\ entering = "registered" => registered
        /\ entering = "withdrawn" => ~registered
        /\ entering \in {"no", "register", "withdraw"} =>
             IF override # NoOverride THEN override.registered = registered
             ELSE /\ team.registered = registered
                  /\ getTeam.pc = "read" => getTeam.team.registered = registered

\* A removal is followed by a reading; the dialog's word goes by its list.
UnreadFits == unread => getTeam.pc = "asked"
WordFits == leaving = NotLeaving \/ leaving.told = "delete" \/ leaving.shown # {}

TeamFits == TeamTypeOK /\ SwitchFits /\ RowFits /\ UnreadFits /\ WordFits

LEMMA TeamStarts == ASSUME TeamInit PROVE TeamFits
  <1> USE DEF TeamInit, TeamNow, NoFetch, NoOverride
  <1>1. team \in TeamRecord /\ override \in OverrideRecord /\ getTeam.pc = "idle"
    BY DEF TeamRecord, OverrideRecord
  <1>2. auto \in BOOLEAN /\ registered \in BOOLEAN /\ exists \in BOOLEAN /\ teamForeign \in BOOLEAN /\ unread \in BOOLEAN
    OBVIOUS
  <1>3. TeamTypeOK
    BY <1>1, <1>2 DEF TeamTypeOK
  <1>4. SwitchFits /\ RowFits /\ UnreadFits /\ WordFits
    BY DEF SwitchFits, RowFits, UnreadFits, WordFits
  <1> QED
    BY <1>3, <1>4 DEF TeamFits

\* At rest the page shows the team as it is, and nobody is surprised.
LEMMA TeamPageFollows ==
    ASSUME TeamFits
    PROVE  SwitchIsTrue /\ RegistrationIsTrue /\ RemovalIsShown
  <1>1. SwitchIsTrue
    BY DEF TeamFits, TeamTypeOK, SwitchFits, SwitchIsTrue, TeamRecord
  <1>2. RegistrationIsTrue
    BY DEF TeamFits, RowFits, RegistrationIsTrue, ShownRegistered
  <1>3. RemovalIsShown
    BY DEF TeamFits, UnreadFits, RemovalIsShown, NoFetch
  <1> QED
    BY <1>1, <1>2, <1>3

LEMMA FetchesFit ==
    ASSUME TeamFits, FocusTeam \/ ReadTeam \/ ShowTeam \/ ReadTeams \/ ShowTeams
    PROVE  TeamFits'
  <1> USE DEF TeamFits, TeamTypeOK, teamVars, switchVars, WordFits
  <1>1. CASE FocusTeam
    BY <1>1 DEF FocusTeam, SwitchFits, RowFits, UnreadFits
  <1>2. CASE ReadTeam
    <2>1. getTeam'.pc = "read" /\ getTeam'.team = TeamNow /\ TeamNow \in TeamRecord /\ TeamNow.registered = registered
      BY <1>2 DEF ReadTeam, TeamNow, TeamRecord
    <2>2. RowFits'
      BY <1>2, <2>1 DEF ReadTeam, RowFits
    <2>3. SwitchFits'
      BY <1>2 DEF ReadTeam, SwitchFits
    <2>4. UnreadFits'
      BY <1>2 DEF ReadTeam, UnreadFits
    <2>5. TeamTypeOK'
      BY <1>2, <2>1 DEF ReadTeam
    <2>6. WordFits'
      BY <1>2 DEF ReadTeam
    <2> HIDE DEF TeamTypeOK, WordFits
    <2> QED
      BY <2>2, <2>3, <2>4, <2>5, <2>6
  <1>3. CASE ShowTeam
    <2>1. getTeam'.pc = "idle" /\ team' = getTeam.team /\ team' \in TeamRecord /\ prev' = team'.auto
      BY <1>3 DEF ShowTeam, NoFetch
    <2>2. SwitchFits' /\ hides' \in BOOLEAN
      BY <1>3, <2>1 DEF ShowTeam, SwitchFits, TeamRecord
    <2>3. RowFits' /\ UnreadFits'
      BY <1>3, <2>1 DEF ShowTeam, RowFits, UnreadFits
    <2> QED
      BY <1>3, <2>1, <2>2, <2>3 DEF ShowTeam, TeamRecord
  <1>4. CASE ReadTeams
    BY <1>4 DEF ReadTeams, SwitchFits, RowFits, UnreadFits
  <1>5. CASE ShowTeams
    BY <1>5 DEF ShowTeams, OverrideKept, SwitchFits, RowFits, UnreadFits
  <1> QED
    BY <1>1, <1>2, <1>3, <1>4, <1>5

LEMMA SwitchMovesFit ==
    ASSUME TeamFits, Flip \/ SetAuto \/ Flipped
    PROVE  TeamFits'
  <1> USE DEF TeamFits, TeamTypeOK, teamVars, listVars
  <1>1. RowFits' /\ UnreadFits' /\ WordFits'
    BY DEF Flip, SetAuto, Flipped, RowFits, UnreadFits, WordFits
  <1>2. SwitchFits'
    <2>1. CASE Flip
      BY <2>1, Zenon DEF Flip, SwitchFits
    <2>2. CASE SetAuto /\ auto' = enabled
      BY <2>2 DEF SetAuto, SwitchFits
    <2>3. CASE SetAuto /\ auto' = auto
      BY <2>3 DEF SetAuto, SwitchFits, TakenBack
    <2>4. CASE Flipped
      BY <2>4 DEF Flipped, SwitchFits
    <2> QED
      BY <2>1, <2>2, <2>3, <2>4 DEF SetAuto
  <1>3. TeamTypeOK'
    <2>1. enabled' \in BOOLEAN /\ hides' \in BOOLEAN /\ auto' \in BOOLEAN
      BY DEF Flip, SetAuto, Flipped, TakenBack
    <2>2. teamForeign' \in BOOLEAN /\ toggling' \in {"no", "sent", "done"}
      BY DEF Flip, SetAuto, Flipped
    <2> QED
      BY <2>1, <2>2 DEF Flip, SetAuto, Flipped
  <1> QED
    BY <1>1, <1>2, <1>3

LEMMA RowMovesFit ==
    ASSUME TeamFits, Enter \/ Entered \/ Laid
    PROVE  TeamFits'
  <1> USE DEF TeamFits, TeamTypeOK, teamVars, listVars, switchVars
  <1>1. SwitchFits' /\ UnreadFits' /\ WordFits'
    BY DEF Enter, Entered, Laid, SwitchFits, UnreadFits, WordFits
  <1>2. CASE Enter
    BY <1>1, <1>2 DEF Enter, RowFits
  <1>3. CASE Entered
    <2>1. CASE registered = (entering = "withdraw")
      BY <1>1, <1>3, <2>1 DEF Entered, RowFits
    <2>2. CASE registered # (entering = "withdraw")
      BY <1>1, <1>3, <2>2 DEF Entered, RowFits
    <2> QED
      BY <2>1, <2>2
  <1>4. CASE Laid
    <2>1. CASE Fails /\ teamForeign' = TRUE /\ UNCHANGED override
      BY <1>1, <1>4, <2>1 DEF Laid, RowFits
    <2>2. CASE entering = "registered" /\ override' = [registered |-> TRUE, delta |-> 1] /\ UNCHANGED teamForeign
      <3>1. override' \in OverrideRecord /\ override'.registered = TRUE /\ override' # NoOverride
        BY <2>2 DEF OverrideRecord, NoOverride
      <3>2. entering' = "no" /\ registered' = registered /\ (~teamForeign => registered = TRUE)
        BY <1>4, <2>2 DEF Laid, RowFits
      <3>3. RowFits'
        BY <2>2, <3>1, <3>2 DEF RowFits
      <3> QED
        BY <1>1, <1>4, <2>2, <3>1, <3>3 DEF Laid
    <2>3. CASE entering = "withdrawn" /\ override' = [registered |-> FALSE, delta |-> -1] /\ UNCHANGED teamForeign
      <3>1. override' \in OverrideRecord /\ override'.registered = FALSE /\ override' # NoOverride
        BY <2>3 DEF OverrideRecord, NoOverride
      <3>2. entering' = "no" /\ registered' = registered /\ (~teamForeign => registered = FALSE)
        BY <1>4, <2>3 DEF Laid, RowFits
      <3>3. RowFits'
        BY <2>3, <3>1, <3>2 DEF RowFits
      <3> QED
        BY <1>1, <1>4, <2>3, <3>1, <3>3 DEF Laid
    <2> QED
      BY <1>4, <2>1, <2>2, <2>3 DEF Laid
  <1> QED
    BY <1>2, <1>3, <1>4

LEMMA MatesFit ==
    ASSUME TeamFits, (\E m \in Mate : Kick(m) \/ Kicked(m)) \/ AskToLeave \/ Leave \/ Meanwhile
    PROVE  TeamFits'
  <1> USE DEF TeamFits, TeamTypeOK, teamVars, listVars, switchVars
  <1>1. ASSUME NEW m \in Mate, Kick(m) PROVE TeamFits'
    BY <1>1 DEF Kick, SwitchFits, RowFits, UnreadFits, WordFits
  <1>2. ASSUME NEW m \in Mate, Kicked(m) PROVE TeamFits'
    <2>1. getTeam' = [pc |-> "asked"] \/ (getTeam' = getTeam /\ unread' = unread)
      BY <1>2 DEF Kicked, Refetch
    <2>2. unread' \in BOOLEAN /\ mates' \in SUBSET Mate
      BY <1>2 DEF Kicked
    <2>3. RowFits' /\ UnreadFits'
      BY <1>2, <2>1 DEF Kicked, RowFits, UnreadFits
    <2>4. SwitchFits' /\ WordFits'
      BY <1>2 DEF Kicked, SwitchFits, WordFits
    <2> QED
      BY <1>2, <2>1, <2>2, <2>3, <2>4 DEF Kicked
  <1>3. CASE AskToLeave
    BY <1>3 DEF AskToLeave, Told, SwitchFits, RowFits, UnreadFits, WordFits
  <1>4. CASE Leave
    BY <1>4 DEF Leave, SwitchFits, RowFits, UnreadFits, WordFits
  <1>5. CASE Meanwhile
    <2>1. mates' \in SUBSET Mate /\ auto' \in BOOLEAN /\ registered' \in BOOLEAN /\ teamForeign' \in BOOLEAN
      BY <1>5 DEF Meanwhile
    <2>2. teamForeign' = TRUE \/ (auto' = auto /\ registered' = registered /\ teamForeign' = teamForeign)
      BY <1>5 DEF Meanwhile
    <2>3. SwitchFits' /\ RowFits'
      BY <1>5, <2>2 DEF Meanwhile, SwitchFits, RowFits
    <2> QED
      BY <1>5, <2>1, <2>3 DEF Meanwhile, UnreadFits, WordFits
  <1> QED
    BY <1>1, <1>2, <1>3, <1>4, <1>5

LEMMA TeamStepFits == ASSUME TeamFits, [TeamNext]_teamPageVars PROVE TeamFits' /\ ToldSo
  <1>1. CASE UNCHANGED teamPageVars
    BY <1>1 DEF teamPageVars, teamVars, listVars, switchVars, TeamFits, TeamTypeOK, SwitchFits, RowFits, UnreadFits,
       WordFits, ToldSo
  <1>2. CASE TeamNext
    <2>1. TeamFits'
      BY <1>2, FetchesFit, SwitchMovesFit, RowMovesFit, MatesFit DEF TeamNext
    <2>2. CASE Leave
      <3>1. (~exists' => mates = {}) /\ (leaving.told = "delete" \/ leaving.shown # {})
        BY <2>2 DEF TeamFits, WordFits, Leave
      <3> QED
        BY <2>1, <3>1 DEF ToldSo
    <2>3. CASE ~Leave
      <3>1. exists => exists'
        BY <1>2, <2>3 DEF TeamNext, teamVars, FocusTeam, ReadTeam, ShowTeam, ReadTeams, ShowTeams, Flip, SetAuto,
         Flipped, Enter, Entered, Laid, Kick, Kicked, AskToLeave, Meanwhile
      <3> QED
        BY <2>1, <3>1 DEF ToldSo
    <2> QED
      BY <2>1, <2>2, <2>3
  <1> QED
    BY <1>1, <1>2

-----------------------------------------------------------------------------
(* The cache console.                                                      *)

ReadingRecord == [pc : {"idle", "listing"}, cursor : Nat, found : SUBSET CacheKey]
ClearingRecord == [pc : {"idle", "asked", "list", "page", "refresh"}, cursor : Nat, page : SUBSET CacheKey,
                   complete : BOOLEAN, deleted : Nat]

ConsoleTypeOK ==
    /\ kv \subseteq CacheKey /\ reading \in ReadingRecord /\ clearing \in ClearingRecord
    /\ shownKeys \in [keys : SUBSET CacheKey, truncated : BOOLEAN]
    /\ cacheMessage \in {"none", "cleared", "cleared, more remain"} /\ cacheSwrError \in BOOLEAN

\* What this page deleted is not in the cache, nor in a list read since, while
\* no clearing deletes more.
GoneFits ==
    /\ goneKeys \cap kv = {}
    /\ clearing.pc \in {"idle", "asked", "refresh"} =>
         /\ reading.pc = "listing" => reading.found \cap goneKeys = {}
         /\ reading.pc = "idle" /\ ~cacheSwrError => shownKeys.keys \cap goneKeys = {}

\* The reading has found what was there all the time, as far as it has come.
ReadingFits ==
    /\ overlooked = {}
    /\ reading.pc = "listing" =>
         /\ stayed \subseteq kv
         /\ \A k \in reading.found : k <= reading.cursor
         /\ \A k \in stayed : k <= reading.cursor => k \in reading.found

\* The clearing has left nothing behind it but what was put there since.
ClearingFits ==
    /\ clearing.pc # "idle" => cacheMessage = "none"
    /\ cacheMessage = "cleared" => kv \subseteq since
    /\ clearing.pc \in {"asked", "list"} => \A k \in kv \ since : k > clearing.cursor
    /\ clearing.pc \in {"page", "refresh"} =>
         \A k \in kv \ since : k \in clearing.page \/ (~clearing.complete /\ k > clearing.cursor)

ConsoleFits == ConsoleTypeOK /\ GoneFits /\ ReadingFits /\ ClearingFits

LEMMA KeysAreNumbers == \A k \in CacheKey : k \in Nat /\ k > 0 /\ k <= KeyCount
  BY ConsoleAssumption DEF CacheKey

LEMMA KeysAreFinite == ASSUME NEW S \in SUBSET CacheKey PROVE IsFiniteSet(S) /\ Cardinality(S) \in Nat
  <1>1. IsFiniteSet(CacheKey)
    BY ConsoleAssumption, FS_Interval DEF CacheKey
  <1> QED
    BY <1>1, FS_Subset, FS_CardinalityType

\* A page is the next stretch of the keys.
LEMMA PageIs ==
    ASSUME kv \subseteq CacheKey, NEW cursor \in Nat, NEW page \in Pages(cursor)
    PROVE  /\ page \subseteq Beyond(cursor) /\ page \subseteq CacheKey /\ LastKey(page) \in Nat
           /\ \A k \in page : k <= LastKey(page)
           /\ \A k \in Beyond(cursor) : k \in page \/ k > LastKey(page)
           /\ page = {} => Beyond(cursor) = {}
  <1>1. PICK n \in 1..PageSize : page = Foremost(Beyond(cursor), n)
    BY DEF Pages
  <1>2. Beyond(cursor) \subseteq CacheKey /\ CacheKey \subseteq Nat /\ n \in Int
    <2>1. Beyond(cursor) \subseteq CacheKey
      BY DEF Beyond
    <2>2. CacheKey \subseteq Nat
      BY KeysAreNumbers
    <2> QED
      BY <2>1, <2>2, ConsoleAssumption
  <1>3. page \subseteq Beyond(cursor)
    BY <1>1 DEF Foremost
  <1>4. ASSUME Beyond(cursor) # {} PROVE page # {}
    <2> DEFINE first == Min(Beyond(cursor))
    <2>1. first \in Beyond(cursor) /\ \A k \in Beyond(cursor) : first <= k
      BY <1>2, <1>4, LeastIs
    <2>2. {j \in Beyond(cursor) : j <= first} = {first}
      <3>1. \A j \in Beyond(cursor) : j \in Nat
        BY <1>2
      <3> HIDE DEF first
      <3>2. \A j \in Beyond(cursor) : j <= first <=> j = first
        BY <2>1, <3>1
      <3> QED
        BY <2>1, <3>2
    <2>3. Cardinality({first}) = 1
      BY FS_Singleton
    <2>4. Cardinality({j \in Beyond(cursor) : j <= first}) <= n
      <3> HIDE DEF first
      <3> QED
        BY <2>2, <2>3, ConsoleAssumption
    <2> QED
      BY <1>1, <2>1, <2>4 DEF Foremost
  <1>5. CASE page = {}
    <2>1. LastKey(page) = 0
      BY <1>5 DEF LastKey
    <2>2. \A k \in Beyond(cursor) : k > 0
      BY <1>2, KeysAreNumbers
    <2>3. page \subseteq CacheKey
      BY <1>5
    <2> QED
      BY <1>3, <1>5, <1>4, <2>1, <2>2, <2>3
  <1>6. CASE page # {}
    <2>1. \A k \in page : k <= KeyCount
      BY <1>2, <1>3, ConsoleAssumption DEF CacheKey
    <2>2. LastKey(page) = Max(page) /\ Max(page) \in page /\ \A k \in page : k <= Max(page)
      BY <1>2, <1>3, <1>6, <2>1, GreatestIs, ConsoleAssumption DEF LastKey
    <2>3. ASSUME NEW k \in Beyond(cursor), k \notin page, k <= Max(page) PROVE FALSE
      <3> DEFINE upTo(m) == {j \in Beyond(cursor) : j <= m}
      <3>1. Cardinality(upTo(Max(page))) <= n
        BY <1>1, <2>2 DEF Foremost
      <3>2. upTo(k) \subseteq upTo(Max(page)) /\ upTo(Max(page)) \subseteq CacheKey
        <4>1. Max(page) \in Nat /\ k \in Nat /\ k <= Max(page)
          BY <1>2, <1>3, <2>2, <2>3
        <4>2. ASSUME NEW j \in Beyond(cursor), j <= k PROVE j <= Max(page)
          BY <1>2, <4>1, <4>2
        <4>3. upTo(Max(page)) \subseteq CacheKey
          BY <1>2
        <4> QED
          BY <4>2, <4>3
      <3>3. /\ Cardinality(upTo(k)) <= Cardinality(upTo(Max(page)))
            /\ Cardinality(upTo(k)) \in Nat /\ Cardinality(upTo(Max(page))) \in Nat
        BY <3>2, KeysAreFinite, FS_Subset
      <3>4. ~(Cardinality(upTo(k)) <= n)
        BY <1>1, <2>3 DEF Foremost
      <3> HIDE DEF upTo
      <3> QED
        BY <1>2, <3>1, <3>3, <3>4
    <2>4. LastKey(page) \in Nat /\ page \subseteq CacheKey
      BY <1>2, <1>3, <2>2
    <2>5. ASSUME NEW k \in Beyond(cursor), k \notin page PROVE k > LastKey(page)
      <3>1. k \in Nat /\ ~(k <= LastKey(page))
        BY <1>2, <2>2, <2>3, <2>5
      <3> QED
        BY <3>1, <2>4
    <2> QED
      BY <1>3, <2>2, <2>4, <2>5
  <1> QED
    BY <1>5, <1>6, <1>4

\* A list below the limit has taken all of its pages.
LEMMA AllTaken ==
    ASSUME NEW found \in SUBSET CacheKey, NEW page \in SUBSET CacheKey, NEW cursor \in Nat,
           \A k \in found : k <= cursor, \A k \in page : ~(k <= cursor),
           Cardinality(found \cup Foremost(page, Limit - Cardinality(found))) < Limit
    PROVE  Foremost(page, Limit - Cardinality(found)) = page
  <1> DEFINE room == Limit - Cardinality(found)
             taken == Foremost(page, room)
             left == page \ taken
  <1>1. taken \subseteq page /\ left \subseteq Nat /\ found \subseteq Nat /\ room \in Int
    <2>1. Cardinality(found) \in Nat /\ page \subseteq Nat /\ found \subseteq Nat
      BY KeysAreFinite, KeysAreNumbers
    <2>2. taken \subseteq page
      BY DEF Foremost
    <2>3. room \in Int
      BY <2>1, ConsoleAssumption
    <2> HIDE DEF taken, room
    <2>4. left \subseteq Nat
      BY <2>1
    <2> QED
      BY <2>1, <2>2, <2>3, <2>4
  <1>2. SUFFICES ASSUME left # {} PROVE FALSE
    BY <1>1
  <1>3. Min(left) \in left /\ \A k \in left : Min(left) <= k
    BY <1>1, <1>2, LeastIs
  <1> DEFINE k == Min(left)
             before == {j \in page : j <= k} \ {k}
  <1>4. before \subseteq taken
    BY <1>1, <1>3, KeysAreNumbers
  <1>5. ~(Cardinality({j \in page : j <= k}) <= room) /\ k \in page
    BY <1>3 DEF Foremost
  <1>6. Cardinality({j \in page : j <= k}) = Cardinality(before) + 1 /\ Cardinality(before) \in Nat
    <2> DEFINE upTo == {j \in page : j <= k}
    <2>1. upTo \subseteq CacheKey /\ k \in upTo
      <3>1. k \in page /\ k \in Nat
        BY <1>1, <1>3, <1>5
      <3> QED
        BY <3>1
    <2>2. IsFiniteSet(upTo) /\ Cardinality(upTo) \in Nat /\ Cardinality(before) \in Nat
      BY <2>1, KeysAreFinite
    <2>3. Cardinality(upTo \ {k}) = Cardinality(upTo) - 1
      <3> HIDE DEF upTo, k
      <3> QED
        BY <2>1, <2>2, FS_RemoveElement
    <2> QED
      BY <2>2, <2>3
  <1>7. found \cap before = {} /\ before \subseteq CacheKey
    OBVIOUS
  <1>8. /\ Cardinality(found \cup before) = Cardinality(found) + Cardinality(before)
        /\ Cardinality(found) \in Nat
    <2>1. /\ IsFiniteSet(found) /\ IsFiniteSet(before) /\ Cardinality(found) \in Nat
          /\ Cardinality(before) \in Nat
      BY <1>7, KeysAreFinite
    <2>2. Cardinality(found \cup before) = Cardinality(found) + Cardinality(before) - Cardinality(found \cap before)
      BY <2>1, FS_Union
    <2>3. Cardinality(found \cap before) = 0
      BY <1>7, FS_EmptySet
    <2> QED
      BY <2>1, <2>2, <2>3
  <1>9. /\ Cardinality(found \cup before) <= Cardinality(found \cup taken)
        /\ Cardinality(found \cup taken) \in Nat /\ Cardinality(found \cup before) \in Nat
    <2>1. found \cup before \subseteq found \cup taken /\ found \cup taken \subseteq CacheKey
      BY <1>1, <1>4
    <2> QED
      BY <2>1, KeysAreFinite, FS_Subset
  <1> HIDE DEF before, k, left, taken
  <1> QED
    BY <1>5, <1>6, <1>8, <1>9, ConsoleAssumption DEF taken

LEMMA ConsoleStarts == ASSUME CacheInit PROVE ConsoleFits
  <1> USE DEF CacheInit, StartReading, NotReading, NotClearing
  <1>1. ConsoleTypeOK
    <2>1. kv \subseteq CacheKey
      OBVIOUS
    <2>2. reading \in ReadingRecord /\ clearing \in ClearingRecord
      BY DEF ReadingRecord, ClearingRecord
    <2> QED
      BY <2>1, <2>2 DEF ConsoleTypeOK
  <1>2. GoneFits /\ ReadingFits /\ ClearingFits
    <2>1. \A k \in kv : ~(k <= 0)
      BY ConsoleAssumption DEF CacheKey
    <2>2. reading.cursor = 0 /\ reading.found = {} /\ reading.pc = "listing" /\ clearing.pc = "idle"
      OBVIOUS
    <2>3. ReadingFits
      BY <2>1, <2>2 DEF ReadingFits
    <2> QED
      BY <2>2, <2>3 DEF GoneFits, ClearingFits
  <1> QED
    BY <1>1, <1>2 DEF ConsoleFits

LEMMA ConsoleFollows ==
    ASSUME ConsoleFits
    PROVE  DeletedIsNotListed /\ ListIsWhole /\ ClearedMeansGone
  BY DEF ConsoleFits, GoneFits, ReadingFits, ClearingFits, DeletedIsNotListed, ListIsWhole, ClearedMeansGone

-----------------------------------------------------------------------------
\* A key is put.
LEMMA PutFits == ASSUME ConsoleFits, NEW k \in CacheKey, PutKey(k) PROVE ConsoleFits'
  <1> USE DEF ConsoleFits, PutKey, errorVars
  <1>1. ConsoleTypeOK' /\ GoneFits' /\ ReadingFits'
    BY DEF ConsoleTypeOK, GoneFits, ReadingFits
  <1>2. ~(clearing.pc = "idle" /\ cacheMessage = "none") => since' = since \cup {k}
    BY DEF Marked
  <1>3. ClearingFits'
    BY <1>2 DEF ClearingFits
  <1> QED
    BY <1>1, <1>3

\* The list is asked for anew: nothing has been found yet.
Anew == reading' = StartReading /\ stayed' = kv' /\ overlooked' = overlooked

LEMMA AnewFits ==
    ASSUME ConsoleFits, Anew, kv' \subseteq CacheKey
    PROVE  reading' \in ReadingRecord /\ reading'.pc = "listing" /\ reading'.found = {} /\ ReadingFits'
  <1>1. /\ StartReading \in ReadingRecord /\ StartReading.pc = "listing" /\ StartReading.cursor = 0
        /\ StartReading.found = {}
    BY DEF StartReading, NotReading, ReadingRecord
  <1>2. \A k \in kv' : ~(k <= 0)
    BY KeysAreNumbers
  <1> QED
    BY <1>1, <1>2 DEF Anew, ConsoleFits, ReadingFits

LEMMA ListsFit == ASSUME ConsoleFits, ListPage PROVE ConsoleFits'
  <1> USE DEF ConsoleFits, cacheCountVars
  <1>1. PICK page \in Pages(reading.cursor) :
          LET taken == Foremost(page, Limit - Cardinality(reading.found))
              found == reading.found \cup taken
              complete == page = Beyond(reading.cursor)
              truncated == ListLeft(taken = page, complete)
          IN  IF complete \/ Cardinality(found) >= Limit
              THEN /\ reading' = NotReading /\ shownKeys' = [keys |-> found, truncated |-> truncated]
                   /\ overlooked' = IF truncated THEN {} ELSE stayed \ found
                   /\ cacheSwrError' = FALSE /\ stayed' = {}
              ELSE /\ reading' = [reading EXCEPT !.cursor = LastKey(page), !.found = found]
                   /\ UNCHANGED <<shownKeys, overlooked, cacheSwrError, stayed>>
    BY DEF ListPage
  <1> DEFINE taken == Foremost(page, Limit - Cardinality(reading.found))
             found == reading.found \cup taken
             complete == page = Beyond(reading.cursor)
             truncated == ListLeft(taken = page, complete)
  <1>2. reading \in ReadingRecord /\ kv \subseteq CacheKey /\ reading.pc = "listing" /\ UNCHANGED <<kv, goneKeys, clearing>>
    BY DEF ConsoleTypeOK, ListPage
  <1>3. /\ reading.cursor \in Nat /\ reading.found \in SUBSET CacheKey /\ page \subseteq Beyond(reading.cursor)
        /\ page \subseteq CacheKey /\ LastKey(page) \in Nat /\ \A k \in page : k <= LastKey(page)
        /\ \A k \in Beyond(reading.cursor) : k \in page \/ k > LastKey(page)
        /\ page = {} => Beyond(reading.cursor) = {}
    BY <1>2, PageIs DEF ReadingRecord
  <1>4. taken \subseteq page /\ found \subseteq CacheKey /\ page \subseteq kv
    BY <1>3 DEF Foremost, Beyond
  <1>5. clearing.pc \in {"idle", "asked", "refresh"} => found \cap goneKeys = {}
    BY <1>2, <1>4 DEF GoneFits
  <1>6. ClearingFits'
    BY DEF ListPage, ClearingFits
  <1>7. CASE complete \/ Cardinality(found) >= Limit
    <2>1. /\ reading' = NotReading /\ shownKeys' = [keys |-> found, truncated |-> truncated]
          /\ overlooked' = IF truncated THEN {} ELSE stayed \ found
          /\ cacheSwrError' = FALSE /\ stayed' = {}
      BY <1>1, <1>7
    <2>2. reading' \in ReadingRecord /\ reading'.pc = "idle"
      BY <2>1 DEF NotReading, ReadingRecord
    <2>3. truncated \in BOOLEAN
      BY DEF ListLeft
    <2>4. ConsoleTypeOK'
      BY <1>4, <2>1, <2>2, <2>3 DEF ConsoleTypeOK, ListPage
    <2>5. GoneFits'
      BY <1>2, <1>5, <2>1, <2>2 DEF GoneFits
    <2>6. ASSUME ~truncated PROVE stayed \subseteq found
      <3>1. taken = page /\ page = Beyond(reading.cursor)
        BY <2>6 DEF ListLeft
      <3>2. ASSUME NEW k \in stayed, k \notin reading.found PROVE k \in Beyond(reading.cursor)
        <4>1. k \in kv /\ ~(k <= reading.cursor)
          BY <1>2, <3>2 DEF ReadingFits
        <4>2. k \in Nat
          BY <1>2, <4>1, KeysAreNumbers
        <4> QED
          BY <1>3, <4>1, <4>2 DEF Beyond
      <3> QED
        BY <3>1, <3>2
    <2>7. overlooked' = {}
      <3> HIDE DEF truncated, found
      <3> QED
        BY <2>1, <2>6
    <2>8. ReadingFits'
      BY <2>2, <2>7 DEF ReadingFits
    <2> QED
      BY <1>6, <2>4, <2>5, <2>8
  <1>8. CASE ~(complete \/ Cardinality(found) >= Limit)
    <2>1. /\ reading' = [reading EXCEPT !.cursor = LastKey(page), !.found = found]
          /\ UNCHANGED <<shownKeys, overlooked, cacheSwrError, stayed>>
      BY <1>1, <1>8
    <2>2. Cardinality(found) < Limit
      <3>1. Cardinality(found) \in Nat
        BY <1>4, KeysAreFinite
      <3> HIDE DEF found
      <3> QED
        BY <1>8, <3>1, ConsoleAssumption
    <2>3. taken = page
      <3>1. \A k \in reading.found : k <= reading.cursor
        BY <1>2 DEF ReadingFits
      <3>2. \A k \in page : ~(k <= reading.cursor)
        BY <1>3, KeysAreNumbers DEF Beyond
      <3> QED
        BY <1>3, <2>2, <3>1, <3>2, AllTaken
    <2> HIDE DEF taken
    <2> DEFINE next == [[reading EXCEPT !.cursor = LastKey(page)] EXCEPT !.found = found]
    <2>4. next \in ReadingRecord /\ next.pc = "listing" /\ next.cursor = LastKey(page) /\ next.found = found
      BY <1>2, <1>3, <1>4 DEF ReadingRecord
    <2>5. reading' = next
      BY <2>1
    <2> HIDE DEF next
    <2>6. ConsoleTypeOK'
      BY <2>1, <2>4, <2>5 DEF ConsoleTypeOK, ListPage
    <2>7. GoneFits'
      BY <1>2, <1>5, <2>1, <2>4, <2>5 DEF GoneFits
    <2>8. \A k \in found : k <= LastKey(page)
      <3>1. \A k \in page : k > reading.cursor /\ k \in Nat
        BY <1>3, KeysAreNumbers DEF Beyond
      <3>2. page # {}
        BY <1>3, <1>8
      <3>3. ASSUME NEW k \in reading.found PROVE k <= LastKey(page)
        <4>1. PICK j \in page : j > reading.cursor /\ j <= LastKey(page) /\ j \in Nat
          BY <1>3, <3>1, <3>2
        <4>2. k <= reading.cursor /\ k \in Nat
          BY <1>2, <1>3, <3>3, KeysAreNumbers DEF ReadingFits
        <4> QED
          BY <1>3, <4>1, <4>2
      <3> QED
        BY <1>3, <2>3, <3>3
    <2>9. ASSUME NEW k \in stayed, k <= LastKey(page) PROVE k \in found
      <3>1. k \in kv /\ k \in Nat
        BY <1>2, KeysAreNumbers DEF ReadingFits
      <3>2. CASE k <= reading.cursor
        BY <1>2, <3>2 DEF ReadingFits
      <3>3. CASE ~(k <= reading.cursor)
        BY <1>3, <2>3, <2>9, <3>1, <3>3 DEF Beyond
      <3> QED
        BY <3>2, <3>3
    <2>10. ReadingFits'
      BY <1>2, <2>1, <2>4, <2>5, <2>8, <2>9 DEF ReadingFits
    <2> QED
      BY <1>6, <2>6, <2>7, <2>10
  <1> QED
    BY <1>7, <1>8

LEMMA ReadingsFit == ASSUME ConsoleFits, ListFails \/ FetchCacheKeys PROVE ConsoleFits'
  <1> USE DEF ConsoleFits
  <1>1. CASE ListFails
    <2>1. reading' \in ReadingRecord /\ reading'.pc = "idle"
      BY <1>1 DEF ListFails, NotReading, ReadingRecord
    <2> QED
      BY <1>1, <2>1 DEF ListFails, ConsoleTypeOK, GoneFits, ReadingFits, ClearingFits
  <1>2. CASE FetchCacheKeys
    <2>1. Anew /\ kv' = kv
      BY <1>2 DEF FetchCacheKeys, Restarted, StayedFrom, Anew
    <2>2. reading' \in ReadingRecord /\ reading'.pc = "listing" /\ reading'.found = {} /\ ReadingFits'
      BY <2>1, AnewFits DEF ConsoleTypeOK
    <2> QED
      BY <1>2, <2>2 DEF FetchCacheKeys, ConsoleTypeOK, GoneFits, ClearingFits
  <1> QED
    BY <1>1, <1>2

-----------------------------------------------------------------------------
\* The clearing moves on while the cache and the reading stay.
LEMMA ClearingMoves ==
    ASSUME ConsoleFits, UNCHANGED <<kv, reading, shownKeys, goneKeys, cacheSwrError, stayed, overlooked>>,
           clearing' \in ClearingRecord, cacheMessage' \in {"none", "cleared", "cleared, more remain"},
           clearing'.pc \in {"idle", "asked", "refresh"} => clearing.pc \in {"idle", "asked", "refresh"},
           ClearingFits'
    PROVE  ConsoleFits'
  BY DEF ConsoleFits, ConsoleTypeOK, GoneFits, ReadingFits

LEMMA ClearStartsFits == ASSUME ConsoleFits, HandleClearCache \/ Revise PROVE ConsoleFits'
  <1> USE DEF ConsoleFits, errorVars, cacheCountVars
  <1>1. CASE HandleClearCache
    <2> DEFINE next == [NotClearing EXCEPT !.pc = "asked"]
    <2>1. next \in ClearingRecord /\ next.pc = "asked" /\ next.cursor = 0
      BY DEF NotClearing, ClearingRecord
    <2>2. clearing' = next /\ since' = {} /\ cacheMessage' = "none" /\ kv' = kv /\ clearing.pc = "idle"
      BY <1>1 DEF HandleClearCache
    <2> HIDE DEF next
    <2>3. \A k \in kv : k > 0
      BY KeysAreNumbers DEF ConsoleTypeOK
    <2>4. ClearingFits'
      BY <2>1, <2>2, <2>3 DEF ClearingFits
    <2> QED
      BY <1>1, <2>1, <2>2, <2>4, ClearingMoves DEF HandleClearCache
  <1>2. CASE Revise
    <2> DEFINE next == [clearing EXCEPT !.pc = "list"]
    <2>1. next \in ClearingRecord /\ next.pc = "list" /\ next.cursor = clearing.cursor
      BY DEF ConsoleTypeOK, ClearingRecord
    <2>2. clearing' = next /\ clearing.pc = "asked" /\ UNCHANGED <<since, cacheMessage, kv>>
      BY <1>2 DEF Revise
    <2> HIDE DEF next
    <2>3. ClearingFits'
      BY <2>1, <2>2 DEF ClearingFits
    <2> QED
      BY <1>2, <2>1, <2>2, <2>3, ClearingMoves DEF Revise, ConsoleTypeOK
  <1> QED
    BY <1>1, <1>2

LEMMA ClearPageFits == ASSUME ConsoleFits, ClearPage PROVE ConsoleFits'
  <1> USE DEF ConsoleFits, errorVars, cacheCountVars
  <1>1. PICK page \in Pages(clearing.cursor) :
          clearing' = [clearing EXCEPT !.pc = "page", !.page = page, !.complete = page = Beyond(clearing.cursor),
                                       !.cursor = LastKey(page)]
    BY DEF ClearPage
  <1> DEFINE next == [[[[clearing EXCEPT !.pc = "page"] EXCEPT !.page = page]
                         EXCEPT !.complete = (page = Beyond(clearing.cursor))] EXCEPT !.cursor = LastKey(page)]
  <1>2. clearing \in ClearingRecord /\ kv \subseteq CacheKey /\ clearing.pc = "list"
        /\ UNCHANGED <<since, cacheMessage, kv>>
    BY DEF ConsoleTypeOK, ClearPage
  <1>3. /\ page \subseteq CacheKey /\ LastKey(page) \in Nat /\ clearing.cursor \in Nat
        /\ \A k \in Beyond(clearing.cursor) : k \in page \/ k > LastKey(page)
    BY <1>2, PageIs DEF ClearingRecord
  <1>4. /\ next \in ClearingRecord /\ next.pc = "page" /\ next.page = page /\ next.cursor = LastKey(page)
        /\ next.complete = (page = Beyond(clearing.cursor))
    BY <1>2, <1>3 DEF ClearingRecord
  <1>5. clearing' = next
    BY <1>1
  <1> HIDE DEF next
  <1>6. ASSUME NEW k \in kv \ since PROVE k \in page \/ (page # Beyond(clearing.cursor) /\ k > LastKey(page))
    <2>1. k \in Beyond(clearing.cursor)
      BY <1>2 DEF ClearingFits, Beyond
    <2> QED
      BY <1>3, <2>1
  <1>7. ClearingFits'
    BY <1>2, <1>4, <1>5, <1>6 DEF ClearingFits
  <1> QED
    BY <1>2, <1>4, <1>5, <1>7, ClearingMoves DEF ClearPage, ConsoleTypeOK

LEMMA ClearKeyFits == ASSUME ConsoleFits, ClearKey PROVE ConsoleFits'
  <1> USE DEF ConsoleFits, errorVars, cacheCountVars
  <1> DEFINE k == Min(clearing.page)
             next == [[clearing EXCEPT !.page = clearing.page \ {k}] EXCEPT !.deleted = clearing.deleted + 1]
  <1>1. /\ kv' = kv \ {k} /\ stayed' = stayed \ {k} /\ goneKeys' = goneKeys \cup {k} /\ clearing' = next
        /\ UNCHANGED <<reading, shownKeys, cacheSwrError, overlooked, since, cacheMessage>>
    BY DEF ClearKey, RemoveKey
  <1>2. clearing \in ClearingRecord /\ clearing.pc = "page"
    BY DEF ConsoleTypeOK, ClearKey
  <1>3. /\ next \in ClearingRecord /\ next.pc = "page" /\ next.page = clearing.page \ {k}
        /\ next.cursor = clearing.cursor /\ next.complete = clearing.complete
    <2> HIDE DEF k
    <2>1. clearing.page \ {k} \in SUBSET CacheKey /\ clearing.deleted + 1 \in Nat
      BY <1>2 DEF ClearingRecord
    <2> QED
      BY <1>2, <2>1 DEF ClearingRecord
  <1> HIDE DEF next, k
  <1>4. ConsoleTypeOK'
    BY <1>1, <1>3 DEF ConsoleTypeOK
  <1>5. GoneFits' /\ ReadingFits'
    BY <1>1, <1>2, <1>3 DEF GoneFits, ReadingFits
  <1>6. ClearingFits'
    BY <1>1, <1>2, <1>3 DEF ClearingFits
  <1> QED
    BY <1>4, <1>5, <1>6

LEMMA ClearNextFits == ASSUME ConsoleFits, ClearNext PROVE ConsoleFits'
  <1> USE DEF ConsoleFits, errorVars, cacheCountVars
  <1> DEFINE next == [clearing EXCEPT !.pc = "list"]
  <1>1. next \in ClearingRecord /\ next.pc = "list" /\ next.cursor = clearing.cursor
    BY DEF ConsoleTypeOK, ClearingRecord
  <1>2. /\ clearing' = next /\ clearing.pc = "page" /\ clearing.page = {}
        /\ UNCHANGED <<since, cacheMessage, kv>>
    BY DEF ClearNext
  <1> HIDE DEF next
  <1>3. ClearingFits'
    BY <1>1, <1>2 DEF ClearingFits
  <1> QED
    BY <1>1, <1>2, <1>3, ClearingMoves DEF ClearNext, ConsoleTypeOK

LEMMA ClearedFits == ASSUME ConsoleFits, CacheCleared PROVE ConsoleFits'
  <1> USE DEF ConsoleFits, errorVars, cacheCountVars
  <1> DEFINE next == [clearing EXCEPT !.pc = "refresh"]
  <1>1. /\ next \in ClearingRecord /\ next.pc = "refresh" /\ next.page = clearing.page
        /\ next.cursor = clearing.cursor /\ next.complete = clearing.complete
    BY DEF ConsoleTypeOK, ClearingRecord
  <1>2. clearing' = next /\ clearing.pc = "page" /\ UNCHANGED <<since, cacheMessage, kv, goneKeys, shownKeys, cacheSwrError>>
    BY DEF CacheCleared
  <1> HIDE DEF next
  <1>3. Anew
    BY DEF CacheCleared, Restarted, StayedFrom, Anew
  <1>4. reading' \in ReadingRecord /\ reading'.pc = "listing" /\ reading'.found = {} /\ ReadingFits'
    BY <1>2, <1>3, AnewFits DEF ConsoleTypeOK
  <1>5. GoneFits'
    BY <1>2, <1>4 DEF GoneFits
  <1>6. ClearingFits'
    BY <1>1, <1>2 DEF ClearingFits
  <1>7. ConsoleTypeOK'
    BY <1>1, <1>2, <1>4 DEF ConsoleTypeOK
  <1> QED
    BY <1>4, <1>5, <1>6, <1>7

LEMMA ClearEndFits == ASSUME ConsoleFits, ShowCleared \/ ClearFails PROVE ConsoleFits'
  <1> USE DEF ConsoleFits, errorVars, cacheCountVars
  <1>1. NotClearing \in ClearingRecord /\ NotClearing.pc = "idle"
    BY DEF NotClearing, ClearingRecord
  <1>2. CASE ShowCleared
    <2>1. cacheMessage' \in {"cleared", "cleared, more remain"} /\ clearing' = NotClearing /\ clearing.pc = "refresh"
      BY <1>2 DEF ShowCleared
    <2>2. cacheMessage' = "cleared" => clearing.page = {} /\ clearing.complete
      BY <1>2 DEF ShowCleared, MoreRemain
    <2>3. UNCHANGED <<kv, since>>
      BY <1>2 DEF ShowCleared
    <2>4. ClearingFits'
      BY <1>1, <2>1, <2>2, <2>3 DEF ClearingFits
    <2> QED
      BY <1>1, <1>2, <2>1, <2>4, ClearingMoves DEF ShowCleared
  <1>3. CASE ClearFails
    <2>1. clearing' = NotClearing /\ goneKeys' = {} /\ clearing.pc # "idle"
          /\ UNCHANGED <<kv, reading, shownKeys, cacheSwrError, cacheMessage, since, stayed, overlooked>>
      BY <1>3 DEF ClearFails
    <2>2. ConsoleTypeOK' /\ ReadingFits'
      BY <1>1, <2>1 DEF ConsoleTypeOK, ReadingFits
    <2>3. GoneFits' /\ ClearingFits'
      BY <1>1, <2>1 DEF GoneFits, ClearingFits
    <2> QED
      BY <2>2, <2>3
  <1> QED
    BY <1>2, <1>3

-----------------------------------------------------------------------------
\* One key is deleted, after which the list is read again.
LEMMA InvalidateFits ==
    ASSUME ConsoleFits, NEW k \in CacheKey, HandleInvalidateKey(k) \/ InvalidateKey(k)
    PROVE  ConsoleFits'
  <1> USE DEF ConsoleFits, errorVars, cacheCountVars
  <1>1. CASE HandleInvalidateKey(k)
    BY <1>1 DEF HandleInvalidateKey, ConsoleTypeOK, GoneFits, ReadingFits, ClearingFits
  <1>2. CASE InvalidateKey(k) /\ UNCHANGED <<kv, goneKeys, reading, stayed>>
    BY <1>2 DEF InvalidateKey, ConsoleTypeOK, GoneFits, ReadingFits, ClearingFits
  <1>3. CASE /\ InvalidateKey(k) /\ kv' = kv \ {k} /\ goneKeys' = goneKeys \cup {k}
             /\ reading' = Restarted /\ stayed' = StayedFrom(kv')
    <2>1. UNCHANGED <<shownKeys, clearing, cacheMessage, cacheSwrError, since, overlooked>>
      BY <1>3 DEF InvalidateKey
    <2>2. Anew
      BY <1>3, <2>1 DEF Restarted, StayedFrom, Anew
    <2>3. reading' \in ReadingRecord /\ reading'.pc = "listing" /\ reading'.found = {} /\ ReadingFits'
      BY <1>3, <2>2, AnewFits DEF ConsoleTypeOK
    <2>4. ConsoleTypeOK'
      BY <1>3, <2>1, <2>3 DEF ConsoleTypeOK
    <2>5. GoneFits'
      BY <1>3, <2>1, <2>3 DEF GoneFits
    <2>6. ClearingFits'
      BY <1>3, <2>1 DEF ClearingFits
    <2> QED
      BY <2>3, <2>4, <2>5, <2>6
  <1> QED
    BY <1>1, <1>2, <1>3 DEF InvalidateKey

LEMMA ConsoleStepFits == ASSUME ConsoleFits, [CacheNext]_cacheVars PROVE ConsoleFits'
  <1>1. CASE UNCHANGED cacheVars
    BY <1>1 DEF cacheVars, ConsoleFits, ConsoleTypeOK, GoneFits, ReadingFits, ClearingFits
  <1>2. CASE CacheNext
    BY <1>2, PutFits, ListsFit, ReadingsFit, ClearStartsFits, ClearPageFits, ClearKeyFits, ClearNextFits, ClearedFits,
       ClearEndFits, InvalidateFits DEF CacheNext
  <1> QED
    BY <1>1, <1>2

-----------------------------------------------------------------------------
(* The synchronisation of prices: what an outage leaves.                   *)

Answered == UNION {{Feeds[s][i] : i \in 1..Len(Feeds[s])} : s \in Source}
LastAnswers == [Source -> Answered \cup {Null}]
PriceRun == [pc : {"resolve", "entries", "meta"}, mode : {"cron", "force", "cached"}, at : Int,
             got : LastAnswers, left : SUBSET Source, errors : SUBSET (Source \cup {"kv"})]

PricingTypeOK ==
    /\ upstream \in [Source -> Answered] /\ last \in LastAnswers
    /\ run \in [Run -> {NoRun} \cup PriceRun] /\ started \in Nat
    /\ overlapped \in BOOLEAN /\ dropped \subseteq Source

\* Alone, a run that may fall back has got an answer of each source it has
\* resolved exactly if one is kept, and the prices stored came from answers
\* that are kept; neither holds of a source whose last answer was lost.
AloneFits == ~overlapped => \A r, q \in Run : run[r] # NoRun /\ run[q] # NoRun => r = q
GotFits ==
    ~overlapped =>
        \A r \in Run : run[r] # NoRun /\ run[r].mode # "force" =>
            \A s \in (Source \ dropped) \ run[r].left : run[r].got[s] # Null <=> last[s] # Null
LeftFits == \A r \in Run : run[r].pc \in {"entries", "meta"} => run[r].left = {}
StoredFits ==
    ~overlapped /\ dynamic # Null /\ dynamic.mode # "force" =>
        \A s \in Source \ dropped : dynamic.got[s] # Null => last[s] # Null

PricesFit == PricingTypeOK /\ AloneFits /\ GotFits /\ LeftFits /\ StoredFits

LEMMA AnAnswer ==
    ASSUME NEW s \in Source, NEW i \in 1..Len(Feeds[s])
    PROVE  Feeds[s][i] \in Answered /\ Null \notin Answered
  BY FeedsAssumption DEF Answered

LEMMA PricesStart == ASSUME PricingInit PROVE PricesFit
  <1> USE DEF PricingInit
  <1>1. \A s \in Source : 1 \in 1..Len(Feeds[s])
    BY FeedsAssumption
  <1>2. upstream \in [Source -> Answered]
    BY <1>1, AnAnswer
  <1>3. PricingTypeOK
    BY <1>2 DEF PricingTypeOK, LastAnswers
  <1>4. AloneFits /\ GotFits /\ LeftFits /\ StoredFits
    BY DEF AloneFits, GotFits, LeftFits, StoredFits, NoRun
  <1> QED
    BY <1>3, <1>4 DEF PricesFit

\* One run moves on, and the others stay.
RunsOn(r, new) == run' \in [Run -> {NoRun} \cup PriceRun] /\ run'[r] = new /\ \A q \in Run \ {r} : run'[q] = run[q]

LEMMA RunGoesOn ==
    ASSUME PricesFit, NEW r \in Run, NEW new \in {NoRun} \cup PriceRun, run' = [run EXCEPT ![r] = new]
    PROVE  RunsOn(r, new)
  BY DEF PricesFit, PricingTypeOK, RunsOn

\* While a run goes on no other begins, and what is kept and stored stays.
LEMMA OneRunFits ==
    ASSUME PricesFit, NEW r \in Run, NEW new \in PriceRun, RunsOn(r, new), run[r] # NoRun, new.mode = run[r].mode,
           UNCHANGED <<upstream, overlapped, started>>, dropped' \subseteq Source, last' \in LastAnswers,
           new.pc \in {"entries", "meta"} => new.left = {},
           ~overlapped /\ new.mode # "force" =>
               \A s \in (Source \ dropped') \ new.left : new.got[s] # Null <=> last'[s] # Null,
           StoredFits'
    PROVE  PricesFit'
  <1>1. PricingTypeOK'
    BY DEF PricesFit, PricingTypeOK, RunsOn
  <1>2. AloneFits' /\ LeftFits'
    BY DEF PricesFit, AloneFits, LeftFits, RunsOn
  <1>3. GotFits'
    <2>1. \A q \in Run \ {r} : ~overlapped => run'[q] = NoRun
      BY DEF PricesFit, AloneFits, RunsOn
    <2> QED
      BY <2>1 DEF GotFits, RunsOn
  <1> QED
    BY <1>1, <1>2, <1>3 DEF PricesFit

LEMMA WorldFits == ASSUME PricesFit, NEW s \in Source, Publish(s) \/ Expire(s) PROVE PricesFit'
  <1>1. CASE Publish(s)
    <2>1. PICK i \in 2..Len(Feeds[s]) : upstream' = [upstream EXCEPT ![s] = Feeds[s][i]]
      BY <1>1 DEF Publish
    <2>2. i \in 1..Len(Feeds[s])
      BY FeedsAssumption
    <2>3. upstream' \in [Source -> Answered]
      BY <2>1, <2>2, AnAnswer DEF PricesFit, PricingTypeOK
    <2> QED
      BY <1>1, <2>3 DEF Publish, PricesFit, PricingTypeOK, AloneFits, GotFits, LeftFits, StoredFits
  <1>2. CASE Expire(s)
    <2>1. last' \in LastAnswers /\ dropped' = dropped \cup {s} /\ \A t \in Source \ {s} : last'[t] = last[t]
      BY <1>2 DEF Expire, PricesFit, PricingTypeOK, LastAnswers
    <2>2. UNCHANGED <<upstream, dynamic, run, started, overlapped>>
      BY <1>2 DEF Expire
    <2>3. GotFits' /\ StoredFits'
      BY <2>1, <2>2 DEF PricesFit, GotFits, StoredFits
    <2> QED
      BY <2>1, <2>2, <2>3 DEF PricesFit, PricingTypeOK, AloneFits, LeftFits
  <1> QED
    BY <1>1, <1>2

LEMMA BeginFits ==
    ASSUME PricesFit, NEW r \in Run, NEW mode \in {"cron", "force", "cached"}, Begin(r, mode)
    PROVE  PricesFit'
  <1> DEFINE new == [pc |-> "resolve", mode |-> mode, at |-> started + 1,
                     got |-> [s \in Source |-> Null], left |-> Source, errors |-> {}]
  <1>1. new \in PriceRun
    BY DEF PricesFit, PricingTypeOK, PriceRun, LastAnswers
  <1>2. run' = [run EXCEPT ![r] = new] /\ run[r] = NoRun /\ UNCHANGED <<upstream, dynamic, last, dropped>>
        /\ started' = started + 1 /\ overlapped' = (overlapped \/ Active # {})
    BY DEF Begin
  <1>3. new.left = Source /\ new.pc = "resolve"
    OBVIOUS
  <1> HIDE DEF new
  <1>4. RunsOn(r, new)
    BY <1>1, <1>2, RunGoesOn
  <1>5. ~overlapped' => ~overlapped /\ \A q \in Run : run[q] = NoRun
    BY <1>2 DEF PricesFit, PricingTypeOK, Active
  <1>6. PricingTypeOK'
    BY <1>2, <1>4 DEF PricesFit, PricingTypeOK, RunsOn
  <1>7. AloneFits' /\ LeftFits'
    BY <1>3, <1>4, <1>5 DEF PricesFit, AloneFits, LeftFits, RunsOn
  <1>8. GotFits' /\ StoredFits'
    BY <1>2, <1>3, <1>4, <1>5 DEF PricesFit, GotFits, StoredFits, RunsOn
  <1> QED
    BY <1>6, <1>7, <1>8 DEF PricesFit

\* A source is resolved: an answer, or what stands in for it.
LEMMA AdvanceIs ==
    ASSUME PricesFit, NEW r \in Run, NEW s \in run[r].left, run[r].pc = "resolve",
           NEW json \in Answered \cup {Null}, NEW errors \in SUBSET (Source \cup {"kv"}), Advance(r, s, json, errors)
    PROVE  \E new \in PriceRun :
             /\ RunsOn(r, new) /\ new.mode = run[r].mode /\ new.left = run[r].left \ {s}
             /\ new.got[s] = json /\ \A t \in Source \ {s} : new.got[t] = run[r].got[t]
             /\ new.pc \in {"entries", "meta"} => new.left = {}
  <1> DEFINE left == run[r].left \ {s}
             got == [run[r].got EXCEPT ![s] = json]
             pc == IF left = {} THEN "entries" ELSE "resolve"
             new == [[[[run[r] EXCEPT !.got = got] EXCEPT !.left = left] EXCEPT !.errors = run[r].errors \cup errors]
                       EXCEPT !.pc = pc]
  <1>1. run[r] \in PriceRun
    BY DEF PricesFit, PricingTypeOK, NoRun
  <1>2. got \in LastAnswers /\ left \in SUBSET Source /\ pc \in {"resolve", "entries"} /\ s \in Source
        /\ run[r].errors \cup errors \in SUBSET (Source \cup {"kv"})
    BY <1>1 DEF PriceRun, LastAnswers
  <1>3. got[s] = json /\ (\A t \in Source \ {s} : got[t] = run[r].got[t]) /\ (pc = "entries" => left = {})
    BY <1>1, <1>2 DEF PriceRun, LastAnswers
  <1>4. run' = [run EXCEPT ![r] = new]
    BY DEF Advance
  <1> HIDE DEF got, left, pc
  <1>5. new \in PriceRun /\ new.mode = run[r].mode /\ new.left = left /\ new.got = got /\ new.pc = pc
    BY <1>1, <1>2 DEF PriceRun
  <1> HIDE DEF new
  <1>6. RunsOn(r, new)
    BY <1>4, <1>5, RunGoesOn
  <1> QED
    BY <1>2, <1>3, <1>5, <1>6 DEF left

LEMMA ResolvesFit ==
    ASSUME PricesFit, NEW r \in Run, NEW s \in Source,
           ResolveCached(r, s) \/ ResolveFetched(r, s) \/ ResolveFailed(r, s)
    PROVE  PricesFit'
  <1>1. run[r].pc = "resolve" /\ s \in run[r].left /\ run[r] # NoRun /\ UNCHANGED <<upstream, dynamic, overlapped, started>>
    BY DEF ResolveCached, ResolveFetched, ResolveFailed, NoRun
  <1>2. Null \notin Answered
    BY FeedsAssumption DEF Answered
  <1>3. CASE ResolveFetched(r, s)
    <2>1. upstream[s] \in Answered
      BY DEF PricesFit, PricingTypeOK
    <2>2. PICK new \in PriceRun :
             /\ RunsOn(r, new) /\ new.mode = run[r].mode /\ new.left = run[r].left \ {s}
             /\ new.got[s] = upstream[s] /\ \A t \in Source \ {s} : new.got[t] = run[r].got[t]
             /\ new.pc \in {"entries", "meta"} => new.left = {}
      BY <1>1, <1>3, <2>1, AdvanceIs DEF ResolveFetched
    <2>3. \/ last' = [last EXCEPT ![s] = upstream[s]] /\ dropped' = dropped \ {s}
          \/ last' = last /\ dropped' = dropped \cup {s}
      BY <1>3 DEF ResolveFetched
    <2>4. /\ last' \in LastAnswers /\ dropped' \subseteq Source
          /\ \A t \in Source \ {s} : last'[t] = last[t] /\ (t \in dropped' <=> t \in dropped)
          /\ s \in dropped' \/ last'[s] = upstream[s]
      BY <2>1, <2>3 DEF PricesFit, PricingTypeOK, LastAnswers
    <2>5. ~overlapped /\ new.mode # "force" =>
               \A t \in (Source \ dropped') \ new.left : new.got[t] # Null <=> last'[t] # Null
      BY <1>1, <1>2, <2>1, <2>2, <2>4 DEF PricesFit, GotFits
    <2>6. StoredFits'
      BY <1>1, <1>2, <2>1, <2>4 DEF PricesFit, StoredFits
    <2> QED
      BY <1>1, <2>2, <2>4, <2>5, <2>6, OneRunFits
  <1>4. CASE ResolveCached(r, s)
    <2>1. last[s] \in Answered \cup {Null}
      BY DEF PricesFit, PricingTypeOK, LastAnswers
    <2>2. s \in run[r].left /\ run[r].pc = "resolve" /\ Advance(r, s, last[s], {}) /\ {} \in SUBSET (Source \cup {"kv"})
      BY <1>4 DEF ResolveCached
    <2>3. PICK new \in PriceRun :
             /\ RunsOn(r, new) /\ new.mode = run[r].mode /\ new.left = run[r].left \ {s}
             /\ new.got[s] = last[s] /\ \A t \in Source \ {s} : new.got[t] = run[r].got[t]
             /\ new.pc \in {"entries", "meta"} => new.left = {}
      BY <1>1, <2>1, <2>2, AdvanceIs
    <2>4. UNCHANGED <<last, dropped>>
      BY <1>4 DEF ResolveCached
    <2>5. ~overlapped /\ new.mode # "force" =>
               \A t \in (Source \ dropped') \ new.left : new.got[t] # Null <=> last'[t] # Null
      BY <1>1, <2>3, <2>4 DEF PricesFit, GotFits
    <2>6. StoredFits' /\ last' \in LastAnswers /\ dropped' \subseteq Source
      BY <1>1, <2>4 DEF PricesFit, StoredFits, PricingTypeOK
    <2> QED
      BY <1>1, <2>3, <2>5, <2>6, OneRunFits
  <1>5. CASE ResolveFailed(r, s)
    <2> DEFINE json == FallBack(run[r].mode, s)
               failed == {s}
    <2>1. json \in Answered \cup {Null}
      BY DEF PricesFit, PricingTypeOK, LastAnswers, FallBack
    <2>2. s \in run[r].left /\ run[r].pc = "resolve" /\ Advance(r, s, json, failed) /\ failed \in SUBSET (Source \cup {"kv"})
      BY <1>5 DEF ResolveFailed
    <2> HIDE DEF json, failed
    <2>3. PICK new \in PriceRun :
             /\ RunsOn(r, new) /\ new.mode = run[r].mode /\ new.left = run[r].left \ {s}
             /\ new.got[s] = json /\ \A t \in Source \ {s} : new.got[t] = run[r].got[t]
             /\ new.pc \in {"entries", "meta"} => new.left = {}
      BY <1>1, <2>1, <2>2, AdvanceIs
    <2>4. UNCHANGED <<last, dropped>>
      BY <1>5 DEF ResolveFailed
    <2>5. ~overlapped /\ new.mode # "force" =>
               \A t \in (Source \ dropped') \ new.left : new.got[t] # Null <=> last'[t] # Null
      BY <1>1, <2>3, <2>4 DEF PricesFit, GotFits, FallBack, json
    <2>6. StoredFits' /\ last' \in LastAnswers /\ dropped' \subseteq Source
      BY <1>1, <2>4 DEF PricesFit, StoredFits, PricingTypeOK
    <2> QED
      BY <1>1, <2>3, <2>5, <2>6, OneRunFits
  <1> QED
    BY <1>3, <1>4, <1>5

\* The prices are stored, or cannot be.
LEMMA StoringFits == ASSUME PricesFit, NEW r \in Run, WriteDynamic(r) PROVE PricesFit' /\ KeptThroughOutage
  <1>1. run[r] \in PriceRun /\ run[r] # NoRun /\ run[r].pc = "entries" /\ run[r].left = {}
    BY DEF PricesFit, PricingTypeOK, LeftFits, NoRun, WriteDynamic
  <1>2. UNCHANGED <<upstream, last, dropped, overlapped, started>> /\ last' \in LastAnswers /\ dropped' \subseteq Source
    BY DEF WriteDynamic, PricesFit, PricingTypeOK
  <1>3. ~overlapped /\ run[r].mode # "force" => \A s \in Source \ dropped : run[r].got[s] # Null <=> last[s] # Null
    BY <1>1 DEF PricesFit, GotFits
  <1>4. CASE dynamic' = dynamic /\ run' = [run EXCEPT ![r].pc = "meta", ![r].errors = @ \cup {"kv"}]
    <2> DEFINE new == [[run[r] EXCEPT !.pc = "meta"] EXCEPT !.errors = run[r].errors \cup {"kv"}]
    <2>1. /\ new \in PriceRun /\ new.mode = run[r].mode /\ new.left = {} /\ new.got = run[r].got
      BY <1>1 DEF PriceRun
    <2>2. run' = [run EXCEPT ![r] = new]
      BY <1>4
    <2> HIDE DEF new
    <2>3. RunsOn(r, new)
      BY <2>1, <2>2, RunGoesOn
    <2>4. StoredFits'
      BY <1>2, <1>4 DEF PricesFit, StoredFits
    <2>5. PricesFit'
      BY <1>1, <1>2, <1>3, <2>1, <2>3, <2>4, OneRunFits
    <2> QED
      BY <1>4, <2>5 DEF KeptThroughOutage
  <1>5. CASE /\ dynamic'.got = run[r].got /\ dynamic'.mode = run[r].mode
             /\ run' = [run EXCEPT ![r].pc = "meta"]
    <2> DEFINE new == [run[r] EXCEPT !.pc = "meta"]
    <2>1. /\ new \in PriceRun /\ new.mode = run[r].mode /\ new.left = {} /\ new.got = run[r].got
      BY <1>1 DEF PriceRun
    <2>2. run' = [run EXCEPT ![r] = new]
      BY <1>5
    <2> HIDE DEF new
    <2>3. RunsOn(r, new)
      BY <2>1, <2>2, RunGoesOn
    <2>4. StoredFits'
      BY <1>2, <1>3, <1>5 DEF StoredFits
    <2>5. PricesFit'
      BY <1>1, <1>2, <1>3, <2>1, <2>3, <2>4, OneRunFits
    <2>6. KeptThroughOutage
      BY <1>2, <1>3, <1>5 DEF KeptThroughOutage, PricesFit, StoredFits
    <2> QED
      BY <2>5, <2>6
  <1> QED
    BY <1>4, <1>5 DEF WriteDynamic

LEMMA RunEndsFit == ASSUME PricesFit, NEW r \in Run, WriteMeta(r) \/ Die(r) PROVE PricesFit'
  <1>1. run' = [run EXCEPT ![r] = NoRun] /\ UNCHANGED <<upstream, dynamic, last, dropped, overlapped, started>>
    BY DEF WriteMeta, Die
  <1>2. RunsOn(r, NoRun)
    BY <1>1, RunGoesOn
  <1>3. AloneFits' /\ GotFits' /\ LeftFits'
    BY <1>1, <1>2 DEF PricesFit, AloneFits, GotFits, LeftFits, RunsOn, NoRun
  <1>4. PricingTypeOK' /\ StoredFits'
    BY <1>1, <1>2 DEF PricesFit, PricingTypeOK, StoredFits, RunsOn
  <1> QED
    BY <1>3, <1>4 DEF PricesFit

LEMMA PriceStepFits == ASSUME PricesFit, [PricingNext]_pricingVars PROVE PricesFit' /\ KeptThroughOutage
  <1>1. CASE UNCHANGED <<upstream, dynamic, last, run, started, overlapped, dropped>>
    BY <1>1 DEF PricesFit, PricingTypeOK, AloneFits, GotFits, LeftFits, StoredFits, KeptThroughOutage
  <1>2. CASE UNCHANGED pricingVars \/ Mount \/ ReadDynamic \/ AnswerLoad \/ LoadFails \/ GoStale
    BY <1>1, <1>2 DEF pricingVars, browserOnly, Mount, ReadDynamic, AnswerLoad, LoadFails, GoStale
  <1>3. ASSUME NEW s \in Source, Publish(s) \/ Expire(s) PROVE PricesFit' /\ KeptThroughOutage
    BY <1>3, WorldFits DEF Publish, Expire, KeptThroughOutage
  <1>4. ASSUME NEW r \in Run, NEW mode \in {"cron", "force", "cached"}, Begin(r, mode)
        PROVE  PricesFit' /\ KeptThroughOutage
    BY <1>4, BeginFits DEF Begin, KeptThroughOutage
  <1>5. ASSUME NEW r \in Run, NEW s \in Source, ResolveCached(r, s) \/ ResolveFetched(r, s) \/ ResolveFailed(r, s)
        PROVE  PricesFit' /\ KeptThroughOutage
    BY <1>5, ResolvesFit DEF ResolveCached, ResolveFetched, ResolveFailed, KeptThroughOutage
  <1>6. ASSUME NEW r \in Run, WriteMeta(r) \/ Die(r) PROVE PricesFit' /\ KeptThroughOutage
    BY <1>6, RunEndsFit DEF WriteMeta, Die, KeptThroughOutage
  <1>7. ASSUME NEW r \in Run, WriteDynamic(r) PROVE PricesFit' /\ KeptThroughOutage
    BY <1>7, StoringFits
  <1>8. CASE PricingNext
    BY <1>2, <1>3, <1>4, <1>5, <1>6, <1>7, <1>8 DEF PricingNext
  <1> QED
    BY <1>2, <1>8

-----------------------------------------------------------------------------
(* All parts together.                                                     *)

AccountsFit ==
    /\ (part = "registration" => RegistrationFits)
    /\ (part = "login" => LoginFits)
    /\ (part = "logo" => LogosFit)
    /\ (part = "org" => OrgFits)
    /\ (part = "member" => MembersFit)
    /\ (part = "device" => DeviceFits)
    /\ (part = "team" => TeamFits)
    /\ (part = "price" => PricesFit)
    /\ (part = "console" => ConsoleFits)

LEMMA AccountsStart == ASSUME Init PROVE AccountsFit
  <1>1. \/ part = "registration" /\ RegistrationInit
        \/ part = "login" /\ LoginInit
        \/ part = "logo" /\ LogoInit
        \/ part = "org" /\ OrgInit
        \/ part = "member" /\ MemberInit
        \/ part = "device" /\ DeviceInit
        \/ part = "team" /\ TeamInit
        \/ part = "price" /\ PricingInit
        \/ part = "console" /\ CacheInit
    BY DEF Init
  <1> QED
    BY <1>1, RegistrationStarts, LoginStarts, LogoStarts, OrgStarts, MemberStarts, DeviceStarts, TeamStarts,
       PricesStart, ConsoleStarts DEF AccountsFit

\* A step is one of the part that runs.
LEMMA AStep ==
    ASSUME AccountsFit, [Next]_allVars
    PROVE  /\ part' = part
           /\ part = "registration" => [RegistrationNext]_registrationVars
           /\ part = "login" => [LoginNext]_loginVars
           /\ part = "logo" => [LogoNext]_logoVars
           /\ part = "org" => [OrgNext]_orgVars
           /\ part = "member" => [MemberNext]_memberVars
           /\ part = "device" => [DeviceNext]_deviceVars
           /\ part = "team" => [TeamNext]_teamPageVars
           /\ part = "price" => [PricingNext]_pricingVars
           /\ part = "console" => [CacheNext]_cacheVars
  BY DEF Next, allVars

LEMMA AccountsStep ==
    ASSUME AccountsFit, [Next]_allVars
    PROVE  /\ AccountsFit'
           /\ (part = "registration" => KeepsUsed)
           /\ (part = "org" => OnlyTyped)
           /\ (part = "device" => IgnoresRevoked)
           /\ (part = "team" => ToldSo)
           /\ (part = "price" => KeptThroughOutage)
  <1>1. ASSUME part = "registration" PROVE RegistrationFits' /\ KeepsUsed
    BY <1>1, AStep, RegistrationStepFits DEF AccountsFit
  <1>2. ASSUME part = "login" PROVE LoginFits'
    BY <1>2, AStep, LoginStepFits DEF AccountsFit
  <1>3. ASSUME part = "logo" PROVE LogosFit'
    BY <1>3, AStep, LogoStepFits DEF AccountsFit
  <1>4. ASSUME part = "org" PROVE OrgFits' /\ OnlyTyped
    BY <1>4, AStep, OrgStepFits DEF AccountsFit
  <1>5. ASSUME part = "member" PROVE MembersFit'
    BY <1>5, AStep, MemberStepFits DEF AccountsFit
  <1>6. ASSUME part = "device" PROVE DeviceFits' /\ IgnoresRevoked
    BY <1>6, AStep, DeviceStepFits DEF AccountsFit
  <1>7. ASSUME part = "team" PROVE TeamFits' /\ ToldSo
    BY <1>7, AStep, TeamStepFits DEF AccountsFit
  <1>8. ASSUME part = "price" PROVE PricesFit' /\ KeptThroughOutage
    BY <1>8, AStep, PriceStepFits DEF AccountsFit
  <1>9. ASSUME part = "console" PROVE ConsoleFits'
    BY <1>9, AStep, ConsoleStepFits DEF AccountsFit
  <1> QED
    BY AStep, <1>1, <1>2, <1>3, <1>4, <1>5, <1>6, <1>7, <1>8, <1>9 DEF AccountsFit

\* The part that runs keeps its inductive invariant.
THEOREM AccountsHold == Spec => []AccountsFit
  <1> QED
    BY AccountsStart, AccountsStep, PTL DEF Spec

\* An invite brings at most one person in and names him, also when his first
\* sign-in fails half-way or two sign-ins meet; a login code lets at most one
\* request in, and a token that was handed out works unless a later login of
\* the account replaced the key.
THEOREM NoCodeCountsTwice == Spec => []CodesAreSpentOnce
  <1>1. AccountsFit => CodesAreSpentOnce
    BY BurnedFollows, OneLoginFollows DEF AccountsFit, CodesAreSpentOnce, RegistrationFits, LoginFits
  <1> QED
    BY <1>1, AccountsHold, PTL

\* Slugs and device names stay unique, and nothing refers to a logo, an
\* organization or a device that is gone, unless a failure the code accepts
\* is to blame.
THEOREM NothingDangles == Spec => []ReferencesAreSound
  <1>1. AccountsFit => ReferencesAreSound
    BY LogosShown DEF AccountsFit, ReferencesAreSound, OrgFits, DeviceFits, MembersFit
  <1> QED
    BY <1>1, AccountsHold, PTL

\* Once its requests are answered a page shows what the server has, and says
\* of the cache only what is so.
THEOREM QuietPagesTellTheTruth == Spec => []PagesAreTrue
  <1>1. AccountsFit => PagesAreTrue
    BY MemberPageFollows, DevicePageFollows, TeamPageFollows, ConsoleFollows DEF AccountsFit, PagesAreTrue
  <1> QED
    BY <1>1, AccountsHold, PTL

\* No step undoes what another actor did: a used invite stays used, a save
\* changes only typed fields, what carries the id of a revoked device is not
\* stored, a team is deleted only after the dialog said so or its members have
\* changed, and an outage takes no prices away.
THEOREM NobodysWorkIsUndone == Spec => OthersWorkIsKept
  <1>1. AccountsFit /\ [Next]_allVars =>
          [/\ (part = "registration" => KeepsUsed)
           /\ (part = "org" => OnlyTyped)
           /\ (part = "device" => IgnoresRevoked)
           /\ (part = "team" => ToldSo)
           /\ (part = "price" => KeptThroughOutage)]_allVars
    BY AccountsStep
  <1> QED
    BY <1>1, AccountsHold, PTL DEF Spec, OthersWorkIsKept
=============================================================================
