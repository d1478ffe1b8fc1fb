------------------------------ MODULE LogoStore ------------------------------
(* The logos of teams and organizations: an object in R2 under a name of its *)
(* own for every upload (web/lib/r2.ts), and the URL of one of them in the   *)
(* row. The two routes write the two stores one after the other.             *)
EXTENDS Naturals

CONSTANTS
    LogoTeam, LogoOrg,  \* the rows that can have a logo
    LogoUpload,         \* requests, an upload's being the name of its object too
    MaxLogoFailures,    \* calls that fail, having taken effect or not
    NoLogo

VARIABLES
    logo,         \* logo_url of each row
    ownerGone,    \* rows deleted
    objects,      \* objects in the bucket
    logoRequest,  \* where each request stands, and the URL it read
    logoFailures,
    lost,         \* uploads whose write was reported failed and took effect
    spilled,      \* objects a failed call left behind
    logoUnseen    \* URLs overwritten by a request that had read another

logoVars == <<logo, ownerGone, objects, logoRequest, logoFailures, lost, spilled, logoUnseen>>

LogoInit ==
    /\ logo = [e \in LogoTeam \cup LogoOrg |-> NoLogo] /\ ownerGone = {} /\ objects = {}
    /\ logoRequest = [r \in LogoUpload |-> [pc |-> "new", of |-> NoLogo, old |-> NoLogo]]
    /\ logoFailures = 0 /\ lost = {} /\ spilled = {} /\ logoUnseen = {}

LogoAt(r, pc) == logoRequest[r].pc = pc
Go(r, pc) == logoRequest' = [logoRequest EXCEPT ![r].pc = pc]
Ask(r, e, pc, old) == logoRequest' = [logoRequest EXCEPT ![r] = [pc |-> pc, of |-> e, old |-> old]]
Failing == logoFailures < MaxLogoFailures /\ logoFailures' = logoFailures + 1

-----------------------------------------------------------------------------
\* The checks of an upload: the caller and the row, the form and the image.
PostTeamLogo(r, e) ==
    /\ LogoAt(r, "new") /\ e \in LogoTeam \ ownerGone /\ Ask(r, e, "put", NoLogo)
    /\ UNCHANGED <<logo, ownerGone, objects, logoFailures, lost, spilled, logoUnseen>>

PostOrgLogo(r, e) ==
    /\ LogoAt(r, "new") /\ e \in LogoOrg \ ownerGone /\ Ask(r, e, "put", NoLogo)
    /\ UNCHANGED <<logo, ownerGone, objects, logoFailures, lost, spilled, logoUnseen>>

\* A removal reads the URL it will delete before it clears the row.
DeleteTeamLogo(r, e) ==
    /\ LogoAt(r, "new") /\ e \in LogoTeam \ ownerGone /\ Ask(r, e, "clear", logo[e])
    /\ UNCHANGED <<logo, ownerGone, objects, logoFailures, lost, spilled, logoUnseen>>

DeleteOrgLogo(r, e) ==
    /\ LogoAt(r, "new") /\ e \in LogoOrg \ ownerGone /\ Ask(r, e, "clear", logo[e])
    /\ UNCHANGED <<logo, ownerGone, objects, logoFailures, lost, spilled, logoUnseen>>

DeleteOwner(e) ==
    /\ e \notin ownerGone /\ ownerGone' = ownerGone \cup {e}
    /\ UNCHANGED <<logo, objects, logoRequest, logoFailures, lost, spilled, logoUnseen>>

-----------------------------------------------------------------------------
\* putTeamLogo, putOrgLogo; a failed one may have stored the object.
PutObject(r) ==
    /\ LogoAt(r, "put")
    /\ \/ objects' = objects \cup {r} /\ Go(r, "read") /\ UNCHANGED <<logoFailures, spilled>>
       \/ Failing /\ Go(r, "done") /\ \/ UNCHANGED <<objects, spilled>>
                                      \/ objects' = objects \cup {r} /\ spilled' = spilled \cup {r}
    /\ UNCHANGED <<logo, ownerGone, lost, logoUnseen>>

Current(e) == IF e \in ownerGone THEN NoLogo ELSE logo[e]

ReadOld(r) ==
    /\ LogoAt(r, "read")
    /\ \/ Ask(r, logoRequest[r].of, "save", Current(logoRequest[r].of)) /\ UNCHANGED logoFailures
       \/ Failing /\ Go(r, "undo")
    /\ UNCHANGED <<logo, ownerGone, objects, lost, spilled, logoUnseen>>

\* UPDATE ... SET logo_url; it touches nothing when the row is gone.
WriteLogo(r, url) ==
    LET e == logoRequest[r].of
    IN  IF e \in ownerGone THEN UNCHANGED <<logo, logoUnseen>>
        ELSE /\ logo' = [logo EXCEPT ![e] = url]
             /\ logoUnseen' = IF logo[e] = logoRequest[r].old THEN logoUnseen ELSE logoUnseen \cup {logo[e]}

\* The compensation removes what this upload stored, the removal of the old
\* object what it replaced: neither is tried again.
Compensated(r) == {r}
Replaced(r) == {logoRequest[r].old}

SaveLogo(r) ==
    /\ LogoAt(r, "save")
    /\ \/ WriteLogo(r, r) /\ Go(r, "sweep") /\ UNCHANGED <<logoFailures, lost, spilled>>
       \/ Failing /\ Go(r, "undo")
          /\ \/ UNCHANGED <<logo, logoUnseen, lost>>
                /\ UNCHANGED spilled
             \/ WriteLogo(r, r) /\ lost' = lost \cup {r} /\ spilled' = spilled \cup Replaced(r)
    /\ UNCHANGED <<ownerGone, objects>>

RemoveObjects(urls) ==
    \/ objects' = objects \ urls /\ UNCHANGED <<logoFailures, spilled>>
    \/ urls # {NoLogo} /\ Failing
       /\ \/ UNCHANGED objects /\ spilled' = spilled \cup urls
          \/ objects' = objects \ urls /\ UNCHANGED spilled

Undo(r) ==
    /\ LogoAt(r, "undo") /\ RemoveObjects(Compensated(r)) /\ Go(r, "done")
    /\ UNCHANGED <<logo, ownerGone, lost, logoUnseen>>

Sweep(r) ==
    /\ LogoAt(r, "sweep") /\ RemoveObjects(Replaced(r)) /\ Go(r, "done")
    /\ UNCHANGED <<logo, ownerGone, lost, logoUnseen>>

\* The row first; when that fails the bucket is left alone.
Clear(r) ==
    /\ LogoAt(r, "clear")
    /\ \/ WriteLogo(r, NoLogo) /\ Go(r, "sweep") /\ UNCHANGED <<logoFailures, spilled>>
       \/ /\ Failing /\ Go(r, "done") /\ spilled' = spilled \cup Replaced(r)
          /\ UNCHANGED <<logo, logoUnseen>> \/ WriteLogo(r, NoLogo)
    /\ UNCHANGED <<ownerGone, objects, lost>>

LogoNext ==
    \/ \E r \in LogoUpload :
        \/ \E e \in LogoTeam : PostTeamLogo(r, e) \/ DeleteTeamLogo(r, e)
        \/ \E e \in LogoOrg : PostOrgLogo(r, e) \/ DeleteOrgLogo(r, e)
        \/ PutObject(r) \/ ReadOld(r) \/ SaveLogo(r) \/ Undo(r) \/ Sweep(r) \/ Clear(r)
    \/ \E e \in LogoTeam \cup LogoOrg : DeleteOwner(e)

LogoSpec == LogoInit /\ [][LogoNext]_logoVars

-----------------------------------------------------------------------------
Shown == {logo[e] : e \in (LogoTeam \cup LogoOrg) \ ownerGone} \ {NoLogo}

\* A row never refers to an object that is not there, however uploads and
\* removals overlap and whichever calls fail, but for an upload whose write
\* took effect although it was reported as failed: the compensation then
\* deletes the object the row refers to.
NoDanglingLogo == Shown \ lost \subseteq objects

\* With no request under way an object no row refers to is one that a failed
\* call left, that was overwritten unseen by an overlapping request, or whose
\* row was deleted.
LeaksAreExplained ==
    (\A r \in LogoUpload : logoRequest[r].pc \in {"new", "done"}) =>
        objects \ Shown \subseteq spilled \cup logoUnseen
            \cup {r \in LogoUpload : logoRequest[r].of \in ownerGone}
=============================================================================
