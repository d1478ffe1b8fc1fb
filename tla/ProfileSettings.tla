--------------------------- MODULE ProfileSettings ---------------------------
(* The settings page, the route that stores its fields, and the profile      *)
(* route that decides who may see the result.  The owner may have a second   *)
(* session (another tab, an API key); another user may want the same slug;   *)
(* a visitor reads the profile while all this goes on.                       *)
EXTENDS Naturals

CONSTANTS
    Slug,           \* slugs a user may take
    NoSlug,         \* no slug chosen, also: no request, no answer
    MaxChanges      \* bound: saves, second sessions, memberships changed

VARIABLES
    user, rival,        \* the owner's row; the slug of the other user
    loaded, form,       \* the page: what it compares with, what it shows
    patch,              \* the page's request
    reading,            \* a revalidation that has been answered, not yet arrived
    asked,              \* history: the owner has switched the form's switch on
    shared,             \* the visitor shares a team or a season with the owner
    visit, entitled,    \* the visitor's request; history: he was ever entitled to it
    changes

rows == <<user, rival>>
page == <<loaded, form, asked, patch, reading>>
visitor == <<visit, entitled>>
profileVars == <<rows, page, shared, visitor, changes>>

\* The nickname goes the way of the slug, without a check, and is left out.
Field == {"slug", "public"}
Private == [slug |-> NoSlug, public |-> FALSE]
Idle == [pc |-> "idle", sent |-> {}, fields |-> Private, asked |-> FALSE]
Change == changes < MaxChanges /\ changes' = changes + 1

ProfileInit ==
    /\ user \in {[Private EXCEPT !.public = p] : p \in BOOLEAN} /\ rival = NoSlug
    /\ loaded = user /\ form = user /\ patch = Idle /\ reading = Idle
    /\ asked = FALSE /\ shared = FALSE
    /\ visit = "away" /\ entitled = FALSE /\ changes = 0

\* Whether the visitor may see the profile is noted whenever it changes.
Entitles(u, s) == entitled' = (entitled \/ (visit # "away" /\ (u.public \/ s)))

-----------------------------------------------------------------------------
(* The page.                                                               *)

Type(f, v) ==
    /\ form[f] # v /\ form' = [form EXCEPT ![f] = v]
    /\ asked' = IF f = "public" THEN v ELSE asked
    /\ UNCHANGED <<rows, loaded, patch, reading, shared, visitor, changes>>

\* Only the fields that differ from what was loaded are sent.
Edited == {f \in Field : form[f] # loaded[f]}

Save ==
    /\ patch = Idle /\ Edited # {} /\ Change
    /\ patch' = [pc |-> "check", sent |-> Edited, fields |-> form, asked |-> asked]
    /\ UNCHANGED <<rows, loaded, form, asked, reading, shared, visitor>>
\* The answer becomes what the page compares with; of the form it sets the switch.
Answered(answer) == [form EXCEPT !.public = answer.public]

Saved ==
    /\ patch.pc = "answer" /\ loaded' = patch.fields /\ form' = Answered(patch.fields)
    /\ asked' = FALSE /\ patch' = Idle /\ reading' = Idle
    /\ UNCHANGED <<rows, shared, visitor, changes>>

\* Refused, or the connection broke: the page says so and keeps the form.
Failed ==
    /\ patch.pc \in {"refused", "answer"} /\ patch' = Idle
    /\ UNCHANGED <<rows, loaded, form, asked, reading, shared, visitor, changes>>

\* SWR reads again when the browser is back online.
Revalidate ==
    /\ reading = Idle /\ user # loaded /\ reading' = [Idle EXCEPT !.pc = "answer", !.fields = user]
    /\ UNCHANGED <<rows, loaded, form, asked, patch, shared, visitor, changes>>

\* New data replace the form, also what was typed.
Arrive ==
    /\ reading.pc = "answer" /\ reading' = Idle
    /\ IF reading.fields = loaded THEN UNCHANGED <<loaded, form, asked>>
       ELSE loaded' = reading.fields /\ form' = reading.fields /\ asked' = FALSE
    /\ UNCHANGED <<rows, patch, shared, visitor, changes>>

-----------------------------------------------------------------------------
(* PATCH /api/settings.                                                    *)

\* The slug is looked up before the update, and the column is unique.
Taken(u) == u.slug \in Slug \cap {rival}

Check ==
    /\ patch.pc = "check"
    /\ patch' = [patch EXCEPT !.pc = IF "slug" \in patch.sent /\ Taken(patch.fields) THEN "refused" ELSE "update"]
    /\ UNCHANGED <<rows, loaded, form, asked, reading, shared, visitor, changes>>

Stored(u, sent, fields) == [f \in Field |-> IF f \in sent THEN fields[f] ELSE u[f]]

Update ==
    /\ patch.pc = "update"
    /\ LET u == Stored(user, patch.sent, patch.fields)
       IN  IF Taken(u) THEN patch' = [patch EXCEPT !.pc = "refused"] /\ UNCHANGED <<user, entitled>>
           ELSE /\ user' = u /\ Entitles(u, shared)
                /\ patch' = [patch EXCEPT !.pc = "read"]
    /\ UNCHANGED <<rival, loaded, form, asked, reading, shared, visit, changes>>

\* The row is read again for the answer.
Read ==
    /\ patch.pc = "read" /\ patch' = [patch EXCEPT !.pc = "answer", !.fields = user]
    /\ UNCHANGED <<rows, loaded, form, asked, reading, shared, visitor, changes>>

\* The owner's second session changes one field.
Elsewhere(f, v) ==
    /\ user[f] # v /\ (f = "slug" => v \notin Slug \cap {rival}) /\ Change
    /\ user' = [user EXCEPT ![f] = v] /\ Entitles(user', shared)
    /\ UNCHANGED <<rival, page, shared, visit>>

\* The other user takes a slug that is free.
Take(s) ==
    /\ rival # s /\ s \notin Slug \cap {user.slug} /\ Change /\ rival' = s
    /\ UNCHANGED <<user, page, shared, visitor>>

-----------------------------------------------------------------------------
(* GET /api/users/[slug].                                                  *)

\* The visitor knows the owner's id or a slug that is his at the moment.
Reached == IF user.public THEN "allowed" ELSE "private"

Lookup ==
    /\ visit = "away" /\ visit' = Reached
    /\ entitled' = (user.public \/ shared)
    /\ UNCHANGED <<rows, page, shared, changes>>

\* Mutant: a lookup that fails does not stop him.
MayBypassOnError(failed) == failed \/ shared
\* canBypassPublic: a lookup that fails counts as nothing shared.
MayBypass(failed) == ~failed /\ shared

Bypass ==
    /\ visit = "private"
    /\ \E failed \in BOOLEAN : visit' = (IF MayBypass(failed) THEN "allowed" ELSE "hidden")
    /\ UNCHANGED <<rows, page, shared, entitled, changes>>

Show ==
    /\ visit = "allowed" /\ visit' = "shown"
    /\ UNCHANGED <<rows, page, shared, entitled, changes>>

Mingle ==
    /\ Change /\ shared' = ~shared /\ Entitles(user, shared')
    /\ UNCHANGED <<rows, page, visit>>

ProfileNext ==
    \/ \E v \in BOOLEAN : Type("public", v) \/ Elsewhere("public", v)
    \/ \E s \in Slug \cup {NoSlug} : Type("slug", s) \/ Elsewhere("slug", s) \/ Take(s)
    \/ Save \/ Saved \/ Failed \/ Revalidate \/ Arrive
    \/ Check \/ Update \/ Read
    \/ Lookup \/ Bypass \/ Show \/ Mingle

ProfileSpec == ProfileInit /\ [][ProfileNext]_profileVars

-----------------------------------------------------------------------------
(* Properties.                                                             *)

\* A profile somebody made private in one session is not published by a save
\* in another whose page does not know it yet: only one whose owner has turned
\* the switch on publishes it.
NeverRepublished ==
    ~user.public /\ patch.pc = "update" /\ "public" \in patch.sent /\ patch.fields.public => patch.asked

\* A profile is shown to a visitor who was entitled to it at some moment of his
\* request, and to nobody because a check of his memberships failed.
HiddenFromStrangers == visit = "shown" => entitled
=============================================================================
