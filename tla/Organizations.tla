---------------------------- MODULE Organizations ----------------------------
(* The organizations and the page administrators edit them on: the form is   *)
(* filled from the row it was opened on, sends what differs from the row as  *)
(* it is now, and the routes look before they write.                         *)
EXTENDS Naturals

CONSTANTS
    Admin, Organization,
    Existing,  \* the organization there may be already
    Text,      \* names and slugs
    MaxSaves,  \* requests that create or update
    Closed     \* no form open, no request sent

VARIABLES
    org,          \* organizations
    rows,         \* the rows each administrator's page shows
    form,         \* the edit form of each page
    typedFields,  \* fields typed into since it was opened
    under,        \* fields whose row changed under the open form
    task,         \* the request each page has sent
    saves

orgVars == <<org, rows, form, typedFields, under, task, saves>>

Field == {"name", "slug"}
Absent == [live |-> FALSE, name |-> 0, slug |-> 0]
DeletedRow == [Absent EXCEPT !.name = Closed]
NoForm == [of |-> Closed, name |-> 0, slug |-> 0]
NoTask == [pc |-> "idle", of |-> Closed, name |-> 0, slug |-> 0, sent |-> {}, typed |-> {}]

OrgInit ==
    /\ org = [o \in Organization |-> IF o \in Existing THEN [live |-> TRUE, name |-> 1, slug |-> 1] ELSE Absent]
    /\ rows = [a \in Admin |-> org]
    /\ form = [a \in Admin |-> NoForm] /\ typedFields = [a \in Admin |-> {}]
    /\ under = [a \in Admin |-> {}] /\ task = [a \in Admin |-> NoTask] /\ saves = 0

Live == {o \in Organization : org[o].live}
Takes(slug, o) == \E p \in Live \ {o} : org[p].slug = slug

-----------------------------------------------------------------------------
\* The page: its rows are fetched again after every request and on focus, and
\* the open form keeps what it was filled with, unless its row is gone.
Fetch(a) ==
    LET o == form[a].of
    IN  /\ rows[a] # org /\ rows' = [rows EXCEPT ![a] = org]
        /\ IF o # Closed /\ org[o].live
             THEN /\ under' = [under EXCEPT ![a] = @ \cup {f \in Field : rows[a][o][f] # org[o][f]}]
                  /\ UNCHANGED <<form, typedFields>>
             ELSE /\ form' = [form EXCEPT ![a] = NoForm] /\ typedFields' = [typedFields EXCEPT ![a] = {}]
                  /\ under' = [under EXCEPT ![a] = {}]
        /\ UNCHANGED <<org, task, saves>>

OpenForm(a, o) ==
    /\ rows[a][o].live /\ form[a].of # o
    /\ form' = [form EXCEPT ![a] = [of |-> o, name |-> rows[a][o].name, slug |-> rows[a][o].slug]]
    /\ typedFields' = [typedFields EXCEPT ![a] = {}] /\ under' = [under EXCEPT ![a] = {}]
    /\ UNCHANGED <<org, rows, task, saves>>

CloseForm(a) ==
    /\ form[a] # NoForm /\ form' = [form EXCEPT ![a] = NoForm]
    /\ typedFields' = [typedFields EXCEPT ![a] = {}] /\ under' = [under EXCEPT ![a] = {}]
    /\ UNCHANGED <<org, rows, task, saves>>

TypeInto(a, f, t) ==
    /\ form[a].of # Closed /\ form[a][f] # t
    /\ form' = [form EXCEPT ![a][f] = t] /\ typedFields' = [typedFields EXCEPT ![a] = @ \cup {f}]
    /\ UNCHANGED <<org, rows, under, task, saves>>

WholeForm(a) == Field
Payload(a) == {f \in Field : form[a][f] # rows[a][form[a].of][f]}

SendTask(a, t) ==
    /\ task[a].pc = "idle" /\ saves < MaxSaves
    /\ task' = [task EXCEPT ![a] = t] /\ saves' = saves + 1

SaveForm(a) ==
    /\ form[a].of # Closed /\ rows[a][form[a].of].live /\ Payload(a) # {}
    /\ SendTask(a, [pc |-> "patch", of |-> form[a].of, name |-> form[a].name, slug |-> form[a].slug,
                    sent |-> Payload(a), typed |-> typedFields[a] \cup under[a]])
    /\ UNCHANGED <<org, rows, form, typedFields, under>>

\* The form derives the slug from the name as it is typed.
SubmitNew(a, o, slug) ==
    /\ org[o] = Absent /\ \A b \in Admin : task[b].of # o
    /\ SendTask(a, [pc |-> "post", of |-> o, name |-> slug, slug |-> slug,
                    sent |-> Field, typed |-> Field])
    /\ UNCHANGED <<org, rows, form, typedFields, under>>

-----------------------------------------------------------------------------
\* The routes. What they looked up may have changed when they write; the
\* index on the slug has the last word.
GotoTask(a, pc) == task' = [task EXCEPT ![a].pc = pc]
Refused(a) == task' = [task EXCEPT ![a] = NoTask]
Looked(slug, o) == TRUE
Storable(slug, o) == ~Takes(slug, o)

CheckNew(a) ==
    /\ task[a].pc = "post"
    /\ IF Takes(task[a].slug, task[a].of) THEN Refused(a) ELSE GotoTask(a, "insert")
    /\ UNCHANGED <<org, rows, form, typedFields, under, saves>>

InsertNew(a) ==
    LET t == task[a]
    IN  /\ t.pc = "insert" /\ Refused(a)
        /\ IF Storable(t.slug, t.of)
             THEN org' = [org EXCEPT ![t.of] = [live |-> TRUE, name |-> t.name, slug |-> t.slug]]
             ELSE UNCHANGED org
        /\ UNCHANGED <<rows, form, typedFields, under, saves>>

CheckEdit(a) ==
    LET t == task[a]
    IN  /\ t.pc = "patch"
        /\ IF t.of \in Live /\ ("slug" \in t.sent /\ t.slug # org[t.of].slug => ~Takes(t.slug, t.of))
             THEN GotoTask(a, "update") ELSE Refused(a)
        /\ UNCHANGED <<org, rows, form, typedFields, under, saves>>

Edited(row, t) ==
    [row EXCEPT !.name = IF "name" \in t.sent THEN t.name ELSE @,
                !.slug = IF "slug" \in t.sent THEN t.slug ELSE @]

\* A save that succeeds closes the form; no row is updated when it is gone.
UpdateRow(a) ==
    LET t == task[a]
    IN  /\ t.pc = "update" /\ Refused(a)
        /\ IF t.of \in Live /\ ("slug" \in t.sent => Storable(t.slug, t.of))
             THEN /\ org' = [org EXCEPT ![t.of] = Edited(@, t)]
                  /\ form' = [form EXCEPT ![a] = NoForm]
                  /\ typedFields' = [typedFields EXCEPT ![a] = {}] /\ under' = [under EXCEPT ![a] = {}]
             ELSE UNCHANGED <<org, form, typedFields, under>>
        /\ UNCHANGED <<rows, saves>>

DeleteOrganization(a, o) ==
    /\ rows[a][o].live /\ o \in Live
    /\ org' = [org EXCEPT ![o] = DeletedRow]
    /\ UNCHANGED <<rows, form, typedFields, under, task, saves>>

OrgNext ==
    \E a \in Admin :
        \/ Fetch(a) \/ CloseForm(a) \/ SaveForm(a)
        \/ CheckNew(a) \/ InsertNew(a) \/ CheckEdit(a) \/ UpdateRow(a)
        \/ \E f \in Field, t \in Text : TypeInto(a, f, t)
        \/ \E o \in Organization : OpenForm(a, o) \/ DeleteOrganization(a, o)
                                   \/ \E s \in Text : SubmitNew(a, o, s)

OrgSpec == OrgInit /\ [][OrgNext]_orgVars

-----------------------------------------------------------------------------
\* Two organizations never share a slug, although every route looks for it
\* well before it writes.
SlugsAreUnique == \A o \in Live : ~Takes(org[o].slug, o)

\* A save changes only fields the administrator typed into, so that what
\* another one saved meanwhile stays: but for a field whose row was fetched
\* again under the open form, which still holds the old text and takes it for
\* an edit.
OnlyTyped ==
    \A a \in Admin : task[a].pc = "update" /\ task'[a].pc = "idle" =>
        \A f \in Field : LET o == task[a].of IN
            org[o].live /\ org'[o][f] # org[o][f] => f \in task[a].typed
OthersEditsStay == [][OnlyTyped]_orgVars
=============================================================================
