---------------------------- MODULE AdminCompare ----------------------------
(* The administrators' comparison of users: one page to choose them, one with *)
(* a chart and a table of what they used, and the address that carries the   *)
(* choice from one to the other.  Usage goes on arriving all the while.      *)
EXTENDS Integers, Sequences, FiniteSets, SequencesExt, FiniteSetsExt

CONSTANTS Person, Source, Today, MaxChosen, MaxUse, MaxVisits

NoAnswer == [status |-> "none"]
AllSources == "all"

VARIABLES
    usage,     \* rows of the users: person, day and source
    page,      \* the page shown: to choose, or the result
    listed,    \* the users that the first page has loaded
    chosen,    \* the ids that are chosen, in order
    url,       \* the ids in the address
    filters,   \* the dates and the source of the second page
    answer,    \* what it shows
    visits     \* pages opened (bound)

compareVars == <<usage, page, listed, chosen, url, filters, answer, visits>>

DefaultFilters == [from |-> 0, to |-> Today, source |-> AllSources]

CompareInit ==
    /\ usage = {} /\ page = "choose" /\ listed = {} /\ chosen = <<>> /\ url = <<>>
    /\ filters = DefaultFilters /\ answer = NoAnswer /\ visits = 0

\* Usage of any of the last days arrives.
Use ==
    /\ Cardinality(usage) < MaxUse
    /\ \E p \in Person, d \in 0..Today, s \in Source : usage' = usage \cup {[who |-> p, day |-> d, source |-> s]}
    /\ UNCHANGED <<page, listed, chosen, url, filters, answer, visits>>

-----------------------------------------------------------------------------
(* Choosing.  The list holds who has used anything; it is sorted and         *)
(* filtered, and any of it can be brought up.                                *)

GetStorageStats == {u.who : u \in usage}

LoadList ==
    /\ page = "choose" /\ listed # GetStorageStats /\ listed' = GetStorageStats
    /\ UNCHANGED <<usage, page, chosen, url, filters, answer, visits>>

Toggled(ids, p) ==
    IF Contains(ids, p) THEN Remove(ids, p)
    ELSE IF Len(ids) >= MaxChosen THEN ids ELSE Append(ids, p)

ToggleUser ==
    /\ page = "choose" /\ \E p \in listed : chosen' = Toggled(chosen, p) /\ chosen' # chosen
    /\ UNCHANGED <<usage, page, listed, url, filters, answer, visits>>

\* The chips: ids of users that are not in the list have none.
SelectedUsers == SelectSeq(chosen, LAMBDA p : p \in listed)

ClearSelection ==
    /\ page = "choose" /\ SelectedUsers # <<>> /\ chosen' = <<>>
    /\ UNCHANGED <<usage, page, listed, url, filters, answer, visits>>

HandleCompare ==
    /\ page = "choose" /\ SelectedUsers # <<>> /\ Len(chosen) >= 2 /\ visits < MaxVisits
    /\ page' = "result" /\ url' = chosen /\ filters' = DefaultFilters /\ answer' = NoAnswer
    /\ visits' = visits + 1 /\ UNCHANGED <<usage, listed, chosen>>

\* The first page is opened anew, with the choice of the address.
Back ==
    /\ page = "result" /\ page' = "choose" /\ chosen' = url /\ listed' = {}
    /\ UNCHANGED <<usage, url, filters, answer, visits>>

-----------------------------------------------------------------------------
(* The answer: users in the order they were asked for, whatever order the    *)
(* database lists them in, and their rows within the dates.                  *)

AskedRows == {u \in usage : /\ \E i \in DOMAIN url : url[i] = u.who
                            /\ filters.from <= u.day /\ u.day < filters.to}

GetUsageComparison == {u \in AskedRows : filters.source \in {AllSources, u.source}}

Reordered(ids, stored) == SelectSeq(ids, LAMBDA p : Contains(stored, p))

Options == {u.source : u \in GetUsageComparison}

Compared(stored) ==
    IF Len(url) < 2 \/ Len(url) > MaxChosen \/ Len(Reordered(url, stored)) < 2 THEN [status |-> "refused"]
    ELSE [status |-> "ok", users |-> Reordered(url, stored),
          total |-> [p \in Person |-> Cardinality({u \in GetUsageComparison : u.who = p})],
          sources |-> Options, asked |-> filters, rows |-> GetUsageComparison]

Answer ==
    /\ page = "result"
    /\ \E stored \in SetToSeqs(Person) : answer' = Compared(stored)
    /\ answer' # answer
    /\ UNCHANGED <<usage, page, listed, chosen, url, filters, visits>>

\* A filter makes another key, whose answer is not there yet.
SetFilter ==
    /\ page = "result"
    /\ \/ \E d \in 0..Today : filters' = [filters EXCEPT !.from = d]
       \/ \E d \in 0..Today : filters' = [filters EXCEPT !.to = d]
       \/ answer.status = "ok" /\ \E s \in {AllSources} \cup answer.sources : filters' = [filters EXCEPT !.source = s]
    /\ filters' # filters /\ answer' = NoAnswer
    /\ UNCHANGED <<usage, page, listed, chosen, url, visits>>

CompareNext == Use \/ LoadList \/ ToggleUser \/ ClearSelection \/ HandleCompare \/ Back \/ Answer \/ SetFilter

CompareSpec == CompareInit /\ [][CompareNext]_compareVars

-----------------------------------------------------------------------------
(* Properties.                                                             *)

Color(seq, p) == CHOOSE i \in DOMAIN seq : seq[i] = p

\* What the first page lets through the server does not refuse: two to ten users,
\* each once.
NeverRefused == answer.status # "refused"

\* A user has one colour on both pages: its chip where it was chosen, and its line
\* and row in the result.
ColorsAgree ==
    page = "result" /\ answer.status = "ok" /\ listed # {} =>
        \A i \in DOMAIN SelectedUsers :
            LET p == SelectedUsers[i] IN Contains(answer.users, p) /\ Color(answer.users, p) = i

\* A source that the page offers for its dates has usage in them, so that choosing
\* it does not empty the page.
OfferedIsThere ==
    answer.status = "ok" => \A s \in answer.sources :
        \E u \in usage : u.source = s /\ answer.asked.from <= u.day /\ u.day < answer.asked.to
=============================================================================
