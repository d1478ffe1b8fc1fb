------------------------------- MODULE Devices -------------------------------
(* A user's devices: the records that uploads create, the names and the      *)
(* revocations kept beside them, and the page that edits them, open in       *)
(* several tabs that learn of each other's changes only by fetching again.   *)
EXTENDS FiniteSets, FiniteSetsExt, Integers

CONSTANTS
    Device,
    DefaultDevice,  \* of Device: the device of records that carry no device id
    Name, Folded,   \* names, and what is left of one when case is ignored
    Tab,
    DeviceRequest,  \* requests that may be under way at once
    MaxDeviceClicks, MaxUploads, MaxDeviceFailures,
    NoDevice

VARIABLES
    records,         \* device_records
    alias, revoked,  \* device_aliases, device_revocations
    uploads,         \* what was stored for each device
    deviceShown,     \* the list each tab shows
    field,           \* the name field that is open in a tab
    deviceRequest,
    deviceNewest,    \* the fetch of each tab whose answer will be kept
    deviceClicks, deviceFailures,
    deviceUnseen,    \* history: devices a tab changed and has not read since
    untold,          \* history: those whose answer never reached the tab
    crossed          \* history: devices named while they were being deleted

serverVars == <<records, alias, revoked, uploads, crossed>>
tabVars == <<deviceShown, field, deviceNewest>>
deviceVars == <<serverVars, tabVars, deviceRequest, deviceClicks, deviceFailures, deviceUnseen, untold>>

NoField == [dev |-> NoDevice, text |-> NoDevice, typed |-> FALSE]
NoRequest == [pc |-> "idle", tab |-> NoDevice, dev |-> NoDevice, kind |-> NoDevice, name |-> NoDevice,
              typed |-> TRUE, list |-> <<>>, lacks |-> {}]

Listing == [d \in records |-> [alias |-> alias[d], revoked |-> d \in revoked]]

DeviceInit ==
    /\ records = Device /\ alias = [d \in Device |-> NoDevice] /\ revoked = {}
    /\ uploads = [d \in Device |-> 0]
    /\ deviceShown = [t \in Tab |-> Listing] /\ field = [t \in Tab |-> NoField]
    /\ deviceRequest = [r \in DeviceRequest |-> NoRequest] /\ deviceNewest = [t \in Tab |-> NoDevice]
    /\ deviceClicks = 0 /\ deviceFailures = 0
    /\ deviceUnseen = [t \in Tab |-> {}] /\ untold = [t \in Tab |-> {}] /\ crossed = {}

-----------------------------------------------------------------------------
\* Uploads. A tagged record of a revoked device is ignored; one without a
\* device id is stored whatever became of the default device, but only a
\* device that is not revoked is registered.
Accepts(d, tagged) == tagged => d \notin revoked

UploadFrom(d, tagged) ==
    /\ MapThenSumSet(LAMBDA e : uploads[e], Device) < MaxUploads /\ (tagged \/ d = DefaultDevice) /\ Accepts(d, tagged)
    /\ uploads' = [uploads EXCEPT ![d] = @ + 1]
    /\ records' = IF d \in revoked THEN records ELSE records \cup {d}
    /\ crossed' = crossed \ records'
    /\ UNCHANGED <<alias, revoked, tabVars, deviceRequest, deviceClicks, deviceFailures, deviceUnseen, untold>>

-----------------------------------------------------------------------------
\* The cards of a tab.
Family(kind) == IF kind \in {"revoke", "restore"} THEN "status" ELSE kind
Busy(t, d, kind) ==
    \E r \in DeviceRequest : /\ deviceRequest[r].pc # "idle" /\ deviceRequest[r].tab = t
                             /\ deviceRequest[r].dev = d /\ Family(deviceRequest[r].kind) = Family(kind)

Clicked == deviceClicks < MaxDeviceClicks /\ deviceClicks' = deviceClicks + 1

SendDevice(t, d, kind, name, typed) ==
    \E r \in DeviceRequest :
        /\ deviceRequest[r].pc = "idle"
        /\ deviceRequest' = [deviceRequest EXCEPT ![r] = [NoRequest EXCEPT !.pc = "sent", !.tab = t,
                                  !.dev = d, !.kind = kind, !.name = name, !.typed = typed]]

ClickStatus(t, d) ==
    LET kind == IF deviceShown[t][d].revoked THEN "restore" ELSE "revoke"
    IN  /\ d \in DOMAIN deviceShown[t] /\ ~Busy(t, d, kind) /\ SendDevice(t, d, kind, NoDevice, TRUE) /\ Clicked
        /\ UNCHANGED <<serverVars, tabVars, deviceFailures, deviceUnseen, untold>>

ClickDelete(t, d) ==
    /\ d \in DOMAIN deviceShown[t] /\ ~Busy(t, d, "delete") /\ SendDevice(t, d, "delete", NoDevice, TRUE) /\ Clicked
    /\ UNCHANGED <<serverVars, tabVars, deviceFailures, deviceUnseen, untold>>

StartEdit(t, d) ==
    /\ field[t].dev = NoDevice /\ d \in DOMAIN deviceShown[t] /\ Clicked
    /\ field' = [field EXCEPT ![t] = [NoField EXCEPT !.dev = d, !.text = deviceShown[t][d].alias]]
    /\ UNCHANGED <<serverVars, deviceShown, deviceNewest, deviceRequest, deviceFailures, deviceUnseen, untold>>

TypeName(t, name) ==
    /\ field[t].dev # NoDevice /\ ~Busy(t, field[t].dev, "name") /\ name # field[t].text
    /\ field' = [field EXCEPT ![t].text = name, ![t].typed = TRUE]
    /\ UNCHANGED <<serverVars, deviceShown, deviceNewest, deviceRequest, deviceClicks, deviceFailures, deviceUnseen, untold>>

Escape(t) ==
    /\ field[t].dev # NoDevice /\ ~Busy(t, field[t].dev, "name")
    /\ field' = [field EXCEPT ![t] = NoField]
    /\ UNCHANGED <<serverVars, deviceShown, deviceNewest, deviceRequest, deviceClicks, deviceFailures, deviceUnseen, untold>>

\* Enter, or the field loses the focus: an empty or unchanged name is dropped.
Worth(t) == field[t].text # NoDevice /\ field[t].text # deviceShown[t][field[t].dev].alias

SaveName(t) ==
    LET f == field[t]
    IN  /\ f.dev # NoDevice /\ ~Busy(t, f.dev, "name")
        /\ IF Worth(t) THEN SendDevice(t, f.dev, "name", f.text, f.typed) /\ UNCHANGED field
                       ELSE field' = [field EXCEPT ![t] = NoField] /\ UNCHANGED deviceRequest
        /\ UNCHANGED <<serverVars, deviceShown, deviceNewest, deviceClicks, deviceFailures, deviceUnseen, untold>>

-----------------------------------------------------------------------------
\* The server. Naming a device looks twice before it writes; the other
\* requests are one statement each.
DeviceExists(d) == d \in records \/ alias[d] # NoDevice
Taken(d, name) == \E e \in Device \ {d} : alias[e] # NoDevice /\ Folded[alias[e]] = Folded[name]

GotoDevice(r, pc) == deviceRequest' = [deviceRequest EXCEPT ![r].pc = pc]

LookDevice(r) ==
    LET q == deviceRequest[r]
    IN  /\ q.kind = "name"
        /\ \/ q.pc = "sent" /\ GotoDevice(r, IF DeviceExists(q.dev) THEN "exists" ELSE "refused")
           \/ q.pc = "exists" /\ GotoDevice(r, IF Taken(q.dev, q.name) THEN "refused" ELSE "free")
        /\ UNCHANGED <<serverVars, tabVars, deviceClicks, deviceFailures, deviceUnseen, untold>>

\* What a tab has changed it has to read again; a list it is still waiting for
\* was read before.
Wrote(r) ==
    LET q == deviceRequest[r]
    IN  /\ deviceRequest' = [x \in DeviceRequest |-> IF x = r THEN [q EXCEPT !.pc = "done"]
                               ELSE IF deviceRequest[x].tab = q.tab
                                       /\ deviceRequest[x].pc = "read"
                                    THEN [deviceRequest[x] EXCEPT !.lacks = @ \cup {q.dev}] ELSE deviceRequest[x]]
        /\ deviceUnseen' = [deviceUnseen EXCEPT ![q.tab] = @ \cup {q.dev}]

\* The unique index on the folded name has the last word.
NameStorable(d, name) == ~Taken(d, name)

WriteName(r) ==
    LET q == deviceRequest[r]
    IN  /\ q.pc = "free"
        /\ IF NameStorable(q.dev, q.name)
             THEN /\ alias' = [alias EXCEPT ![q.dev] = q.name] /\ Wrote(r)
                  /\ crossed' = crossed \cup ({q.dev} \ records)
             ELSE GotoDevice(r, "refused") /\ UNCHANGED <<alias, crossed, deviceUnseen>>
        /\ UNCHANGED <<records, revoked, uploads, tabVars, deviceClicks, deviceFailures, untold>>

WriteStatus(r) ==
    LET q == deviceRequest[r]
    IN  /\ q.pc = "sent" /\ Family(q.kind) = "status" /\ Wrote(r)
        /\ revoked' = IF q.kind = "revoke" THEN revoked \cup {q.dev} ELSE revoked \ {q.dev}
        /\ UNCHANGED <<records, alias, uploads, crossed, tabVars, deviceClicks, deviceFailures, untold>>

\* A trigger removes the name with the record, if there still was one.
NameGoes(d) == IF d \in records THEN [alias EXCEPT ![d] = NoDevice] ELSE alias

Delete(r) ==
    LET q == deviceRequest[r]
    IN  /\ q.pc = "sent" /\ q.kind = "delete" /\ Wrote(r)
        /\ records' = records \ {q.dev} /\ alias' = NameGoes(q.dev)
        /\ UNCHANGED <<revoked, uploads, crossed, tabVars, deviceClicks, deviceFailures, untold>>

-----------------------------------------------------------------------------
\* The answer. Success fetches the list again before the card is released; a
\* refusal, or an answer that got lost, shows an error and fetches nothing.
DeviceAnswered(r) ==
    LET q == deviceRequest[r]
    IN  /\ \/ /\ q.pc = "done" /\ GotoDevice(r, "fetch") /\ deviceNewest' = [deviceNewest EXCEPT ![q.tab] = r]
              /\ UNCHANGED <<deviceFailures, untold>>
           \/ /\ q.pc = "refused" /\ deviceRequest' = [deviceRequest EXCEPT ![r] = NoRequest]
              /\ UNCHANGED <<deviceNewest, deviceFailures, untold>>
           \/ /\ q.pc = "done" /\ deviceFailures < MaxDeviceFailures /\ deviceFailures' = deviceFailures + 1
              /\ deviceRequest' = [deviceRequest EXCEPT ![r] = NoRequest]
              /\ untold' = [untold EXCEPT ![q.tab] = @ \cup {q.dev}]
              /\ UNCHANGED deviceNewest
        /\ UNCHANGED <<serverVars, deviceShown, field, deviceClicks, deviceUnseen>>

ReadDevices(r) ==
    /\ deviceRequest[r].pc = "fetch"
    /\ deviceRequest' = [deviceRequest EXCEPT ![r].pc = "read", ![r].list = Listing]
    /\ UNCHANGED <<serverVars, tabVars, deviceClicks, deviceFailures, deviceUnseen, untold>>

\* The card is released, and its name field closed.
Released(r) ==
    LET q == deviceRequest[r]
    IN  IF q.kind = "name" /\ field[q.tab].dev = q.dev THEN NoField ELSE field[q.tab]

LoseList(r) ==
    LET q == deviceRequest[r]
    IN  /\ q.pc = "fetch" /\ deviceFailures < MaxDeviceFailures /\ deviceFailures' = deviceFailures + 1
        /\ deviceRequest' = [deviceRequest EXCEPT ![r] = NoRequest]
        /\ field' = [field EXCEPT ![q.tab] = Released(r)]
        /\ untold' = [untold EXCEPT ![q.tab] = @ \cup deviceUnseen[q.tab]]
        /\ UNCHANGED <<serverVars, deviceShown, deviceNewest, deviceClicks, deviceUnseen>>

\* A field stays open over a new list, unless its card is gone; its text then
\* differs from the name shown as if it had been typed.
Over(t, f, list) ==
    IF f.dev = NoDevice \/ f.dev \notin DOMAIN list THEN NoField
    ELSE [f EXCEPT !.typed = @ \/ list[f.dev].alias # deviceShown[t][f.dev].alias]

\* The answer to a fetch that a newer one has overtaken is thrown away.
Keeps(r) == deviceNewest[deviceRequest[r].tab] = r

Arrive(r) ==
    LET q == deviceRequest[r]
        t == q.tab
    IN  /\ q.pc = "read" /\ deviceRequest' = [deviceRequest EXCEPT ![r] = NoRequest]
        /\ IF Keeps(r)
             THEN /\ deviceShown' = [deviceShown EXCEPT ![t] = q.list]
                  /\ field' = [field EXCEPT ![t] = Over(t, Released(r), q.list)]
                  /\ deviceUnseen' = [deviceUnseen EXCEPT ![t] = q.lacks]
                  /\ untold' = [untold EXCEPT ![t] = @ \cap q.lacks]
             ELSE field' = [field EXCEPT ![t] = Released(r)] /\ UNCHANGED <<deviceShown, deviceUnseen, untold>>
        /\ UNCHANGED <<serverVars, deviceNewest, deviceClicks, deviceFailures>>

Fetching(t) == \E r \in DeviceRequest : deviceRequest[r].tab = t /\ deviceRequest[r].pc \in {"fetch", "read"}

FocusDevices(t) ==
    /\ ~Fetching(t) /\ (deviceShown[t] # Listing \/ untold[t] # {})
    /\ deviceShown' = [deviceShown EXCEPT ![t] = Listing]
    /\ field' = [field EXCEPT ![t] = Over(t, @, Listing)]
    /\ deviceUnseen' = [deviceUnseen EXCEPT ![t] = {}] /\ untold' = [untold EXCEPT ![t] = {}]
    /\ UNCHANGED <<serverVars, deviceNewest, deviceRequest, deviceClicks, deviceFailures>>

DeviceNext ==
    \/ \E d \in Device, tagged \in BOOLEAN : UploadFrom(d, tagged)
    \/ \E t \in Tab :
        \/ \E d \in Device : ClickStatus(t, d) \/ ClickDelete(t, d) \/ StartEdit(t, d)
        \/ \E name \in Name : TypeName(t, name)
        \/ Escape(t) \/ SaveName(t) \/ FocusDevices(t)
    \/ \E r \in DeviceRequest :
        \/ LookDevice(r) \/ WriteName(r) \/ WriteStatus(r) \/ Delete(r)
        \/ DeviceAnswered(r) \/ ReadDevices(r) \/ LoseList(r) \/ Arrive(r)

DeviceSpec == DeviceInit /\ [][DeviceNext]_deviceVars

-----------------------------------------------------------------------------
\* Two devices never carry names that differ by case only, whichever tabs
\* named them at once.
NamesUnique ==
    \A d, e \in Device :
        d # e /\ alias[d] # NoDevice /\ alias[e] # NoDevice => Folded[alias[d]] # Folded[alias[e]]

\* A name is held by a device that is not listed, where nobody can see it or
\* free it, only if the device was named while it was being deleted.
HiddenNamesCrossed == \A d \in Device \ records : alias[d] # NoDevice => d \in crossed

\* Once its cards are at rest a tab has read the list after everything it did,
\* unless it was told of a failure: overlapping fetches never leave the older
\* list on the page.
OwnWorkShown ==
    \A t \in Tab : (\A r \in DeviceRequest : deviceRequest[r].tab # t) => deviceUnseen[t] \subseteq untold[t]

\* Leaving the name field sends a name only if the user typed it, or the list
\* was replaced under the open field, whose text then undoes the new name.
OnlyTypedNames == \A r \in DeviceRequest : deviceRequest[r].typed

\* While a device is revoked nothing that carries its id is stored, and it
\* does not come back to the list.
IgnoresRevoked ==
    \A d \in revoked : /\ uploads'[d] # uploads[d] => d = DefaultDevice /\ UploadFrom(d, FALSE)
                       /\ d \in records' => d \in records
RevokedAddsNothing == [][IgnoresRevoked]_deviceVars
=============================================================================
