------------------------------ MODULE WebIngest ------------------------------
(***************************************************************************)
(* An upload of accounting details on its way: the client's batches and    *)
(* retries, the web route that checks them and forwards what it has        *)
(* checked, the worker that checks again and stores a batch in one         *)
(* transaction, and the receipts on their way back.  A record is the       *)
(* revision of its key; its kind says how the checks see it.               *)
(***************************************************************************)
EXTENDS Integers, Sequences, FiniteSets, SequencesExt, FiniteSetTheorems, TLAPS

CONSTANTS
    Key,            \* annotated rows of one device
    Kind,           \* [Key -> {"active", "retired", "invalid"}]
    BatchSize,      \* maxBatchSize of the client's engine
    MaxAttempts,    \* maxRetries + 1
    Request,        \* requests under way at a time
    MaxLearns,      \* bound: revisions the client makes
    MaxTroubles,    \* bound: refusals, failures, lost answers, late rows, revocations
    None

VARIABLES
    rev, dirty,             \* the ledger's revisions (0: no record) and dirty keys
    marked,                 \* rows still to upload
    todo, batch, attempts,  \* the upload: keys not sent yet, the batch being sent
    mine,                   \* the request the client waits for
    base, details, revoked, \* the server: revision of each row, of each annotation
    req,                    \* the requests under way
    troubles

client == <<rev, dirty, marked, todo, batch, attempts, mine>>
store == <<base, details, revoked>>
ingestVars == <<client, store, req, troubles>>

Free == [pc |-> "free", records |-> <<>>, slots |-> <<>>, status |-> 0, acks |-> <<>>]
Trouble == troubles < MaxTroubles /\ troubles' = troubles + 1
Idle == todo = {} /\ batch = <<>>

IngestInit ==
    /\ rev = [k \in Key |-> 0] /\ dirty = {} /\ marked = {} /\ todo = {} /\ batch = <<>> /\ attempts = 0 /\ mine = None
    /\ base = rev /\ details = rev /\ revoked = FALSE
    /\ req = [r \in Request |-> Free] /\ troubles = 0

-----------------------------------------------------------------------------
(* The client.  state.lock: no sync during an upload.                      *)

Learns == MapThenSumSet(LAMBDA k : rev[k], Key)

Learn(k) ==
    /\ Idle /\ Learns < MaxLearns
    /\ rev' = [rev EXCEPT ![k] = @ + 1] /\ dirty' = dirty \cup {k} /\ marked' = marked \cup {k}
    /\ UNCHANGED <<todo, batch, attempts, mine, store, req, troubles>>

\* The rows go first; the route stores none for a revoked device.
StartUpload ==
    /\ Idle /\ dirty # {} /\ todo' = dirty
    /\ base' = [k \in Key |-> IF k \in marked /\ ~revoked THEN rev[k] ELSE base[k]] /\ marked' = {}
    /\ UNCHANGED <<rev, dirty, batch, attempts, mine, details, revoked, req, troubles>>

NextBatch ==
    /\ batch = <<>> /\ todo # {}
    /\ \E S \in SUBSET todo :
         /\ Cardinality(S) = BatchSize \/ (S = todo /\ Cardinality(S) < BatchSize)
         /\ batch' \in SetToSeqs(S)
         /\ todo' = todo \ S
    /\ attempts' = 0
    /\ UNCHANGED <<rev, dirty, marked, mine, store, req, troubles>>

Send(r) ==
    /\ batch # <<>> /\ mine = None /\ attempts < MaxAttempts /\ req[r] = Free
    /\ req' = [req EXCEPT ![r] = [Free EXCEPT !.pc = "sent",
                                              !.records = [i \in DOMAIN batch |-> [key |-> batch[i], rev |-> rev[batch[i]]]]]]
    /\ mine' = r /\ attempts' = attempts + 1
    /\ UNCHANGED <<rev, dirty, marked, todo, batch, store, troubles>>

Failed == todo' = {} /\ batch' = <<>>

\* Nothing came back: the request may still be on its way.
GiveUp ==
    /\ Trouble /\ mine # None /\ mine' = None
    /\ IF attempts = MaxAttempts THEN Failed ELSE UNCHANGED <<todo, batch>>
    /\ UNCHANGED <<rev, dirty, marked, attempts, store, req>>

Good == {"applied", "duplicate", "superseded"}

\* validateResponse of the details upload.
Acknowledged(acks, records) ==
    /\ Len(acks) = Len(records)
    /\ \A i \in DOMAIN records :
         acks[i].key = records[i].key /\ acks[i].rev = records[i].rev /\ acks[i].status \in Good

Retried(status) == status = 429 \/ status >= 500

\* Only after the last batch are the marks dropped.
TakeAnswer ==
    /\ mine # None /\ req[mine].pc = "answered"
    /\ LET a == req[mine]
       IN  IF a.status = 200 /\ Acknowledged(a.acks, a.records)
           THEN /\ batch' = <<>> /\ dirty' = IF todo = {} THEN {} ELSE dirty
                /\ UNCHANGED todo
           ELSE /\ UNCHANGED dirty
                /\ IF a.status # 200 /\ Retried(a.status) /\ attempts < MaxAttempts
                   THEN UNCHANGED <<todo, batch>> ELSE Failed
    /\ req' = [req EXCEPT ![mine] = Free] /\ mine' = None
    /\ UNCHANGED <<rev, marked, attempts, store, troubles>>

-----------------------------------------------------------------------------
(* The web route.                                                          *)

Answer(r, status, acks) == req' = [req EXCEPT ![r].pc = "answered", ![r].status = status, ![r].acks = acks]

\* No user, the rate limit, an old client, a body that is too large.
Turn(r) ==
    /\ Trouble /\ req[r].pc = "sent"
    /\ \E status \in {401, 429, 400, 413} : Answer(r, status, <<>>)
    /\ UNCHANGED <<client, store>>

Ack(record, status) == [key |-> record.key, rev |-> record.rev, status |-> status]
Retired(record) == Kind[record.key] = "retired"
Valid(record) == Kind[record.key] # "invalid"
Passed(records) == {i \in DOMAIN records : ~Retired(records[i])}

\* A record's slot: its place among the forwarded ones.
ForwardedSlot(records, i) == Cardinality({j \in Passed(records) : j <= i})
Checked(records) ==
    [n \in 1..Cardinality(Passed(records)) |->
        records[CHOOSE i \in Passed(records) : ForwardedSlot(records, i) = n]]
Slots(records) == [i \in DOMAIN records |-> IF Retired(records[i]) THEN 0 ELSE ForwardedSlot(records, i)]

Undefined == [key |-> None, rev |-> 0, status |-> "undefined"]

\* withRetiredReceipts: the route answers for a retired tool itself.
Merged(records, slots, acks) ==
    [i \in DOMAIN records |->
        IF Retired(records[i]) THEN Ack(records[i], "superseded")
        ELSE IF slots[i] \in DOMAIN acks THEN acks[slots[i]] ELSE Undefined]

\* One invalid record refuses the batch; a batch of retired ones goes no further.
Check(r) ==
    LET records == req[r].records
    IN  /\ req[r].pc = "sent"
        /\ IF \E i \in DOMAIN records : ~Valid(records[i]) THEN Answer(r, 400, <<>>)
           ELSE IF Checked(records) = <<>> THEN Answer(r, 200, Merged(records, Slots(records), <<>>))
           ELSE req' = [req EXCEPT ![r].pc = "forwarded", ![r].slots = Slots(records)]
        /\ UNCHANGED <<client, store, troubles>>

\* accountingAcknowledgment: one receipt per forwarded record, in order.
Projected(acks, records) ==
    /\ Len(acks) = Len(records)
    /\ \A i \in DOMAIN records : acks[i].key = records[i].key /\ acks[i].rev = records[i].rev

Relay(r) ==
    LET q == req[r] IN
    /\ q.pc = "worked"
    /\ IF q.status # 200 THEN Answer(r, 500, <<>>)
       ELSE IF ~Projected(q.acks, Checked(q.records)) THEN Answer(r, 502, <<>>)
       ELSE Answer(r, 200, Merged(q.records, q.slots, q.acks))
    /\ UNCHANGED <<client, store, troubles>>

\* The worker cannot be reached, or its answer is lost.
Unreachable(r) ==
    /\ Trouble /\ req[r].pc \in {"forwarded", "worked"} /\ Answer(r, 500, <<>>)
    /\ UNCHANGED <<client, store>>

-----------------------------------------------------------------------------
(* The worker.                                                             *)

Applies(x) == base[x.key] = x.rev /\ details[x.key] < x.rev /\ ~revoked

Status(x) ==
    IF revoked THEN "superseded"
    ELSE IF base[x.key] # x.rev THEN "base_mismatch"
    ELSE IF Applies(x) THEN "applied"
    ELSE IF details[x.key] = x.rev THEN "duplicate" ELSE "conflict"

\* validateRequest: the worker checks what was forwarded once more.
Received(r) == Checked(req[r].records)

\* ingestAccounting: one transaction for the batch.
Work(r) ==
    LET records == Received(r) IN
    /\ req[r].pc = "forwarded"
    /\ details' = [k \in Key |-> IF \E i \in DOMAIN records : records[i].key = k /\ Applies(records[i])
                                 THEN base[k] ELSE details[k]]
    /\ req' = [req EXCEPT ![r].pc = "worked", ![r].status = 200,
                          ![r].acks = [i \in DOMAIN records |-> Ack(records[i], Status(records[i]))]]
    /\ UNCHANGED <<client, base, revoked, troubles>>

\* The worker turns the request away (secret, body, path), the database fails,
\* or its answer is of another protocol.
WorkFails(r) ==
    /\ Trouble /\ req[r].pc = "forwarded"
    /\ \E status \in {200, 500} : req' = [req EXCEPT ![r].pc = "worked", ![r].status = status, ![r].acks = <<>>]
    /\ UNCHANGED <<client, store>>

\* The answer to a request nobody waits for.
Drop(r) ==
    /\ req[r].pc = "answered" /\ mine # r /\ req' = [req EXCEPT ![r] = Free]
    /\ UNCHANGED <<client, store, troubles>>

\* A row request given up earlier is applied only now.
LateRow(k) ==
    /\ Trouble /\ ~revoked /\ \E old \in 1..(rev[k] - 1) : base' = [base EXCEPT ![k] = old]
    /\ UNCHANGED <<client, details, revoked, req>>

Revoke ==
    /\ Trouble /\ ~revoked /\ revoked' = TRUE
    /\ UNCHANGED <<client, base, details, req>>

IngestNext ==
    \/ \E k \in Key : Learn(k) \/ LateRow(k)
    \/ StartUpload \/ NextBatch \/ GiveUp \/ TakeAnswer \/ Revoke
    \/ \E r \in Request : Send(r) \/ Turn(r) \/ Check(r) \/ Relay(r) \/ Unreachable(r)
                          \/ Work(r) \/ WorkFails(r) \/ Drop(r)

IngestSpec == IngestInit /\ [][IngestNext]_ingestVars

-----------------------------------------------------------------------------
(* Properties.                                                             *)

\* What the client has dropped its mark of is stored in that revision, also
\* when answers were lost, batches retried and old requests arrive late; only
\* a retired source and a revoked device are acknowledged without.
AcceptedIsStored ==
    \A k \in Key : Kind[k] = "active" /\ k \notin dirty => details[k] = rev[k] \/ revoked

\* An answer that names every stored record is one the client accepts,
\* although records of retired tools in the batch went no further than the web.
StoredIsAccepted ==
    mine # None /\ req[mine].pc = "answered" /\ req[mine].status = 200 =>
        LET q == req[mine]
        IN  \/ Acknowledged(q.acks, q.records)
            \/ \E i \in DOMAIN q.acks : q.acks[i].status \in {"base_mismatch", "conflict"}

-----------------------------------------------------------------------------
(* The inductive invariant.                                                *)

IsRequest(q) ==
    /\ q = [pc |-> q.pc, records |-> q.records, slots |-> q.slots, status |-> q.status,
            acks |-> q.acks]
    /\ q.pc \in {"free", "sent", "forwarded", "worked", "answered"}
    /\ q.records \in Seq([key : Key, rev : Nat])

TypeOK ==
    /\ rev \in [Key -> Nat] /\ base \in [Key -> Nat] /\ details \in [Key -> Nat]
    /\ revoked \in BOOLEAN
    /\ dirty \subseteq Key /\ IsFiniteSet(dirty) /\ marked \subseteq Key /\ todo \subseteq dirty
    /\ batch \in Seq(Key) /\ attempts \in Nat /\ mine \in Request \cup {None}
    /\ req = [r \in Request |-> req[r]] /\ \A r \in Request : IsRequest(req[r])

\* The server is never ahead of the client.
RowsFit == \A k \in Key : base[k] <= rev[k] /\ details[k] <= rev[k]

\* A receipt that the client would accept is true, now and later: revisions
\* only grow, and a revoked device stays revoked.
Honest(ack, stored, gone) ==
    ack.key \in Key /\ Kind[ack.key] = "active" /\ ack.status \in Good =>
        gone \/ (ack.rev \in Nat /\ stored[ack.key] >= ack.rev)

AnswersFit(q, stored, gone) ==
    /\ q.pc \in {"worked", "answered"} /\ q.status = 200 =>
          \A i \in DOMAIN q.acks : Honest(q.acks[i], stored, gone)
    /\ q.pc = "answered" /\ q.status = 200 => DOMAIN q.acks = DOMAIN q.records

\* The request the client waits for carries its batch as it is now.
MineFits ==
    mine # None =>
        /\ batch # <<>>
        /\ req[mine].records = [i \in DOMAIN batch |-> [key |-> batch[i], rev |-> rev[batch[i]]]]

\* During an upload, what is in no batch any more is stored.
Sent(k) == k \notin dirty \/ (~Idle /\ k \notin todo /\ k \notin Range(batch))
SentIsStored == \A k \in Key : Kind[k] = "active" /\ Sent(k) => details[k] = rev[k] \/ revoked

\* The inductive invariant.
IngestFits ==
    /\ TypeOK /\ RowsFit /\ MineFits /\ SentIsStored
    /\ \A r \in Request : AnswersFit(req[r], details, revoked)

\* What the route and the worker add to a request fits its records: a slot
\* for each, and the receipts in order.
Verdict == Good \cup {"base_mismatch", "conflict"}
ReceiptsFit(q) ==
    /\ q.pc \in {"forwarded", "worked"} => q.slots = Slots(q.records)
    /\ q.pc \in {"worked", "answered"} /\ q.status = 200 =>
          \A i \in DOMAIN q.acks : q.acks[i].status \in Verdict
    /\ q.pc = "answered" /\ q.status = 200 =>
          /\ DOMAIN q.acks = DOMAIN q.records /\ Len(q.acks) = Len(q.records)
          /\ \A i \in DOMAIN q.records :
                q.acks[i].key = q.records[i].key /\ q.acks[i].rev = q.records[i].rev
    /\ q.pc = "worked" /\ q.status = 200 =>
          q.acks = <<>> \/ DOMAIN q.acks = DOMAIN Checked(q.records)
AllReceiptsFit == \A r \in Request : ReceiptsFit(req[r])

-----------------------------------------------------------------------------
(* Proofs.                                                                 *)

LEMMA FreeIsRequest == IsRequest(Free) /\ Free.pc = "free" /\ Free.records = <<>>
  <1>1. Free.records = <<>> /\ Free.pc = "free"
    BY DEF Free
  <1>2. Free = [pc |-> Free.pc, records |-> Free.records, slots |-> Free.slots,
                status |-> Free.status, acks |-> Free.acks]
    BY DEF Free
  <1> QED
    BY <1>1, <1>2 DEF IsRequest

LEMMA IngestFitsInit ==
    ASSUME IngestInit, None \notin Request
    PROVE  IngestFits
  <1>1. TypeOK
    <2>1. \A r \in Request : IsRequest(req[r])
      BY FreeIsRequest DEF IngestInit
    <2>2. req = [r \in Request |-> req[r]]
      BY DEF IngestInit
    <2>3. IsFiniteSet(dirty)
      BY FS_EmptySet DEF IngestInit
    <2> QED
      <3>1. rev \in [Key -> Nat] /\ base \in [Key -> Nat] /\ details \in [Key -> Nat]
        BY DEF IngestInit
      <3>0. revoked \in BOOLEAN /\ batch \in Seq(Key) /\ attempts \in Nat
        <4>1. batch \in Seq(Key)
          BY DEF IngestInit
        <4>2. revoked \in BOOLEAN
          BY DEF IngestInit
        <4>3. attempts \in Nat
          BY DEF IngestInit
        <4> QED
          BY <4>1, <4>2, <4>3
      <3>2. /\ dirty \subseteq Key /\ marked \subseteq Key /\ todo \subseteq dirty
            /\ mine \in Request \cup {None}
        BY DEF IngestInit
      <3> QED
        BY <2>1, <2>2, <2>3, <3>0, <3>1, <3>2 DEF TypeOK
  <1>2. RowsFit /\ MineFits
    BY DEF IngestInit, RowsFit, MineFits
  <1>3. SentIsStored
    BY DEF IngestInit, SentIsStored
  <1>4. \A r \in Request : AnswersFit(req[r], details, revoked)
    BY DEF IngestInit, AnswersFit, Free
  <1> QED
    BY <1>1, <1>2, <1>3, <1>4 DEF IngestFits

\* A true receipt stays true while the server moves on.
LEMMA HonestyLasts ==
    ASSUME NEW d \in [Key -> Nat], NEW e \in [Key -> Nat], \A k \in Key : d[k] <= e[k],
           NEW g \in BOOLEAN, NEW h \in BOOLEAN, g => h, NEW q, AnswersFit(q, d, g)
    PROVE  AnswersFit(q, e, h)
  <1>1. ASSUME NEW ack, Honest(ack, d, g) PROVE Honest(ack, e, h)
    BY <1>1 DEF Honest
  <1> QED
    BY <1>1 DEF AnswersFit

\* A step of the server or of the way between, on the request r.
LEMMA RequestStepFits ==
    ASSUME IngestFits, NEW r \in Request, NEW q, IsRequest(q),
           mine = r => q.records = req[r].records,
           req' = [req EXCEPT ![r] = q],
           details' \in [Key -> Nat],
           \A k \in Key : details[k] <= details'[k] /\ details'[k] <= rev[k],
           AnswersFit(q, details', revoked),
           UNCHANGED <<client, base, revoked>>
    PROVE  IngestFits'
  <1>t. TypeOK
    BY DEF IngestFits
  <1>1. req'[r] = q /\ \A p \in Request : p # r => req'[p] = req[p]
    BY <1>t DEF TypeOK
  <1>2. UNCHANGED <<rev, dirty, marked, todo, batch, attempts, mine, base, revoked>>
    BY DEF client
  <1>3. TypeOK'
    <2>1. req' = [p \in Request |-> req'[p]]
      BY <1>t DEF TypeOK
    <2>2. ASSUME NEW p \in Request PROVE IsRequest(req'[p])
      BY <1>t, <1>1 DEF TypeOK
    <2> QED
      BY <1>t, <1>2, <2>1, <2>2 DEF TypeOK, IsRequest
  <1>4. RowsFit'
    BY <1>2 DEF IngestFits, RowsFit
  <1>5. MineFits'
    BY <1>t, <1>1, <1>2 DEF IngestFits, MineFits, TypeOK
  <1>6. SentIsStored'
    <2> SUFFICES ASSUME NEW k \in Key, Kind[k] = "active", Sent(k)'
                 PROVE  details'[k] = rev[k] \/ revoked
      BY <1>2 DEF SentIsStored
    <2>1. Sent(k)
      BY <1>2 DEF Sent, Idle
    <2>2. details[k] = rev[k] \/ revoked
      BY <2>1 DEF IngestFits, SentIsStored
    <2>3. details[k] \in Nat /\ details'[k] \in Nat /\ rev[k] \in Nat
      BY <1>t DEF TypeOK
    <2> QED
      BY <2>2, <2>3
  <1>7. \A p \in Request : AnswersFit(req'[p], details', revoked')
    <2> TAKE p \in Request
    <2>1. CASE p = r
      BY <1>1, <1>2, <2>1
    <2>2. CASE p # r
      <3>1. AnswersFit(req[p], details, revoked)
        BY DEF IngestFits
      <3>2. details \in [Key -> Nat] /\ revoked \in BOOLEAN /\ \A k \in Key : details[k] <= details'[k]
        BY <1>t DEF TypeOK
      <3>3. AnswersFit(req[p], details', revoked)
        BY <3>1, <3>2, HonestyLasts
      <3> QED
        BY <1>1, <1>2, <2>2, <3>3
    <2> QED
      BY <2>1, <2>2
  <1> QED
    BY <1>3, <1>4, <1>5, <1>6, <1>7 DEF IngestFits, AnswersFit

\* A request after its answer was put in.
LEMMA AnswerIs ==
    ASSUME TypeOK, NEW r \in Request, NEW pc \in {"worked", "answered"}, NEW status, NEW acks,
           req' = [req EXCEPT ![r].pc = pc, ![r].status = status, ![r].acks = acks],
           NEW q, q = [pc |-> pc, records |-> req[r].records, slots |-> req[r].slots,
                       status |-> status, acks |-> acks]
    PROVE  req' = [req EXCEPT ![r] = q] /\ IsRequest(q)
  <1>1. /\ req[r] = [pc |-> req[r].pc, records |-> req[r].records, slots |-> req[r].slots,
                     status |-> req[r].status, acks |-> req[r].acks]
        /\ req[r].records \in Seq([key : Key, rev : Nat])
    BY DEF TypeOK, IsRequest
  <1>2. [req[r] EXCEPT !.pc = pc, !.status = status, !.acks = acks] = q
    <2>1. PICK a, b, c, d, e :
             req[r] = [pc |-> a, records |-> b, slots |-> c, status |-> d, acks |-> e]
      BY <1>1
    <2> DEFINE u == [req[r] EXCEPT !.pc = pc]
               v == [u EXCEPT !.status = status]
               w == [v EXCEPT !.acks = acks]
    <2>2. q = [pc |-> pc, records |-> b, slots |-> c, status |-> status, acks |-> acks]
      BY <2>1
    <2>3. [req[r] EXCEPT !.pc = pc, !.status = status, !.acks = acks] = w
      BY DEF u, v, w
    <2>4. u = [pc |-> pc, records |-> b, slots |-> c, status |-> d, acks |-> e]
      BY <2>1
    <2> HIDE DEF u
    <2>5. v = [pc |-> pc, records |-> b, slots |-> c, status |-> status, acks |-> e]
      BY <2>4
    <2> HIDE DEF v
    <2>6. w = [pc |-> pc, records |-> b, slots |-> c, status |-> status, acks |-> acks]
      BY <2>5
    <2> HIDE DEF w
    <2> QED
      BY <2>2, <2>3, <2>6
  <1>3. req' = [req EXCEPT ![r] = q]
    <2>1. req = [p \in Request |-> req[p]]
      BY DEF TypeOK
    <2> QED
      BY <1>2, <2>1
  <1>4. IsRequest(q)
    BY <1>1 DEF IsRequest
  <1> QED
    BY <1>3, <1>4

\* What is answered without the server: receipts that say nothing untrue.
LEMMA AnswerFits ==
    ASSUME IngestFits, NEW r \in Request, NEW pc \in {"worked", "answered"}, NEW status, NEW acks,
           req' = [req EXCEPT ![r].pc = pc, ![r].status = status, ![r].acks = acks],
           status = 200 =>
              /\ \A i \in DOMAIN acks : Honest(acks[i], details, revoked)
              /\ pc = "answered" => DOMAIN acks = DOMAIN req[r].records,
           UNCHANGED <<client, store>>
    PROVE  IngestFits'
  <1> DEFINE q == [pc |-> pc, records |-> req[r].records, slots |-> req[r].slots,
                   status |-> status, acks |-> acks]
  <1>t. TypeOK
    BY DEF IngestFits
  <1>1. req' = [req EXCEPT ![r] = q] /\ IsRequest(q)
    BY <1>t, AnswerIs
  <1>2. q.records = req[r].records /\ AnswersFit(q, details, revoked)
    BY DEF AnswersFit
  <1>3. details \in [Key -> Nat] /\ rev \in [Key -> Nat]
    BY <1>t DEF TypeOK
  <1>4. \A k \in Key : details[k] <= details[k] /\ details[k] <= rev[k]
    BY <1>3 DEF IngestFits, RowsFit
  <1>5. details' = details /\ UNCHANGED <<client, base, revoked>>
    BY DEF store
  <1> HIDE DEF q
  <1> QED
    BY <1>1, <1>2, <1>3, <1>4, <1>5, RequestStepFits

LEMMA RefusalFits ==
    ASSUME IngestFits, NEW r \in Request, NEW status, status # 200, Answer(r, status, <<>>),
           UNCHANGED <<client, store>>
    PROVE  IngestFits'
  <1>1. "answered" \in {"worked", "answered"}
    OBVIOUS
  <1>2. req' = [req EXCEPT ![r].pc = "answered", ![r].status = status, ![r].acks = <<>>]
    BY DEF Answer
  <1> QED
    BY <1>1, <1>2, AnswerFits

LEMMA TurnFits ==
    ASSUME IngestFits, NEW r \in Request, Turn(r)
    PROVE  IngestFits'
  <1>1. PICK status \in {401, 429, 400, 413} : Answer(r, status, <<>>)
    BY DEF Turn
  <1>2. status # 200 /\ UNCHANGED <<client, store>>
    BY DEF Turn
  <1> QED
    BY <1>1, <1>2, RefusalFits

LEMMA UnreachableFits ==
    ASSUME IngestFits, NEW r \in Request, Unreachable(r)
    PROVE  IngestFits'
  BY RefusalFits DEF Unreachable

\* The receipts the route puts together say nothing untrue either.
LEMMA MergedIsHonest ==
    ASSUME NEW records, NEW slots, NEW acks,
           \A i \in DOMAIN acks : Honest(acks[i], details, revoked)
    PROVE  /\ DOMAIN Merged(records, slots, acks) = DOMAIN records
           /\ \A i \in DOMAIN records : Honest(Merged(records, slots, acks)[i], details, revoked)
  <1>1. DOMAIN Merged(records, slots, acks) = DOMAIN records
    BY DEF Merged
  <1>2. ASSUME NEW i \in DOMAIN records
        PROVE  Honest(Merged(records, slots, acks)[i], details, revoked)
    <2>1. CASE Retired(records[i])
      <3>1. Merged(records, slots, acks)[i] = Ack(records[i], "superseded")
        BY <2>1 DEF Merged
      <3>2. Ack(records[i], "superseded").key = records[i].key
        BY DEF Ack
      <3> QED
        BY <2>1, <3>1, <3>2 DEF Honest, Retired
    <2>2. CASE ~Retired(records[i]) /\ slots[i] \in DOMAIN acks
      <3>1. Merged(records, slots, acks)[i] = acks[slots[i]]
        BY <2>2 DEF Merged
      <3> QED
        BY <2>2, <3>1
    <2>3. CASE ~Retired(records[i]) /\ slots[i] \notin DOMAIN acks
      <3>1. Merged(records, slots, acks)[i] = Undefined
        BY <2>3 DEF Merged
      <3>2. Undefined.status \notin Good
        BY DEF Undefined, Good
      <3> QED
        BY <3>1, <3>2 DEF Honest
    <2> QED
      BY <2>1, <2>2, <2>3
  <1> QED
    BY <1>1, <1>2

LEMMA RelayFits ==
    ASSUME IngestFits, NEW r \in Request, Relay(r)
    PROVE  IngestFits'
  <1>1. req[r].pc = "worked" /\ UNCHANGED <<client, store>>
    BY DEF Relay
  <1>2. CASE req[r].status # 200
    BY <1>1, <1>2, RefusalFits DEF Relay
  <1>3. CASE req[r].status = 200 /\ ~Projected(req[r].acks, Checked(req[r].records))
    BY <1>1, <1>3, RefusalFits DEF Relay
  <1>4. CASE req[r].status = 200 /\ Projected(req[r].acks, Checked(req[r].records))
    <2> DEFINE acks == Merged(req[r].records, req[r].slots, req[r].acks)
    <2>1. Answer(r, 200, acks)
      BY <1>4 DEF Relay
    <2>2. \A i \in DOMAIN req[r].acks : Honest(req[r].acks[i], details, revoked)
      BY <1>1, <1>4 DEF IngestFits, AnswersFit
    <2>3. /\ DOMAIN acks = DOMAIN req[r].records
          /\ \A i \in DOMAIN acks : Honest(acks[i], details, revoked)
      BY <2>2, MergedIsHonest
    <2> HIDE DEF acks
    <2> QED
      BY <1>1, <2>1, <2>3, AnswerFits DEF Answer
  <1> QED
    BY <1>2, <1>3, <1>4

LEMMA CheckFits ==
    ASSUME IngestFits, NEW r \in Request, Check(r)
    PROVE  IngestFits'
  <1> DEFINE records == req[r].records
  <1>t. TypeOK
    BY DEF IngestFits
  <1>1. req[r].pc = "sent" /\ UNCHANGED <<client, store>>
    BY DEF Check
  <1>2. CASE Answer(r, 400, <<>>)
    BY <1>1, <1>2, RefusalFits
  <1>3. CASE Answer(r, 200, Merged(records, Slots(records), <<>>))
    <2> DEFINE acks == Merged(records, Slots(records), <<>>)
    <2>1. /\ DOMAIN acks = DOMAIN req[r].records
          /\ \A i \in DOMAIN acks : Honest(acks[i], details, revoked)
      BY MergedIsHonest
    <2> HIDE DEF acks
    <2> QED
      BY <1>1, <1>3, <2>1, AnswerFits DEF Answer, acks
  <1>4. CASE req' = [req EXCEPT ![r].pc = "forwarded", ![r].slots = Slots(records)]
    <2>1. PICK a, b, c, d, e :
             req[r] = [pc |-> a, records |-> b, slots |-> c, status |-> d, acks |-> e]
      <3>1. IsRequest(req[r])
        BY <1>t DEF TypeOK
      <3> QED
        BY <3>1 DEF IsRequest
    <2>2. b \in Seq([key : Key, rev : Nat]) /\ records = b
      <3>1. records \in Seq([key : Key, rev : Nat])
        BY <1>t DEF TypeOK, IsRequest
      <3>2. records = b
        BY <2>1
      <3> QED
        BY <3>1, <3>2
    <2> DEFINE u == [req[r] EXCEPT !.pc = "forwarded"]
               v == [u EXCEPT !.slots = Slots(records)]
               q == [pc |-> "forwarded", records |-> b, slots |-> Slots(records), status |-> d,
                     acks |-> e]
    <2>3. [req[r] EXCEPT !.pc = "forwarded", !.slots = Slots(records)] = v
      BY DEF u, v
    <2>4. u = [pc |-> "forwarded", records |-> b, slots |-> c, status |-> d, acks |-> e]
      BY <2>1
    <2> HIDE DEF u
    <2>5. v = q
      BY <2>4
    <2>6. IsRequest(q) /\ q.records = records /\ AnswersFit(q, details, revoked)
      BY <2>2 DEF IsRequest, AnswersFit
    <2> HIDE DEF v, q
    <2>7. req' = [req EXCEPT ![r] = q]
      <3>1. req = [p \in Request |-> req[p]]
        BY <1>t DEF TypeOK
      <3> QED
        BY <1>4, <2>3, <2>5, <3>1
    <2>8. details \in [Key -> Nat] /\ rev \in [Key -> Nat]
      BY <1>t DEF TypeOK
    <2>9. \A k \in Key : details[k] <= details[k] /\ details[k] <= rev[k]
      BY <2>8 DEF IngestFits, RowsFit
    <2>10. details' = details /\ UNCHANGED <<client, base, revoked>>
      BY <1>1 DEF store
    <2> QED
      BY <2>6, <2>7, <2>8, <2>9, <2>10, RequestStepFits
  <1> QED
    BY <1>2, <1>3, <1>4 DEF Check

LEMMA WorkFailsFits ==
    ASSUME IngestFits, NEW r \in Request, WorkFails(r)
    PROVE  IngestFits'
  <1> DEFINE none == <<>>
             pc == "worked"
  <1>1. PICK status :
           req' = [req EXCEPT ![r].pc = pc, ![r].status = status, ![r].acks = none]
    BY DEF WorkFails
  <1>2. UNCHANGED <<client, store>>
    BY DEF WorkFails
  <1>3. \A i \in DOMAIN none : Honest(none[i], details, revoked)
    OBVIOUS
  <1>4. pc \in {"worked", "answered"} /\ pc # "answered"
    OBVIOUS
  <1>5. status = 200 =>
           /\ \A i \in DOMAIN none : Honest(none[i], details, revoked)
           /\ pc = "answered" => DOMAIN none = DOMAIN req[r].records
    BY <1>3, <1>4
  <1>6. pc \in {"worked", "answered"}
    OBVIOUS
  <1> HIDE DEF none, pc
  <1> QED
    BY <1>1, <1>2, <1>5, <1>6, AnswerFits

\* The worker's receipts are true of the rows it leaves.
LEMMA WorkFits ==
    ASSUME IngestFits, NEW r \in Request, Work(r)
    PROVE  IngestFits'
  <1> DEFINE records == Received(r)
             acks == [i \in DOMAIN records |-> Ack(records[i], Status(records[i]))]
             q == [pc |-> "worked", records |-> req[r].records, slots |-> req[r].slots,
                   status |-> 200, acks |-> acks]
  <1>t. TypeOK
    BY DEF IngestFits
  <1>1. /\ details' = [k \in Key |-> IF \E i \in DOMAIN records : records[i].key = k /\ Applies(records[i])
                                     THEN base[k] ELSE details[k]]
        /\ req' = [req EXCEPT ![r].pc = "worked", ![r].status = 200, ![r].acks = acks]
        /\ UNCHANGED <<client, base, revoked>>
    BY DEF Work
  <1> HIDE DEF records
  <1>2. /\ base \in [Key -> Nat] /\ details \in [Key -> Nat] /\ rev \in [Key -> Nat]
        /\ \A k \in Key : base[k] <= rev[k] /\ details[k] <= rev[k]
    BY <1>t DEF TypeOK, IngestFits, RowsFit
  <1>3. /\ details' \in [Key -> Nat]
        /\ \A k \in Key : details[k] <= details'[k] /\ details'[k] <= rev[k]
    BY <1>1, <1>2 DEF Applies
  <1>4. ASSUME NEW i \in DOMAIN records
        PROVE  Honest(acks[i], details', revoked)
    <2> DEFINE x == records[i]
    <2>1. acks[i].key = x.key /\ acks[i].rev = x.rev /\ acks[i].status = Status(x)
      BY DEF Ack
    <2> SUFFICES ASSUME x.key \in Key, Status(x) \in Good, ~revoked
                 PROVE  x.rev \in Nat /\ details'[x.key] >= x.rev
      BY <2>1 DEF Honest
    <2>2. base[x.key] = x.rev /\ x.rev \in Nat
      BY <1>2 DEF Status, Good
    <2>3. CASE Applies(x)
      BY <1>1, <1>2, <2>2, <2>3
    <2>4. CASE ~Applies(x)
      <3>1. details[x.key] = x.rev
        BY <2>2, <2>4 DEF Status, Good
      <3> QED
        BY <1>2, <1>3, <2>2, <3>1
    <2> QED
      BY <2>3, <2>4
  <1>5. DOMAIN acks = DOMAIN records
    OBVIOUS
  <1>6. req' = [req EXCEPT ![r] = q] /\ IsRequest(q)
    <2> HIDE DEF acks
    <2> QED
      BY <1>t, <1>1, AnswerIs
  <1>7. AnswersFit(q, details', revoked) /\ q.records = req[r].records
    <2> HIDE DEF acks
    <2> QED
      BY <1>4, <1>5 DEF AnswersFit
  <1> HIDE DEF q, acks
  <1> QED
    BY <1>1, <1>3, <1>6, <1>7, RequestStepFits

LEMMA LearnFits ==
    ASSUME IngestFits, NEW k \in Key, Learn(k)
    PROVE  IngestFits'
  <1>t. TypeOK
    BY DEF IngestFits
  <1>1. /\ todo = {} /\ batch = <<>> /\ rev' = [rev EXCEPT ![k] = @ + 1]
        /\ dirty' = dirty \cup {k} /\ marked' = marked \cup {k}
        /\ UNCHANGED <<todo, batch, attempts, mine, base, details, revoked, req>>
    BY DEF Learn, Idle, store
  <1>2. /\ rev' \in [Key -> Nat] /\ rev'[k] = rev[k] + 1
        /\ \A j \in Key : j # k => rev'[j] = rev[j]
        /\ base \in [Key -> Nat] /\ details \in [Key -> Nat] /\ rev \in [Key -> Nat]
    BY <1>t, <1>1 DEF TypeOK
  <1>3. TypeOK'
    <2>1. IsFiniteSet(dirty')
      BY <1>t, <1>1, FS_AddElement DEF TypeOK
    <2> QED
      BY <1>t, <1>1, <1>2, <2>1 DEF TypeOK, IsRequest
  <1>4. RowsFit'
    BY <1>1, <1>2 DEF IngestFits, RowsFit
  <1>5. MineFits'
    BY <1>1 DEF IngestFits, MineFits
  <1>6. SentIsStored'
    BY <1>1, <1>2 DEF IngestFits, SentIsStored, Sent, Idle
  <1>7. \A r \in Request : AnswersFit(req[r], details, revoked)'
    BY <1>1 DEF IngestFits
  <1> QED
    BY <1>3, <1>4, <1>5, <1>6, <1>7 DEF IngestFits

LEMMA LateRowFits ==
    ASSUME IngestFits, NEW k \in Key, LateRow(k)
    PROVE  IngestFits'
  <1>t. TypeOK
    BY DEF IngestFits
  <1>1. PICK old \in 1 .. (rev[k] - 1) : base' = [base EXCEPT ![k] = old]
    BY DEF LateRow
  <1>2. UNCHANGED <<rev, dirty, marked, todo, batch, attempts, mine, details, revoked, req>>
    BY DEF LateRow, client
  <1>3. base' \in [Key -> Nat] /\ \A j \in Key : base'[j] <= rev[j]
    BY <1>t, <1>1 DEF TypeOK, IngestFits, RowsFit
  <1>4. TypeOK'
    BY <1>t, <1>2, <1>3 DEF TypeOK, IsRequest
  <1>5. RowsFit' /\ MineFits'
    BY <1>2, <1>3 DEF IngestFits, RowsFit, MineFits
  <1>6. SentIsStored' /\ \A r \in Request : AnswersFit(req[r], details, revoked)'
    BY <1>2 DEF IngestFits, SentIsStored, Sent, Idle
  <1> QED
    BY <1>4, <1>5, <1>6 DEF IngestFits

LEMMA StartUploadFits ==
    ASSUME IngestFits, StartUpload
    PROVE  IngestFits'
  <1>t. TypeOK
    BY DEF IngestFits
  <1>1. /\ todo = {} /\ batch = <<>> /\ dirty # {} /\ todo' = dirty /\ marked' = {}
        /\ base' = [k \in Key |-> IF k \in marked /\ ~revoked THEN rev[k] ELSE base[k]]
        /\ UNCHANGED <<rev, dirty, batch, attempts, mine, details, revoked, req>>
    BY DEF StartUpload, Idle
  <1>2. /\ rev \in [Key -> Nat] /\ base \in [Key -> Nat]
        /\ \A k \in Key : base[k] <= rev[k] /\ details[k] <= rev[k]
    BY <1>t DEF TypeOK, IngestFits, RowsFit
  <1>3. base' \in [Key -> Nat] /\ \A k \in Key : base'[k] <= rev[k]
    BY <1>1, <1>2
  <1>4. TypeOK'
    BY <1>t, <1>1, <1>3 DEF TypeOK, IsRequest
  <1>5. RowsFit' /\ MineFits'
    BY <1>1, <1>2, <1>3 DEF IngestFits, RowsFit, MineFits
  <1>6. SentIsStored' /\ \A r \in Request : AnswersFit(req[r], details, revoked)'
    BY <1>1 DEF IngestFits, SentIsStored, Sent, Idle
  <1> QED
    BY <1>4, <1>5, <1>6 DEF IngestFits

\* An ordering of a finite set names each of its elements.
LEMMA OrderingIsOnto ==
    ASSUME NEW S, IsFiniteSet(S), NEW s \in SetToSeqs(S)
    PROVE  s \in Seq(S) /\ Range(s) = S
  <1> DEFINE D == 1 .. Cardinality(S)
  <1>1. Cardinality(S) \in Nat
    BY FS_CardinalityType
  <1>2. s \in [D -> S] /\ \A i, j \in D : i # j => s[i] # s[j]
    BY DEF SetToSeqs
  <1>3. s \in Seq(S)
    BY <1>1, <1>2
  <1>4. IsFiniteSet(D) /\ Cardinality(D) = Cardinality(S)
    BY <1>1, FS_Interval
  <1> HIDE DEF D
  <1>5. s \in Injection(D, S)
    <2>1. \A i, j \in D : s[i] = s[j] => i = j
      BY <1>2
    <2> QED
      BY <1>2, <2>1 DEF Injection, IsInjective
  <1>6. s \in Surjection(D, S)
    BY <1>4, <1>5, FS_Injection
  <1>7. Range(s) = S
    BY <1>2, <1>6 DEF Surjection, Range
  <1> QED
    BY <1>3, <1>7

LEMMA NextBatchFits ==
    ASSUME IngestFits, NextBatch
    PROVE  IngestFits'
  <1>t. TypeOK
    BY DEF IngestFits
  <1>1. PICK S \in SUBSET todo :
           /\ Cardinality(S) = BatchSize \/ (S = todo /\ Cardinality(S) < BatchSize)
           /\ batch' \in SetToSeqs(S)
           /\ todo' = todo \ S
    BY DEF NextBatch
  <1>2. /\ batch = <<>> /\ todo # {} /\ attempts' = 0
        /\ UNCHANGED <<rev, dirty, marked, mine, base, details, revoked, req>>
    BY DEF NextBatch, store
  <1>3. S \subseteq Key /\ IsFiniteSet(S)
    BY <1>t, FS_Subset DEF TypeOK
  <1>4. batch' \in Seq(S) /\ Range(batch') = S
    BY <1>1, <1>3, OrderingIsOnto
  <1>5. batch' \in Seq(Key)
    BY <1>3, <1>4
  <1>6. TypeOK'
    BY <1>t, <1>1, <1>2, <1>5 DEF TypeOK, IsRequest
  <1>7. RowsFit' /\ MineFits'
    BY <1>2 DEF IngestFits, RowsFit, MineFits
  <1>8. SentIsStored'
    BY <1>1, <1>2, <1>4 DEF IngestFits, SentIsStored, Sent, Idle, Range
  <1>9. \A r \in Request : AnswersFit(req[r], details, revoked)'
    BY <1>2 DEF IngestFits
  <1> QED
    BY <1>6, <1>7, <1>8, <1>9 DEF IngestFits

LEMMA DropFits ==
    ASSUME IngestFits, NEW r \in Request, Drop(r)
    PROVE  IngestFits'
  <1>t. TypeOK
    BY DEF IngestFits
  <1>1. mine # r /\ req' = [req EXCEPT ![r] = Free] /\ UNCHANGED <<client, base, details, revoked>>
    BY DEF Drop, store
  <1>2. AnswersFit(Free, details, revoked)
    BY FreeIsRequest DEF AnswersFit
  <1>3. details \in [Key -> Nat] /\ rev \in [Key -> Nat]
    BY <1>t DEF TypeOK
  <1>4. \A k \in Key : details[k] <= details[k] /\ details[k] <= rev[k]
    BY <1>3 DEF IngestFits, RowsFit
  <1> QED
    BY <1>1, <1>2, <1>3, <1>4, FreeIsRequest, RequestStepFits

LEMMA GiveUpFits ==
    ASSUME IngestFits, GiveUp
    PROVE  IngestFits'
  <1>t. TypeOK
    BY DEF IngestFits
  <1>1. /\ mine' = None
        /\ (todo' = {} /\ batch' = <<>>) \/ UNCHANGED <<todo, batch>>
        /\ UNCHANGED <<rev, dirty, marked, attempts, base, details, revoked, req>>
    BY DEF GiveUp, Failed, store
  <1>2. batch' \in Seq(Key) /\ todo' \subseteq dirty
    <2>1. batch \in Seq(Key) /\ <<>> \in Seq(Key) /\ todo \subseteq dirty
      BY <1>t DEF TypeOK
    <2> QED
      BY <1>1, <2>1
  <1>3. TypeOK'
    BY <1>t, <1>1, <1>2 DEF TypeOK, IsRequest
  <1>4. RowsFit' /\ MineFits'
    BY <1>1 DEF IngestFits, RowsFit, MineFits
  <1>5. SentIsStored'
    BY <1>1 DEF IngestFits, SentIsStored, Sent, Idle
  <1>6. \A r \in Request : AnswersFit(req[r], details, revoked)'
    BY <1>1 DEF IngestFits
  <1> QED
    BY <1>3, <1>4, <1>5, <1>6 DEF IngestFits

LEMMA RevokeFits ==
    ASSUME IngestFits, Revoke
    PROVE  IngestFits'
  <1>t. TypeOK
    BY DEF IngestFits
  <1>1. /\ revoked' = TRUE
        /\ UNCHANGED <<rev, dirty, marked, todo, batch, attempts, mine, base, details, req>>
    BY DEF Revoke, client
  <1>2. TypeOK'
    BY <1>t, <1>1 DEF TypeOK, IsRequest
  <1>3. RowsFit' /\ MineFits' /\ SentIsStored'
    BY <1>1 DEF IngestFits, RowsFit, MineFits, SentIsStored
  <1>4. \A r \in Request : AnswersFit(req[r], details, revoked)'
    <2> TAKE r \in Request
    <2>1. AnswersFit(req[r], details, revoked)
      BY DEF IngestFits
    <2>2. details \in [Key -> Nat] /\ revoked \in BOOLEAN /\ \A k \in Key : details[k] <= details[k]
      BY <1>t DEF TypeOK
    <2>3. AnswersFit(req[r], details, TRUE)
      BY <2>1, <2>2, HonestyLasts
    <2> QED
      BY <1>1, <2>3
  <1> QED
    BY <1>2, <1>3, <1>4 DEF IngestFits

LEMMA SendFits ==
    ASSUME IngestFits, NEW r \in Request, Send(r), None \notin Request
    PROVE  IngestFits'
  <1>t. TypeOK
    BY DEF IngestFits
  <1> DEFINE records == [i \in DOMAIN batch |-> [key |-> batch[i], rev |-> rev[batch[i]]]]
             u == [Free EXCEPT !.pc = "sent"]
             q == [u EXCEPT !.records = records]
  <1>1. /\ batch # <<>> /\ mine' = r /\ attempts' = attempts + 1
        /\ req' = [req EXCEPT ![r] = q]
        /\ UNCHANGED <<rev, dirty, marked, todo, batch, base, details, revoked>>
    BY DEF Send, store
  <1>2. records \in Seq([key : Key, rev : Nat])
    <2>1. batch \in Seq(Key) /\ rev \in [Key -> Nat]
      BY <1>t DEF TypeOK
    <2>2. PICK n \in Nat : DOMAIN batch = 1 .. n
      BY <2>1
    <2>3. \A i \in 1 .. n : batch[i] \in Key /\ rev[batch[i]] \in Nat
      BY <2>1, <2>2
    <2>4. records \in [1 .. n -> [key : Key, rev : Nat]]
      BY <2>2, <2>3
    <2> QED
      BY <2>4
  <1> HIDE DEF records
  <1>3. /\ IsRequest(q) /\ q.records = records /\ q.pc = "sent"
    <2>1. u = [pc |-> "sent", records |-> <<>>, slots |-> <<>>, status |-> 0, acks |-> <<>>]
      BY DEF Free
    <2> HIDE DEF u
    <2>2. q = [pc |-> "sent", records |-> records, slots |-> <<>>, status |-> 0, acks |-> <<>>]
      BY <2>1
    <2> HIDE DEF q
    <2> QED
      BY <1>2, <2>2 DEF IsRequest
  <1> HIDE DEF q
  <1>4. /\ req'[r] = q /\ \A p \in Request : p # r => req'[p] = req[p]
        /\ req' = [p \in Request |-> req'[p]]
    BY <1>t, <1>1 DEF TypeOK
  <1>5. TypeOK'
    <2>1. \A p \in Request : IsRequest(req'[p])
      BY <1>t, <1>3, <1>4 DEF TypeOK
    <2>2. mine' \in Request \cup {None} /\ attempts' \in Nat
      BY <1>t, <1>1 DEF TypeOK
    <2> QED
      BY <1>t, <1>1, <1>4, <2>1, <2>2 DEF TypeOK, IsRequest
  <1>6. RowsFit'
    BY <1>1 DEF IngestFits, RowsFit
  <1>7. MineFits'
    <2>1. req'[mine'].records = [i \in DOMAIN batch' |-> [key |-> batch'[i], rev |-> rev'[batch'[i]]]]
      BY <1>1, <1>3, <1>4 DEF records
    <2> QED
      BY <1>1, <2>1 DEF MineFits
  <1>8. SentIsStored'
    BY <1>1 DEF IngestFits, SentIsStored, Sent, Idle
  <1>9. \A p \in Request : AnswersFit(req[p], details, revoked)'
    BY <1>1, <1>3, <1>4 DEF IngestFits, AnswersFit
  <1> QED
    BY <1>5, <1>6, <1>7, <1>8, <1>9 DEF IngestFits

LEMMA TakeAnswerFits ==
    ASSUME IngestFits, TakeAnswer, None \notin Request
    PROVE  IngestFits'
  <1>t. TypeOK
    BY DEF IngestFits
  <1> DEFINE a == req[mine]
             taken == a.status = 200 /\ Acknowledged(a.acks, a.records)
  <1>1. /\ mine # None /\ a.pc = "answered" /\ mine \in Request
        /\ req' = [req EXCEPT ![mine] = Free] /\ mine' = None
        /\ UNCHANGED <<rev, marked, attempts, base, details, revoked>>
    BY <1>t DEF TakeAnswer, TypeOK, store
  <1>2. /\ taken => /\ batch' = <<>> /\ todo' = todo
                    /\ dirty' = IF todo = {} THEN {} ELSE dirty
        /\ ~taken => /\ dirty' = dirty
                     /\ UNCHANGED <<todo, batch>> \/ (todo' = {} /\ batch' = <<>>)
    BY DEF TakeAnswer, Failed
  <1>3. /\ batch # <<>>
        /\ a.records = [i \in DOMAIN batch |-> [key |-> batch[i], rev |-> rev[batch[i]]]]
    BY <1>1 DEF IngestFits, MineFits
  <1>4. ASSUME taken, NEW i \in DOMAIN batch, Kind[batch[i]] = "active"
        PROVE  details[batch[i]] = rev[batch[i]] \/ revoked
    <2>1. batch[i] \in Key
      BY <1>t DEF TypeOK
    <2>2. /\ DOMAIN a.acks = DOMAIN a.records
          /\ \A j \in DOMAIN a.acks : Honest(a.acks[j], details, revoked)
      BY <1>1, <1>4 DEF IngestFits, AnswersFit
    <2>3. i \in DOMAIN a.records /\ a.records[i].key = batch[i] /\ a.records[i].rev = rev[batch[i]]
      BY <1>3
    <2>4. /\ a.acks[i].key = batch[i] /\ a.acks[i].rev = rev[batch[i]]
          /\ a.acks[i].status \in Good
      BY <1>4, <2>3 DEF Acknowledged
    <2>5. revoked \/ details[batch[i]] >= rev[batch[i]]
      BY <1>4, <2>1, <2>2, <2>3, <2>4 DEF Honest
    <2>6. /\ details[batch[i]] <= rev[batch[i]] /\ details[batch[i]] \in Nat
          /\ rev[batch[i]] \in Nat
      BY <1>t, <2>1 DEF TypeOK, IngestFits, RowsFit
    <2> QED
      BY <2>5, <2>6
  <1> HIDE DEF taken
  <1>5. TypeOK'
    <2>1. /\ dirty' \subseteq dirty /\ IsFiniteSet(dirty') /\ todo' \subseteq dirty'
      BY <1>t, <1>2, FS_EmptySet DEF TypeOK
    <2>2. batch' \in Seq(Key)
      <3>1. batch' = batch \/ batch' = <<>>
        BY <1>2
      <3>2. batch \in Seq(Key) /\ <<>> \in Seq(Key)
        BY <1>t DEF TypeOK
      <3> QED
        BY <3>1, <3>2
    <2>3. req' = [p \in Request |-> req'[p]] /\ \A p \in Request : IsRequest(req'[p])
      BY <1>t, <1>1, FreeIsRequest DEF TypeOK
    <2> QED
      BY <1>t, <1>1, <2>1, <2>2, <2>3 DEF TypeOK, IsRequest
  <1>6. RowsFit' /\ MineFits'
    BY <1>1 DEF IngestFits, RowsFit, MineFits
  <1>7. SentIsStored'
    <2> SUFFICES ASSUME NEW k \in Key, Kind[k] = "active", Sent(k)'
                 PROVE  details[k] = rev[k] \/ revoked
      BY <1>1 DEF SentIsStored
    <2>1. CASE k \in Range(batch) /\ taken
      BY <1>4, <2>1 DEF Range
    <2>2. CASE k \notin Range(batch) /\ taken
      <3>1. Sent(k)
        BY <1>2, <1>3, <2>2 DEF Sent, Idle
      <3> QED
        BY <3>1 DEF IngestFits, SentIsStored
    <2>3. CASE ~taken
      <3>1. Sent(k)
        BY <1>2, <1>3, <2>3 DEF Sent, Idle
      <3> QED
        BY <3>1 DEF IngestFits, SentIsStored
    <2> QED
      BY <2>1, <2>2, <2>3
  <1>8. \A p \in Request : AnswersFit(req'[p], details', revoked')
    <2> TAKE p \in Request
    <2>1. CASE p = mine
      <3>1. req'[p] = Free
        BY <1>t, <1>1, <2>1 DEF TypeOK
      <3> QED
        BY <1>1, <3>1, FreeIsRequest DEF AnswersFit
    <2>2. CASE p # mine
      <3>1. req'[p] = req[p]
        BY <1>t, <1>1, <2>2 DEF TypeOK
      <3> QED
        BY <1>1, <3>1 DEF IngestFits
    <2> QED
      BY <2>1, <2>2
  <1> QED
    BY <1>5, <1>6, <1>7, <1>8 DEF IngestFits

\* One step per action.
LEMMA IngestStep ==
    ASSUME None \notin Request, IngestFits, [IngestNext]_ingestVars PROVE IngestFits'
  <1>1. ASSUME NEW k \in Key, Learn(k) \/ LateRow(k) PROVE IngestFits'
    BY <1>1, LearnFits, LateRowFits
  <1>2. CASE StartUpload \/ NextBatch \/ GiveUp \/ TakeAnswer \/ Revoke
    BY <1>2, StartUploadFits, NextBatchFits, GiveUpFits, TakeAnswerFits, RevokeFits
  <1>3. ASSUME NEW r \in Request,
               \/ Send(r) \/ Turn(r) \/ Check(r) \/ Relay(r) \/ Unreachable(r)
               \/ Work(r) \/ WorkFails(r) \/ Drop(r)
        PROVE  IngestFits'
    BY <1>3, SendFits, TurnFits, CheckFits, RelayFits, UnreachableFits, WorkFits, WorkFailsFits,
       DropFits
  <1>4. CASE UNCHANGED ingestVars
    BY <1>4 DEF ingestVars, client, store, IngestFits, TypeOK, RowsFit, MineFits, SentIsStored,
            Sent, Idle, IsRequest, AnswersFit, Honest
  <1> QED
    BY <1>1, <1>2, <1>3, <1>4 DEF IngestNext

\* Every reachable state of the upload of annotations fits, whatever the
\* batches, the retries and the number of requests under way.
THEOREM IngestIsSound ==
    ASSUME None \notin Request
    PROVE  IngestSpec => []IngestFits
  <1>1. IngestInit => IngestFits
    BY IngestFitsInit
  <1> QED
    BY <1>1, IngestStep, PTL DEF IngestSpec

\* Of the invariant: what the client takes as sent.
LEMMA AcceptedFollows == IngestFits => AcceptedIsStored
  BY DEF IngestFits, SentIsStored, Sent, AcceptedIsStored

\* A mark is dropped only for an annotation that is stored in that revision.
THEOREM MarkDroppedIsStored ==
    ASSUME None \notin Request
    PROVE  IngestSpec => []AcceptedIsStored
  <1> QED
    BY AcceptedFollows, IngestIsSound, PTL

\* A record's slot is where the forwarded records have it.
LEMMA SlotIsItsOwn ==
    ASSUME NEW records \in Seq([key : Key, rev : Nat]), NEW i \in DOMAIN records, ~Retired(records[i])
    PROVE  LET s == ForwardedSlot(records, i)
           IN  s \in DOMAIN Checked(records) /\ Checked(records)[s] = records[i]
  <1> DEFINE P == Passed(records)
             upTo(j) == {k \in P : k <= j}
             slot(j) == ForwardedSlot(records, j)
  <1>1. PICK n \in Nat : DOMAIN records = 1 .. n
    OBVIOUS
  <1>2. IsFiniteSet(1 .. n) /\ P \subseteq 1 .. n
    BY <1>1, FS_Interval DEF Passed
  <1>3. IsFiniteSet(P) /\ \A j \in P : IsFiniteSet(upTo(j)) /\ j \in upTo(j)
    BY <1>2, FS_Subset
  <1>4. \A j \in P : slot(j) = Cardinality(upTo(j))
    BY DEF ForwardedSlot
  <1>5. ASSUME NEW j \in P PROVE slot(j) \in 1 .. Cardinality(P)
    <2>1. upTo(j) \subseteq P /\ upTo(j) # {}
      BY <1>3
    <2>2. Cardinality(upTo(j)) \in Nat /\ Cardinality(P) \in Nat /\ Cardinality(upTo(j)) <= Cardinality(P)
      BY <1>3, <2>1, FS_Subset, FS_CardinalityType
    <2>3. Cardinality(upTo(j)) # 0
      BY <1>3, <2>1, FS_EmptySet
    <2> QED
      BY <1>4, <2>2, <2>3
  <1>6. ASSUME NEW j \in P, NEW k \in P, j < k PROVE slot(j) < slot(k)
    <2>1. upTo(j) \subseteq upTo(k) /\ upTo(j) # upTo(k)
      <3>1. k \in upTo(k) /\ k \notin upTo(j)
        BY <1>2, <1>6
      <3>2. \A l \in P : l <= j => l <= k
        BY <1>2, <1>6
      <3> QED
        BY <3>1, <3>2
    <2>2. Cardinality(upTo(j)) < Cardinality(upTo(k))
      BY <1>3, <2>1, FS_Subset, FS_CardinalityType
    <2> QED
      BY <1>4, <2>2
  <1> HIDE DEF slot
  <1>7. i \in P
    BY DEF Passed
  <1>8. \A j \in P : slot(j) = slot(i) => j = i
    <2>1. \A j \in P : slot(j) \in Nat
      BY <1>5
    <2> QED
      BY <1>2, <1>6, <1>7, <2>1
  <1>9. (CHOOSE j \in P : slot(j) = slot(i)) = i
    BY <1>7, <1>8
  <1>10. slot(i) \in 1 .. Cardinality(P)
    BY <1>5, <1>7
  <1> QED
    BY <1>9, <1>10 DEF Checked, slot

LEMMA CheckedIsSeq ==
    ASSUME NEW records \in Seq([key : Key, rev : Nat])
    PROVE  LET c == Checked(records)
           IN  Len(c) = Cardinality(Passed(records)) /\ DOMAIN c = 1 .. Len(c) /\ Len(c) \in Nat
  <1>1. PICK n \in Nat : DOMAIN records = 1 .. n
    OBVIOUS
  <1>2. IsFiniteSet(Passed(records))
    BY <1>1, FS_Interval, FS_Subset DEF Passed
  <1> DEFINE m == Cardinality(Passed(records))
             at(s) == records[CHOOSE i \in Passed(records) : ForwardedSlot(records, i) = s]
             V == {at(s) : s \in 1 .. m}
  <1>3. m \in Nat
    BY <1>2, FS_CardinalityType
  <1>4. Checked(records) = [s \in 1 .. m |-> at(s)]
    BY DEF Checked
  <1> HIDE DEF m, at
  <1>5. Checked(records) \in [1 .. m -> V]
    BY <1>4
  <1> HIDE DEF V
  <1>6. Checked(records) \in Seq(V) /\ Len(Checked(records)) = m
    BY <1>3, <1>5
  <1> QED
    BY <1>3, <1>4, <1>6 DEF m

\* The receipts of the route and of the worker, merged, are one per record.
LEMMA MergedFits ==
    ASSUME NEW records \in Seq([key : Key, rev : Nat]), NEW acks,
           DOMAIN acks = DOMAIN Checked(records),
           \A i \in DOMAIN acks : /\ acks[i].status \in Verdict
                                  /\ acks[i].key = Checked(records)[i].key
                                  /\ acks[i].rev = Checked(records)[i].rev
    PROVE  LET m == Merged(records, Slots(records), acks)
           IN  /\ DOMAIN m = DOMAIN records
               /\ Len(m) = Len(records)
               /\ \A i \in DOMAIN records : /\ m[i].status \in Verdict
                                            /\ m[i].key = records[i].key /\ m[i].rev = records[i].rev
  <1> DEFINE m == Merged(records, Slots(records), acks)
  <1>1. DOMAIN m = DOMAIN records
    BY DEF Merged
  <1>2. ASSUME NEW i \in DOMAIN records
        PROVE  /\ m[i].status \in Verdict
               /\ m[i].key = records[i].key /\ m[i].rev = records[i].rev
    <2>1. CASE Retired(records[i])
      <3>1. m[i] = [key |-> records[i].key, rev |-> records[i].rev, status |-> "superseded"]
        BY <2>1 DEF Merged, Ack
      <3> QED
        BY <3>1 DEF Verdict, Good
    <2>2. CASE ~Retired(records[i])
      <3>1. /\ ForwardedSlot(records, i) \in DOMAIN acks
            /\ Checked(records)[ForwardedSlot(records, i)] = records[i]
        BY <2>2, SlotIsItsOwn
      <3>2. m[i] = acks[ForwardedSlot(records, i)]
        BY <2>2, <3>1 DEF Merged, Slots
      <3> QED
        BY <3>1, <3>2
    <2> QED
      BY <2>1, <2>2
  <1>3. Len(m) = Len(records)
    <2>1. PICK n \in Nat : DOMAIN records = 1 .. n /\ Len(records) = n
      OBVIOUS
    <2> DEFINE V == {m[i] : i \in 1 .. n}
    <2>2. m = [i \in 1 .. n |-> m[i]]
      BY <2>1 DEF Merged
    <2> HIDE DEF m
    <2>3. m \in [1 .. n -> V]
      BY <2>2
    <2> HIDE DEF V
    <2>4. m \in Seq(V) /\ Len(m) = n
      BY <2>3
    <2> QED
      BY <2>1, <2>4
  <1> QED
    BY <1>1, <1>2, <1>3

\* An answer put into a request.
LEMMA AnsweredFits ==
    ASSUME TypeOK, AllReceiptsFit, NEW r \in Request, NEW pc \in {"worked", "answered"}, NEW status, NEW acks,
           req' = [req EXCEPT ![r].pc = pc, ![r].status = status, ![r].acks = acks],
           pc = "worked" => req[r].pc = "forwarded",
           status = 200 => \A i \in DOMAIN acks : acks[i].status \in Verdict,
           status = 200 /\ pc = "worked" => acks = <<>> \/ DOMAIN acks = DOMAIN Checked(req[r].records),
           status = 200 /\ pc = "answered" =>
              /\ DOMAIN acks = DOMAIN req[r].records /\ Len(acks) = Len(req[r].records)
              /\ \A i \in DOMAIN req[r].records :
                    acks[i].key = req[r].records[i].key /\ acks[i].rev = req[r].records[i].rev
    PROVE  AllReceiptsFit'
  <1> DEFINE q == [pc |-> pc, records |-> req[r].records, slots |-> req[r].slots,
                   status |-> status, acks |-> acks]
  <1>1. req' = [req EXCEPT ![r] = q] /\ IsRequest(q)
    BY AnswerIs
  <1>2. ReceiptsFit(q)
    <2>1. pc = "worked" => req[r].slots = Slots(req[r].records)
      BY DEF AllReceiptsFit, ReceiptsFit
    <2> QED
      BY <2>1 DEF ReceiptsFit
  <1> HIDE DEF q
  <1>3. \A p \in Request : req'[p] = IF p = r THEN q ELSE req[p]
    BY <1>1 DEF TypeOK
  <1> QED
    BY <1>2, <1>3 DEF AllReceiptsFit

LEMMA RefusedFits ==
    ASSUME TypeOK, AllReceiptsFit, NEW r \in Request, NEW status, status # 200, Answer(r, status, <<>>)
    PROVE  AllReceiptsFit'
  <1>1. "answered" \in {"worked", "answered"}
    OBVIOUS
  <1>2. req' = [req EXCEPT ![r].pc = "answered", ![r].status = status, ![r].acks = <<>>]
    BY DEF Answer
  <1> QED
    BY <1>1, <1>2, AnsweredFits

LEMMA RouteReceiptsFit ==
    ASSUME TypeOK, AllReceiptsFit, NEW r \in Request, Turn(r) \/ Check(r) \/ Relay(r) \/ Unreachable(r)
    PROVE  AllReceiptsFit'
  <1> DEFINE records == req[r].records
  <1>r. records \in Seq([key : Key, rev : Nat]) /\ IsRequest(req[r])
    BY DEF TypeOK, IsRequest
  <1>1. CASE Turn(r) \/ Unreachable(r)
    BY <1>1, RefusedFits DEF Turn, Unreachable
  <1>2. CASE Check(r)
    <2>1. CASE Answer(r, 400, <<>>)
      BY <2>1, RefusedFits
    <2>2. CASE Checked(records) = <<>> /\ Answer(r, 200, Merged(records, Slots(records), <<>>))
      <3> DEFINE acks == Merged(records, Slots(records), <<>>)
      <3>1. /\ DOMAIN acks = DOMAIN records /\ Len(acks) = Len(records)
            /\ \A i \in DOMAIN records : /\ acks[i].status \in Verdict
                                         /\ acks[i].key = records[i].key /\ acks[i].rev = records[i].rev
        <4>1. DOMAIN <<>> = {} /\ DOMAIN <<>> = DOMAIN Checked(records)
          BY <2>2
        <4> QED
          BY <1>r, <4>1, MergedFits
      <3> HIDE DEF acks
      <3>2. Answer(r, 200, acks)
        BY <2>2 DEF acks
      <3>5. "answered" \in {"worked", "answered"} /\ "answered" # "worked"
        OBVIOUS
      <3>6. req' = [req EXCEPT ![r].pc = "answered", ![r].status = 200, ![r].acks = acks]
        BY <3>2 DEF Answer
      <3>7. \A i \in DOMAIN acks : acks[i].status \in Verdict
        BY <3>1
      <3>8. /\ DOMAIN acks = DOMAIN req[r].records /\ Len(acks) = Len(req[r].records)
            /\ \A i \in DOMAIN req[r].records :
                  acks[i].key = req[r].records[i].key /\ acks[i].rev = req[r].records[i].rev
        BY <3>1
      <3> HIDE DEF records
      <3> QED
        BY <3>5, <3>6, <3>7, <3>8, AnsweredFits
    <2>3. CASE req' = [req EXCEPT ![r].pc = "forwarded", ![r].slots = Slots(records)]
      <3>1. req'[r] = [req[r] EXCEPT !.pc = "forwarded", !.slots = Slots(records)]
            /\ \A p \in Request : p # r => req'[p] = req[p]
        BY <2>3 DEF TypeOK
      <3>2. req'[r].pc = "forwarded" /\ req'[r].slots = Slots(records) /\ req'[r].records = records
        <4>1. PICK a, b, c, d, e :
                 req[r] = [pc |-> a, records |-> b, slots |-> c, status |-> d, acks |-> e]
          BY <1>r DEF IsRequest
        <4> DEFINE S == Slots(records)
        <4> HIDE DEF S
        <4> DEFINE u == [req[r] EXCEPT !.pc = "forwarded"]
        <4>4. u = [pc |-> "forwarded", records |-> b, slots |-> c, status |-> d, acks |-> e]
          BY <4>1
        <4>5. [req[r] EXCEPT !.pc = "forwarded", !.slots = S] = [u EXCEPT !.slots = S]
          BY DEF u
        <4> HIDE DEF u
        <4>2. [req[r] EXCEPT !.pc = "forwarded", !.slots = S] =
                 [pc |-> "forwarded", records |-> b, slots |-> S, status |-> d, acks |-> e]
          BY <4>4, <4>5
        <4>3. records = b
          BY <4>1
        <4> QED
          BY <3>1, <4>2, <4>3 DEF S
      <3>3. ReceiptsFit(req'[r])
        BY <3>2 DEF ReceiptsFit
      <3> QED
        BY <3>1, <3>3 DEF AllReceiptsFit
    <2> QED
      BY <1>2, <2>1, <2>2, <2>3 DEF Check
  <1>3. CASE Relay(r)
    <2>1. CASE Answer(r, 500, <<>>) \/ Answer(r, 502, <<>>)
      BY <2>1, RefusedFits
    <2>2. CASE /\ req[r].pc = "worked" /\ req[r].status = 200
               /\ Projected(req[r].acks, Checked(records))
               /\ Answer(r, 200, Merged(records, req[r].slots, req[r].acks))
      <3> DEFINE acks == Merged(records, Slots(records), req[r].acks)
      <3>1. /\ req[r].slots = Slots(records)
            /\ \A i \in DOMAIN req[r].acks : req[r].acks[i].status \in Verdict
        BY <2>2 DEF AllReceiptsFit, ReceiptsFit
      <3>2. DOMAIN req[r].acks = DOMAIN Checked(records)
        <4>1. CASE req[r].acks = <<>>
          <5>1. Len(<<>>) = Len(Checked(records))
            BY <2>2, <4>1 DEF Projected
          <5>2. Len(Checked(records)) = 0 /\ DOMAIN Checked(records) = 1 .. 0
            BY <1>r, <5>1, CheckedIsSeq
          <5> QED
            BY <4>1, <5>2
        <4> QED
          BY <2>2, <4>1 DEF AllReceiptsFit, ReceiptsFit
      <3>3. /\ DOMAIN acks = DOMAIN records /\ Len(acks) = Len(records)
            /\ \A i \in DOMAIN records : /\ acks[i].status \in Verdict
                                         /\ acks[i].key = records[i].key /\ acks[i].rev = records[i].rev
        <4>1. \A i \in DOMAIN req[r].acks : /\ req[r].acks[i].key = Checked(records)[i].key
                                            /\ req[r].acks[i].rev = Checked(records)[i].rev
          BY <2>2, <3>2 DEF Projected
        <4> QED
          BY <1>r, <3>1, <3>2, <4>1, MergedFits
      <3> HIDE DEF acks
      <3>4. Answer(r, 200, acks)
        BY <2>2, <3>1 DEF acks
      <3>5. "answered" \in {"worked", "answered"} /\ "answered" # "worked"
        OBVIOUS
      <3>6. req' = [req EXCEPT ![r].pc = "answered", ![r].status = 200, ![r].acks = acks]
        BY <3>4 DEF Answer
      <3>7. \A i \in DOMAIN acks : acks[i].status \in Verdict
        BY <3>3
      <3>8. /\ DOMAIN acks = DOMAIN req[r].records /\ Len(acks) = Len(req[r].records)
            /\ \A i \in DOMAIN req[r].records :
                  acks[i].key = req[r].records[i].key /\ acks[i].rev = req[r].records[i].rev
        BY <3>3
      <3> HIDE DEF records
      <3> QED
        BY <3>5, <3>6, <3>7, <3>8, AnsweredFits
    <2> QED
      BY <1>3, <2>1, <2>2 DEF Relay
  <1> QED
    BY <1>1, <1>2, <1>3

LEMMA WorkerReceiptsFit ==
    ASSUME TypeOK, AllReceiptsFit, NEW r \in Request, Work(r) \/ WorkFails(r) PROVE AllReceiptsFit'
  <1>0. "worked" \in {"worked", "answered"} /\ "worked" # "answered"
    OBVIOUS
  <1>1. CASE Work(r)
    <2> DEFINE records == Received(r)
               acks == [i \in DOMAIN records |-> Ack(records[i], Status(records[i]))]
    <2>1. /\ req[r].pc = "forwarded"
          /\ req' = [req EXCEPT ![r].pc = "worked", ![r].status = 200, ![r].acks = acks]
      BY <1>1 DEF Work
    <2>2. \A i \in DOMAIN acks : acks[i].status \in Verdict
      <3>1. \A x : Status(x) \in Verdict
        BY DEF Status, Verdict, Good
      <3> HIDE DEF records
      <3>2. \A i \in DOMAIN records : acks[i].status = Status(records[i])
        BY DEF Ack
      <3> QED
        BY <3>1, <3>2
    <2>3. DOMAIN acks = DOMAIN Checked(req[r].records)
      BY DEF Received
    <2> HIDE DEF acks
    <2> QED
      BY <1>0, <2>1, <2>2, <2>3, AnsweredFits
  <1>2. CASE WorkFails(r)
    <2>1. req[r].pc = "forwarded"
      BY <1>2 DEF WorkFails
    <2>2. PICK status : req' = [req EXCEPT ![r].pc = "worked", ![r].status = status, ![r].acks = <<>>]
      BY <1>2 DEF WorkFails
    <2>3. \A i \in DOMAIN <<>> : <<>>[i].status \in Verdict
      OBVIOUS
    <2> QED
      BY <1>0, <2>1, <2>2, <2>3, AnsweredFits
  <1> QED
    BY <1>1, <1>2

LEMMA ReceiptsStep ==
    ASSUME TypeOK, AllReceiptsFit, [IngestNext]_ingestVars PROVE AllReceiptsFit'
  <1>f. ReceiptsFit(Free)
    BY FreeIsRequest DEF ReceiptsFit
  <1>1. CASE UNCHANGED req
    BY <1>1 DEF AllReceiptsFit, ReceiptsFit
  <1>2. ASSUME NEW r \in Request, Send(r) PROVE AllReceiptsFit'
    <2> DEFINE records == [i \in DOMAIN batch |-> [key |-> batch[i], rev |-> rev[batch[i]]]]
               q == [Free EXCEPT !.pc = "sent", !.records = records]
    <2>1. req' = [req EXCEPT ![r] = q]
      BY <1>2 DEF Send
    <2>2. q.pc = "sent"
      <3> HIDE DEF records
      <3> DEFINE u == [Free EXCEPT !.pc = "sent"]
      <3>1. u = [pc |-> "sent", records |-> <<>>, slots |-> <<>>, status |-> 0, acks |-> <<>>]
        BY DEF Free
      <3>2. q = [u EXCEPT !.records = records]
        OBVIOUS
      <3> HIDE DEF u
      <3>3. q = [pc |-> "sent", records |-> records, slots |-> <<>>, status |-> 0, acks |-> <<>>]
        BY <3>1, <3>2
      <3> HIDE DEF q
      <3> QED
        BY <3>3
    <2> HIDE DEF q
    <2>3. ReceiptsFit(q)
      BY <2>2 DEF ReceiptsFit
    <2>4. \A p \in Request : req'[p] = IF p = r THEN q ELSE req[p]
      BY <2>1 DEF TypeOK
    <2> QED
      BY <2>3, <2>4 DEF AllReceiptsFit
  <1>3. ASSUME NEW r \in Request, req' = [req EXCEPT ![r] = Free] PROVE AllReceiptsFit'
    <2>1. \A p \in Request : req'[p] = IF p = r THEN Free ELSE req[p]
      BY <1>3 DEF TypeOK
    <2> QED
      BY <1>f, <2>1 DEF AllReceiptsFit
  <1>4. CASE TakeAnswer
    <2>1. mine \in Request /\ req' = [req EXCEPT ![mine] = Free]
      BY <1>4 DEF TakeAnswer, TypeOK
    <2> QED
      BY <1>3, <2>1
  <1>5. ASSUME NEW r \in Request, Drop(r) PROVE AllReceiptsFit'
    BY <1>3, <1>5 DEF Drop
  <1>6. CASE (\E k \in Key : Learn(k) \/ LateRow(k)) \/ StartUpload \/ NextBatch \/ GiveUp \/ Revoke
             \/ UNCHANGED ingestVars
    BY <1>1, <1>6 DEF Learn, LateRow, StartUpload, NextBatch, GiveUp, Revoke, ingestVars
  <1> QED
    BY <1>2, <1>4, <1>5, <1>6, RouteReceiptsFit, WorkerReceiptsFit DEF IngestNext

\* No request has a receipt yet.
LEMMA ReceiptsStart == IngestInit => AllReceiptsFit
  BY FreeIsRequest DEF IngestInit, AllReceiptsFit, ReceiptsFit

\* Of the invariant and the receipts: a complete answer accepts every record.
LEMMA StoredFollows == IngestFits /\ AllReceiptsFit => StoredIsAccepted
  BY DEF IngestFits, TypeOK, AllReceiptsFit, ReceiptsFit, StoredIsAccepted, Acknowledged, Verdict

\* A whole answer is accepted, unless the worker refused one of the records.
THEOREM WholeAnswerIsAccepted ==
    ASSUME None \notin Request
    PROVE  IngestSpec => []StoredIsAccepted
  <1>1. IngestFits => TypeOK
    BY DEF IngestFits
  <1> QED
    BY <1>1, ReceiptsStart, StoredFollows, ReceiptsStep, IngestIsSound, PTL DEF IngestSpec
=============================================================================
