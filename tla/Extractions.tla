---------------------------- MODULE Extractions -----------------------------
(***************************************************************************)
(* The documents of one organization and their extractions: the handlers   *)
(* of documents/routes.ts and extractions/routes.ts that insert and change *)
(* them, PostgresDocumentRepository, DocumentExtractionRepository and the  *)
(* tables documents and document_extractions.                              *)
(*                                                                         *)
(* A request is a process; a step is one SQL statement or transaction.     *)
(* The id of an extraction is named by the request that inserts it, that   *)
(* of a document by its checksum, which no two documents share.  Time      *)
(* counts microseconds, the precision of timestamptz; Grain of them are    *)
(* one millisecond, the precision of the Date that pg returns and of       *)
(* toISOString.  Two transactions never read the same now().               *)
(***************************************************************************)
EXTENDS Integers, FiniteSets

CONSTANTS
    Requests,     \* HTTP requests that may ever arrive
    Documents,    \* documents, by checksum
    Stored,       \* those that have a row at the start
    References,   \* pairs of source and external_reference
    Keys,         \* values of the Idempotency-Key header
    FieldKeys,    \* keys of extracted fields
    Values,       \* their values
    Results,      \* what the extraction worker may deliver
    Patches,      \* the fields a review may set
    Grain,        \* ticks in a millisecond
    MaxTime,      \* bound: the clock stops there
    NoRow, NoField, Nobody

ASSUME StoredAssumption == Stored \subseteq Documents
ASSUME TimeAssumption == Grain \in Nat \ {0} /\ MaxTime \in Nat

VARIABLES
    documents,     \* documents[d]: the reference of d's row, Nobody if null, or NoRow
    extractions,   \* extractions[x]: the row with id x, or NoRow
    clock,         \* the last now() some transaction read
    recorded,      \* the requests whose audit event is stored
    pc, call, reply,
    version,       \* history: how often the row of x was written
    written        \* history: the version each request wrote, 0 before

vars == <<documents, extractions, clock, recorded, pc, call, reply, version, written>>
table == <<documents, extractions, clock, version>>

Status == {"queued", "processing", "review_required", "completed", "failed"}

\* The fields of a row, or of a patch, as a function of their keys.
Fields == [FieldKeys -> Values \cup {NoField}]
Present(fields) == {f \in FieldKeys : fields[f] # NoField}
ASSUME FieldsAssumption ==
    /\ NoField \notin Values
    /\ Results \subseteq Fields
    /\ Patches \subseteq Fields /\ \A p \in Patches : Present(p) # {}

Extraction == [doc: Documents, key: Keys, status: Status, fields: Fields,
               updatedAt: Nat, completedAt: Nat]

\* What a request asks.  An intake has a reference or none, a creation of an
\* extraction a key, a review a patch; a review or completion has the token of the
\* row it names and, as history, the version the client saw, a creation whether its
\* document and key had a row when it arrived.  row is the extraction it is about.
Call == [op: {"intake", "create", "review", "complete"}, doc: Documents \cup {Nobody},
         reference: References \cup {Nobody}, key: Keys \cup {Nobody},
         patch: Fields \cup {NoRow}, row: Requests, expectedUpdatedAt: Nat, saw: Nat]
ASSUME NoRowAssumption ==
    /\ NoRow \notin Extraction \cup Call \cup Fields \cup References \cup {Nobody}
    /\ Nobody \notin Keys \cup Documents \cup References \cup Fields

Steps == {"receive", "find", "insert", "write", "explain", "audit"}
\* Of the 500s, "duplicate" is that of a violated unique constraint of extractions.
Refusals == {"checksum_conflict", "reference_conflict", "not_found",
             "field_not_found", "conflict", "invalid_state", "duplicate", "error"}
Replies == {"none", "received", "accepted", "reviewed", "completed"} \cup Refusals

TypeOK ==
    /\ documents \in [Documents -> References \cup {Nobody, NoRow}]
    /\ extractions \in [Requests -> Extraction \cup {NoRow}]
    /\ clock \in Nat
    /\ recorded \in SUBSET Requests
    /\ pc \in [Requests -> {"idle", "done"} \cup Steps]
    /\ call \in [Requests -> Call \cup {NoRow}]
    /\ reply \in [Requests -> Replies]
    /\ version \in [Requests -> Nat]
    /\ written \in [Requests -> Nat]

Received(d) == documents[d] # NoRow
Exists(x) == extractions[x] # NoRow

\* toISOString of a timestamp.
Token(t) == t - (t % Grain)

Init ==
    /\ documents = [d \in Documents |-> IF d \in Stored THEN Nobody ELSE NoRow]
    /\ extractions = [x \in Requests |-> NoRow]
    /\ clock = 0
    /\ recorded = {}
    /\ pc = [r \in Requests |-> "idle"]
    /\ call = [r \in Requests |-> NoRow]
    /\ reply = [r \in Requests |-> "none"]
    /\ version = [x \in Requests |-> 0]
    /\ written = [r \in Requests |-> 0]

Goto(r, next) == pc' = [pc EXCEPT ![r] = next] /\ UNCHANGED reply
Answer(r, answer) ==
    /\ pc' = [pc EXCEPT ![r] = "done"]
    /\ reply' = [reply EXCEPT ![r] = answer]

Arrive(r, c, first) ==
    /\ pc[r] = "idle"
    /\ call' = [call EXCEPT ![r] = c]
    /\ Goto(r, first)
    /\ UNCHANGED <<table, recorded, written>>

\* A statement that writes row at time now.
Write(x, row, now) ==
    /\ now <= MaxTime
    /\ clock' = now
    /\ UNCHANGED documents
    /\ extractions' = [extractions EXCEPT ![x] = row]
    /\ version' = [version EXCEPT ![x] = version[x] + 1]
Later == (clock + 1)..(clock + Grain)

-----------------------------------------------------------------------------
(* POST /documents                                                         *)

IntakeArrives(r, d, e) ==
    Arrive(r, [op |-> "intake", doc |-> d, reference |-> e, key |-> Nobody, patch |-> NoRow,
               row |-> r, expectedUpdatedAt |-> 0, saw |-> 0], "receive")

\* Fault: there is no index on source and external_reference.
TakenReference_Never(e) == FALSE
TakenReference(e) == e # Nobody /\ \E d \in Documents : documents[d] = e

\* create: the INSERT decides by the unique indexes; which of two violated ones
\* it reports is up to PostgreSQL.
ReceiveDocument(r) ==
    LET d == call[r].doc
        e == call[r].reference
    IN
    /\ pc[r] = "receive"
    /\ \/ /\ ~Received(d) /\ ~TakenReference(e)
          /\ documents' = [documents EXCEPT ![d] = e]
          /\ written' = [written EXCEPT ![r] = 1]
          /\ Goto(r, "audit")
       \/ /\ Received(d)
          /\ Answer(r, "checksum_conflict") /\ UNCHANGED <<documents, written>>
       \/ /\ TakenReference(e)
          /\ Answer(r, "reference_conflict") /\ UNCHANGED <<documents, written>>
    /\ UNCHANGED <<extractions, clock, version, recorded, call>>

-----------------------------------------------------------------------------
(* POST /documents/:documentId/extractions                                 *)

RowsFor(d, k) ==
    {x \in Requests : Exists(x) /\ extractions[x].doc = d /\ extractions[x].key = k}

CreateArrives(r, d, k) ==
    Arrive(r, [op |-> "create", doc |-> d, reference |-> Nobody, key |-> k, patch |-> NoRow,
               row |-> r, expectedUpdatedAt |-> 0,
               saw |-> IF RowsFor(d, k) = {} THEN 0 ELSE 1], "find")

\* Fault: keys are looked up in the organization, not in the document.
FindByIdempotency_AnyDocument(r) ==
    LET found == UNION {RowsFor(d, call[r].key) : d \in Documents} IN
    /\ pc[r] = "find"
    /\ \/ /\ found = {} /\ Goto(r, "insert") /\ UNCHANGED call
       \/ \E x \in found : call' = [call EXCEPT ![r].row = x] /\ Goto(r, "audit")
    /\ UNCHANGED <<table, recorded, written>>

\* Fault: only a row the worker has not taken is looked up.
FindByIdempotency_OnlyQueued(r) ==
    LET found == {x \in RowsFor(call[r].doc, call[r].key) : extractions[x].status = "queued"} IN
    /\ pc[r] = "find"
    /\ \/ /\ found = {} /\ Goto(r, "insert") /\ UNCHANGED call
       \/ \E x \in found : call' = [call EXCEPT ![r].row = x] /\ Goto(r, "audit")
    /\ UNCHANGED <<table, recorded, written>>

\* Fault: a replay is answered at once.
FindByIdempotency_NoEvent(r) ==
    LET found == RowsFor(call[r].doc, call[r].key) IN
    /\ pc[r] = "find"
    /\ \/ /\ found = {} /\ Goto(r, "insert") /\ UNCHANGED call
       \/ \E x \in found : call' = [call EXCEPT ![r].row = x] /\ Answer(r, "accepted")
    /\ UNCHANGED <<table, recorded, written>>

FindByIdempotency(r) ==
    LET found == RowsFor(call[r].doc, call[r].key) IN
    /\ pc[r] = "find"
    /\ \/ /\ found = {} /\ Goto(r, "insert") /\ UNCHANGED call
       \/ \E x \in found : call' = [call EXCEPT ![r].row = x] /\ Goto(r, "audit")
    /\ UNCHANGED <<table, recorded, written>>

\* Fault: idempotency keys have an index that is not unique.
Insert_NotUnique(r) ==
    LET d == call[r].doc
        k == call[r].key
    IN
    /\ pc[r] = "insert"
    /\ Received(d)
    /\ \E now \in Later :
          Write(r, [doc |-> d, key |-> k, status |-> "queued",
                    fields |-> [f \in FieldKeys |-> NoField],
                    updatedAt |-> now, completedAt |-> 0], now)
    /\ written' = [written EXCEPT ![r] = 1]
    /\ Goto(r, "audit")
    /\ UNCHANGED <<recorded, call>>

\* The INSERT and its COMMIT.  A row another transaction inserted since the
\* lookup violates the unique constraint, and that error is answered as such.
\* An INSERT that meets an open one waits for its end, which is either order.
Insert(r) ==
    LET d == call[r].doc
        k == call[r].key
    IN
    /\ pc[r] = "insert"
    /\ \/ /\ ~Received(d)
          /\ Answer(r, "not_found") /\ UNCHANGED <<table, written>>
       \/ /\ Received(d) /\ RowsFor(d, k) # {}
          /\ Answer(r, "duplicate") /\ UNCHANGED <<table, written>>
       \/ /\ Received(d) /\ RowsFor(d, k) = {}
          /\ \E now \in Later :
                Write(r, [doc |-> d, key |-> k, status |-> "queued",
                          fields |-> [f \in FieldKeys |-> NoField],
                          updatedAt |-> now, completedAt |-> 0], now)
          /\ written' = [written EXCEPT ![r] = 1]
          /\ Goto(r, "audit")
    /\ UNCHANGED <<recorded, call>>

-----------------------------------------------------------------------------
(* The extraction worker, which is not in the repository: what the         *)
(* statuses and the columns it must fill say of it.  It stamps what it     *)
(* writes, or the token would not be one.                                  *)

WorkerStarts(x) ==
    /\ Exists(x) /\ extractions[x].status = "queued"
    /\ \E now \in Later :
          Write(x, [extractions[x] EXCEPT !.status = "processing", !.updatedAt = now], now)
    /\ UNCHANGED <<recorded, pc, call, reply, written>>

WorkerEnds(x, status, fields) ==
    /\ Exists(x) /\ extractions[x].status = "processing"
    /\ \E now \in Later :
          Write(x, [extractions[x] EXCEPT !.status = status, !.fields = fields,
                                          !.updatedAt = now], now)
    /\ UNCHANGED <<recorded, pc, call, reply, written>>

WorkerDelivers(x) == \E fields \in Results : WorkerEnds(x, "review_required", fields)
WorkerFails(x) == Exists(x) /\ WorkerEnds(x, "failed", extractions[x].fields)

-----------------------------------------------------------------------------
(* PATCH .../review and POST .../complete: one UPDATE under the token, and *)
(* a second look for the reason when it changed no row.                    *)

\* The client sends the updatedAt it was shown last, or an id without a row.
ChangeArrives(r, op, x, patch) ==
    Arrive(r, [op |-> op, doc |-> Nobody, reference |-> Nobody, key |-> Nobody,
               patch |-> patch, row |-> x,
               expectedUpdatedAt |-> IF Exists(x) THEN Token(extractions[x].updatedAt) ELSE 0,
               saw |-> version[x]], "write")
ReviewArrives(r, x, patch) == ChangeArrives(r, "review", x, patch)
CompleteArrives(r, x) == ChangeArrives(r, "complete", x, NoRow)

\* Fault: the token is compared after both sides are cut to milliseconds.
TokenMatches_SameMillisecond(r) ==
    LET x == call[r].row
    IN Exists(x) /\ Token(extractions[x].updatedAt) = call[r].expectedUpdatedAt

TokenMatches(r) ==
    LET x == call[r].row
    IN Exists(x) /\ extractions[x].updatedAt = call[r].expectedUpdatedAt

\* Fault: the fields of the request replace the array.
Patched_WholeArray(fields, patch) == patch

\* jsonb_agg over no fields would be NULL, which the column does not take.
Patched(fields, patch) ==
    IF Present(fields) = {} THEN Nobody ELSE
    [f \in FieldKeys |-> IF NoField \in {fields[f], patch[f]} THEN fields[f] ELSE patch[f]]

\* The WHERE clause beyond ids and token: a review needs its fields, a completion
\* the status.
\* Fault: a review does not look for its fields.
Reviewable_AnyFields(row, patch) == TRUE
Reviewable(row, patch) == Present(patch) \subseteq Present(row.fields)

\* Fault: only the token guards a completion.
Completable_AnyStatus(row) == TRUE
Completable(row) == row.status = "review_required"

Apply(r, row, now) ==
    /\ Write(call[r].row, row, now)
    /\ written' = [written EXCEPT ![r] = version[call[r].row] + 1]
    /\ Goto(r, "audit")

Review(r) ==
    LET row == extractions[call[r].row] IN
    /\ pc[r] = "write" /\ call[r].op = "review"
    /\ IF TokenMatches(r) /\ Reviewable(row, call[r].patch)
       THEN \E now \in Later :
                Apply(r, [row EXCEPT !.fields = Patched(row.fields, call[r].patch),
                                     !.updatedAt = now], now)
       ELSE Goto(r, "explain") /\ UNCHANGED <<table, written>>
    /\ UNCHANGED <<recorded, call>>

Complete(r) ==
    LET row == extractions[call[r].row] IN
    /\ pc[r] = "write" /\ call[r].op = "complete"
    /\ IF TokenMatches(r) /\ Completable(row)
       THEN \E now \in Later :
                Apply(r, [row EXCEPT !.status = "completed", !.completedAt = now,
                                     !.updatedAt = now], now)
       ELSE Goto(r, "explain") /\ UNCHANGED <<table, written>>
    /\ UNCHANGED <<recorded, call>>

\* The second SELECT tells why: it may see a later row than the UPDATE did.
ExplainReview(r) ==
    LET x == call[r].row IN
    /\ pc[r] = "explain" /\ call[r].op = "review"
    /\ Answer(r, IF ~Exists(x) THEN "not_found"
                 ELSE IF ~Reviewable(extractions[x], call[r].patch) THEN "field_not_found"
                 ELSE "conflict")
    /\ UNCHANGED <<table, recorded, call, written>>

ExplainCompletion(r) ==
    LET x == call[r].row IN
    /\ pc[r] = "explain" /\ call[r].op = "complete"
    /\ Answer(r, IF ~Exists(x) THEN "not_found"
                 ELSE IF ~Completable(extractions[x]) THEN "invalid_state"
                 ELSE "conflict")
    /\ UNCHANGED <<table, recorded, call, written>>

-----------------------------------------------------------------------------

RecordAndAnswer(r) ==
    /\ pc[r] = "audit"
    /\ recorded' = recorded \cup {r}
    /\ Answer(r, CASE call[r].op = "intake" -> "received"
                   [] call[r].op = "create" -> "accepted"
                   [] call[r].op = "review" -> "reviewed"
                   [] call[r].op = "complete" -> "completed")
    /\ UNCHANGED <<table, call, written>>

\* A query fails or the process dies; what was committed stays.
RequestFails(r) ==
    /\ pc[r] \in Steps
    /\ Answer(r, "error")
    /\ UNCHANGED <<table, recorded, call, written>>

Next ==
    \/ \E r \in Requests :
        \/ \E d \in Documents, e \in References \cup {Nobody} : IntakeArrives(r, d, e)
        \/ \E d \in Documents, k \in Keys : CreateArrives(r, d, k)
        \/ \E x \in {q \in Requests : Exists(q)} \cup {r} :
              \/ \E patch \in Patches : ReviewArrives(r, x, patch)
              \/ CompleteArrives(r, x)
        \/ ReceiveDocument(r)
        \/ FindByIdempotency(r) \/ Insert(r)
        \/ Review(r) \/ Complete(r) \/ ExplainReview(r) \/ ExplainCompletion(r)
        \/ RecordAndAnswer(r) \/ RequestFails(r)
    \/ \E x \in Requests : WorkerStarts(x) \/ WorkerDelivers(x) \/ WorkerFails(x)

Spec == Init /\ [][Next]_vars

-----------------------------------------------------------------------------
(* Properties.                                                             *)

\* Documents are received once: a document that was not there at the start was
\* inserted by one request, which audited it unless it still runs or failed; no two
\* have one reference; and who is told of a conflict is not told of his own document
\* (two unique indexes decide; the audit event follows the committed INSERT).
Intakes(d) == {r \in Requests : written[r] > 0 /\ call[r].op = "intake" /\ call[r].doc = d}
ReceivedOnce ==
    /\ \A d \in Documents \ Stored : Received(d) =>
        \E r \in Requests : /\ Intakes(d) = {r}
                             /\ (r \in recorded \/ pc[r] = "audit" \/ reply[r] = "error")
    /\ \A d, c \in Documents : documents[d] \in References /\ documents[d] = documents[c] => d = c
    /\ \A r \in Requests :
        /\ reply[r] = "checksum_conflict" => Received(call[r].doc)
        /\ reply[r] = "reference_conflict" =>
              \E d \in Documents, q \in Requests \ {r} :
                  q \in Intakes(d) /\ call[q].reference = call[r].reference

\* Retries and races of a creation make one extraction of a document per key,
\* and everybody who is answered gets it: the one of his own document and key
\* (createOrReplay looks before it inserts, without a lock).
OneExtractionPerKey ==
    /\ \A d \in Documents, k \in Keys : Cardinality(RowsFor(d, k)) <= 1
    /\ \A r \in Requests :
        reply[r] = "accepted" => call[r].row \in RowsFor(call[r].doc, call[r].key)

\* A creation fails on the unique constraint only if it overlapped the one that took its
\* key: a retry sent when the row is there is never refused so, whatever became of the
\* row since and of the request that inserted it, and the refused client's next one
\* finds the row of another (createOrReplay looks before it inserts; its INSERT has no
\* ON CONFLICT).
DuplicateOnlyInRace ==
    \A r \in Requests : reply[r] = "duplicate" =>
        call[r].saw = 0 /\ RowsFor(call[r].doc, call[r].key) \ {r} # {}

\* A review or completion that took effect replaced the very version its client
\* was shown, though the token is coarser than updated_at, and no version of a
\* row was written twice.
AppliedToVersionSeen ==
    \A r \in Requests : written[r] > 0 =>
        /\ written[r] = call[r].saw + 1
        /\ \A q \in Requests \ {r} :
              written[q] > 0 /\ call[q].row = call[r].row => written[q] # written[r]

\* Extractions keep the promise of VersionedRows, with the worker as the other
\* writer: one extraction per document and key, and each review or completion replaces
\* the version its client was shown, once, or nothing.
Basis(r) ==
    IF call[r] = NoRow \/ written[r] > 0 THEN NoRow
    ELSE IF call[r].op \notin {"review", "complete"} THEN NoRow
    ELSE <<call[r].row, call[r].saw>>
Promise == INSTANCE VersionedRows WITH
    Rows <- Requests, Keys <- Documents \X Keys, Worked <- Requests, Nothing <- NoRow,
    rowsOf <- [dk \in Documents \X Keys |-> RowsFor(dk[1], dk[2])],
    basis <- [r \in Requests |-> Basis(r)]
ImplementsPromise == Promise!Spec

\* A field has the value of the last accepted review that set it: no accepted
\* correction is reverted by a concurrent one of another field (the CASE of
\* review's jsonb_agg, and its token).
Corrected(r) == Present(call[r].patch)
AcceptedReviews(x) ==
    {r \in Requests : written[r] > 0 /\ call[r].op = "review" /\ call[r].row = x}
CorrectionsHold ==
    \A x \in Requests : \A r \in AcceptedReviews(x) : \A f \in Corrected(r) :
        \/ extractions[x].fields[f] = call[r].patch[f]
        \/ \E q \in AcceptedReviews(x) : f \in Corrected(q) /\ written[q] > written[r]

\* An extraction is completed by exactly one request and once and for all;
\* completed_at is set with the status and never moves (complete's status test).
CompletedOnce ==
    [][\A x \in Requests : Exists(x) /\ extractions[x].status = "completed" =>
        /\ extractions'[x].status = "completed"
        /\ extractions'[x].completedAt = extractions[x].completedAt
        /\ Cardinality({r \in Requests : written'[r] > 0 /\ call'[r].op = "complete"
                                         /\ call'[r].row = x}) = 1]_vars

\* Whoever is told that his creation was accepted leaves an event of it, even if
\* the request that inserted the row died before its own (the handler records a
\* replay as well).
AcceptedIsAudited ==
    \A r \in Requests : reply[r] = "accepted" =>
        \E q \in recorded : call[q].op = "create" /\ call[q].row = call[r].row

\* The answer of EXTRACTION_REVIEW_CONFLICT and EXTRACTION_COMPLETION_CONFLICT,
\* "Extraction changed before this review could be applied.": the row is no
\* longer the version that the client read its token from.
ConflictMeansChanged ==
    \A r \in Requests : reply[r] = "conflict" => version[call[r].row] > call[r].saw
=============================================================================
