--------------------------- MODULE UploadAttempts ---------------------------
(***************************************************************************)
(* The persisted upload protocol of one organization: the two upload       *)
(* handlers of src/documents/routes.ts, DocumentUploadService, the         *)
(* document_upload_attempts table and the object store behind the signed   *)
(* upload targets.                                                         *)
(*                                                                         *)
(* An HTTP request is a process; a step is what it does between two        *)
(* awaits.  Every SQL statement of the code is scoped by organization_id,  *)
(* so the table of one organization is modelled.                           *)
(*                                                                         *)
(* createDocumentObjectKey draws a random UUID once in a request and the   *)
(* table draws the id of the row it inserts: both fresh values are named   *)
(* by the request that draws them, so object keys and attempt ids range    *)
(* over Requests.                                                          *)
(***************************************************************************)
EXTENDS FiniteSets

CONSTANTS
    Requests,    \* HTTP requests that may ever arrive
    Documents,   \* documents of the organization, each with its descriptor
    Keys,        \* values of the Idempotency-Key header
    Contents,    \* what a client may PUT through a signed target
    NoRow,       \* an id with no row in the table
    NoKey,       \* the key of a request that carries no key
    NoAttempt,   \* the attempt of a request that holds none yet
    NoCall       \* the locals of a request that has not arrived

\* What the object's metadata says when compared with the descriptor of its
\* document; "unlabelled" lacks the headers inspectObject needs.
Objects == {"absent", "matching", "differing", "unlabelled"}

ASSUME ContentsAssumption == Contents \subseteq Objects \ {"absent"}
ASSUME NullAssumption == NoAttempt \notin Requests /\ NoKey \notin Keys

VARIABLES
    attempts,    \* attempts[a]: the row with id a, or NoRow
    store,       \* store[o]: the object under object key o
    targets,     \* object keys with a signed URL that has not expired
    auditLog,    \* document.upload_completed events
    pc,          \* where each request is
    call,        \* the parameters and resolved locals of each request
    seen,        \* what inspectObject told each request
    reply,       \* the answer of each request
    soiled       \* history: keys that ever received a non-matching PUT

vars == <<attempts, store, targets, auditLog, pc, call, seen, reply, soiled>>

Status == {"initiated", "completed", "failed"}
Row == [doc: Documents, key: Keys, objectKey: Requests, status: Status]

ASSUME RowAssumption == NoRow \notin Row

\* "found" is the status of the attempt as the request first read it; what the
\* code calls replayed is found = "initiated" for an initiation and found =
\* "completed" for a completion.
Call == [doc: Documents, key: Keys \cup {NoKey},
         attempt: Requests \cup {NoAttempt}, found: Status \cup {"nothing"}]
Event == [request: Requests, attempt: Requests, found: Status]

InitiateSteps == {"lookup", "create", "target"}
CompleteSteps == {"find", "inspect", "cleanup", "fail", "commit", "audit"}
Steps == InitiateSteps \cup CompleteSteps
Replies == {"none", "target", "completed", "conflict", "not_found", "error"}

TypeOK ==
    /\ attempts \in [Requests -> Row \cup {NoRow}]
    /\ store \in [Requests -> Objects]
    /\ targets \in SUBSET Requests
    /\ auditLog \in SUBSET Event
    /\ pc \in [Requests -> {"idle", "done"} \cup Steps]
    /\ call \in [Requests -> Call \cup {NoCall}]
    /\ seen \in [Requests -> Objects \cup {"unread", "error"}]
    /\ reply \in [Requests -> Replies]
    /\ soiled \in SUBSET Requests

Exists(a) == attempts[a] # NoRow
RowsFor(k) == {a \in Requests : Exists(a) /\ attempts[a].key = k}
ObjectOf(r) == attempts[call[r].attempt].objectKey

Init ==
    /\ attempts = [a \in Requests |-> NoRow]
    /\ store = [o \in Requests |-> "absent"]
    /\ targets = {}
    /\ auditLog = {}
    /\ pc = [r \in Requests |-> "idle"]
    /\ call = [r \in Requests |-> NoCall]
    /\ seen = [r \in Requests |-> "unread"]
    /\ reply = [r \in Requests |-> "none"]
    /\ soiled = {}

-----------------------------------------------------------------------------
(* Control of a request.                                                   *)

Goto(r, next) == pc' = [pc EXCEPT ![r] = next] /\ UNCHANGED reply

Answer(r, answer) ==
    /\ pc' = [pc EXCEPT ![r] = "done"]
    /\ reply' = [reply EXCEPT ![r] = answer]

\* The handler rejects: an attempt that was initiated when it was read is
\* marked failed first, a completed one is left alone.
Reject(r) == IF call[r].found = "completed" THEN Answer(r, "error") ELSE Goto(r, "fail")

\* The handler keeps attempt a, which it read with this status.
Hold(r, a, status) ==
    call' = [call EXCEPT ![r] = [doc |-> call[r].doc, key |-> call[r].key,
                                 attempt |-> a, found |-> status]]

-----------------------------------------------------------------------------
(* POST /documents/:id/uploads                                             *)

Initiate(r, d, k) ==
    /\ pc[r] = "idle"
    /\ call' = [call EXCEPT ![r] = [doc |-> d, key |-> k, attempt |-> NoAttempt,
                                    found |-> "nothing"]]
    /\ Goto(r, "lookup")
    /\ UNCHANGED <<attempts, store, targets, auditLog, seen, soiled>>

\* initiatePersisted up to its first branch: an existing attempt is replayed
\* when it is for this document and still open.
LookupKey(r) ==
    /\ pc[r] = "lookup"
    /\ \/ /\ RowsFor(call[r].key) = {}
          /\ Goto(r, "create")
          /\ UNCHANGED call
       \/ \E a \in RowsFor(call[r].key) :
            IF attempts[a].doc = call[r].doc /\ attempts[a].status = "initiated"
            THEN Hold(r, a, "initiated") /\ Goto(r, "target")
            ELSE Answer(r, "conflict") /\ UNCHANGED call
    /\ UNCHANGED <<attempts, store, targets, auditLog, seen, soiled>>

\* createOrGet, one transaction: the unique index on (organization, key)
\* makes a concurrent insert of the same key wait and then find the row.
CreateOrGet(r) ==
    /\ pc[r] = "create"
    /\ \/ /\ RowsFor(call[r].key) = {}
          /\ attempts' = [attempts EXCEPT ![r] =
                [doc |-> call[r].doc, key |-> call[r].key,
                 objectKey |-> r, status |-> "initiated"]]
          /\ Hold(r, r, "nothing")
          /\ Goto(r, "target")
       \/ \E a \in RowsFor(call[r].key) :
            /\ IF attempts[a].doc = call[r].doc /\ attempts[a].objectKey = r
               THEN Hold(r, a, "nothing") /\ Goto(r, "target")
               ELSE Answer(r, "conflict") /\ UNCHANGED call
            /\ UNCHANGED attempts
    /\ UNCHANGED <<store, targets, auditLog, seen, soiled>>

\* Fault: the target is signed for the key drawn by this request.
IssueTarget_OwnKey(r) ==
    /\ pc[r] = "target"
    /\ targets' = targets \cup {r}
    /\ Answer(r, "target")
    /\ UNCHANGED <<attempts, store, auditLog, call, seen, soiled>>

\* createTarget signs a URL for the persisted object key, without another look
\* at the attempt's status.
IssueTarget(r) ==
    /\ pc[r] = "target"
    /\ targets' = targets \cup {ObjectOf(r)}
    /\ Answer(r, "target")
    /\ UNCHANGED <<attempts, store, auditLog, call, seen, soiled>>

-----------------------------------------------------------------------------
(* POST /documents/:id/uploads/:attemptId/complete                         *)

Complete(r, d, a) ==
    /\ pc[r] = "idle"
    /\ call' = [call EXCEPT ![r] = [doc |-> d, key |-> NoKey, attempt |-> a,
                                    found |-> "nothing"]]
    /\ Goto(r, "find")
    /\ UNCHANGED <<attempts, store, targets, auditLog, seen, soiled>>

FindAttempt(r) ==
    LET a == call[r].attempt IN
    /\ pc[r] = "find"
    /\ IF ~Exists(a) \/ attempts[a].doc # call[r].doc
       THEN Answer(r, "not_found") /\ UNCHANGED call
       ELSE IF attempts[a].status = "failed"
            THEN Answer(r, "conflict") /\ UNCHANGED call
            ELSE Hold(r, a, attempts[a].status) /\ Goto(r, "inspect")
    /\ UNCHANGED <<attempts, store, targets, auditLog, seen, soiled>>

\* inspectObject and assertStoredObject.  An unlabelled object is reported as
\* missing, so only an object that differs is cleaned up.
Inspect(r) ==
    /\ pc[r] = "inspect"
    /\ seen' = [seen EXCEPT ![r] = store[ObjectOf(r)]]
    /\ CASE seen'[r] = "matching" ->
                Goto(r, IF call[r].found = "completed" THEN "audit" ELSE "commit")
         [] seen'[r] = "differing" -> Goto(r, "cleanup")
         [] OTHER -> Reject(r)
    /\ UNCHANGED <<attempts, store, targets, auditLog, call, soiled>>

\* Fault: a provider error is cleaned up like an object that differs.
InspectThrows_CleansUp(r) ==
    /\ pc[r] = "inspect"
    /\ seen' = [seen EXCEPT ![r] = "error"]
    /\ Goto(r, "cleanup")
    /\ UNCHANGED <<attempts, store, targets, auditLog, call, soiled>>

\* HEAD fails with anything but "not found": the error leaves verifyCompletion
\* the way an integrity error does.
InspectThrows(r) ==
    /\ pc[r] = "inspect"
    /\ seen' = [seen EXCEPT ![r] = "error"]
    /\ Reject(r)
    /\ UNCHANGED <<attempts, store, targets, auditLog, call, soiled>>

\* deleteObject acts on whatever the key holds by now; its errors are
\* swallowed, so the object may also stay.
Cleanup(r) ==
    /\ pc[r] = "cleanup"
    /\ store' \in {store, [store EXCEPT ![ObjectOf(r)] = "absent"]}
    /\ Reject(r)
    /\ UNCHANGED <<attempts, targets, auditLog, call, seen, soiled>>

\* Fault: the update has no status = 'initiated' in its WHERE clause.
MarkFailed_Unguarded(r) ==
    /\ pc[r] = "fail"
    /\ attempts' = [attempts EXCEPT ![call[r].attempt].status = "failed"]
    /\ Answer(r, "error")
    /\ UNCHANGED <<store, targets, auditLog, call, seen, soiled>>

\* Fault: a status the table's CHECK constraint does not know.
MarkFailed_UnknownStatus(r) ==
    /\ pc[r] = "fail"
    /\ attempts' = [attempts EXCEPT ![call[r].attempt].status = "rejected"]
    /\ Answer(r, "error")
    /\ UNCHANGED <<store, targets, auditLog, call, seen, soiled>>

\* attempts.fail: the update takes effect only WHERE status = 'initiated'; the
\* integrity error is rethrown whatever it returned.
MarkFailed(r) ==
    LET a == call[r].attempt IN
    /\ pc[r] = "fail"
    /\ attempts' = IF attempts[a].status = "initiated"
                   THEN [attempts EXCEPT ![a].status = "failed"]
                   ELSE attempts
    /\ Answer(r, "error")
    /\ UNCHANGED <<store, targets, auditLog, call, seen, soiled>>

\* Fault: the row read back is taken for a success whatever its status.
MarkCompleted_AnyRow(r) ==
    LET a == call[r].attempt IN
    /\ pc[r] = "commit"
    /\ attempts' = IF attempts[a].status = "initiated"
                   THEN [attempts EXCEPT ![a].status = "completed"]
                   ELSE attempts
    /\ Goto(r, "audit")
    /\ UNCHANGED <<store, targets, auditLog, call, seen, soiled>>

\* attempts.complete: compare-and-set, else read back the row and accept it
\* when another request completed it.
MarkCompleted(r) ==
    LET a == call[r].attempt IN
    /\ pc[r] = "commit"
    /\ attempts' = IF attempts[a].status = "initiated"
                   THEN [attempts EXCEPT ![a].status = "completed"]
                   ELSE attempts
    /\ IF attempts'[a].status = "completed"
       THEN Goto(r, "audit")
       ELSE Answer(r, "conflict")
    /\ UNCHANGED <<store, targets, auditLog, call, seen, soiled>>

\* auditService.record, then 200.
RecordCompletion(r) ==
    /\ pc[r] = "audit"
    /\ auditLog' = auditLog \cup {[request |-> r, attempt |-> call[r].attempt,
                                   found |-> call[r].found]}
    /\ Answer(r, "completed")
    /\ UNCHANGED <<attempts, store, targets, call, seen, soiled>>

-----------------------------------------------------------------------------
(* Failures and the environment.                                           *)

\* Fault: the try block around the verification takes in the update as well.
RequestFails_MarksFailed(r) ==
    /\ pc[r] \in Steps
    /\ IF pc[r] = "commit" THEN Goto(r, "fail") ELSE Answer(r, "error")
    /\ UNCHANGED <<attempts, store, targets, auditLog, call, seen, soiled>>

\* A query is rejected, the provider refuses to sign, or the process dies: what
\* the request did so far stays and the client gets a 500 or no answer.
RequestFails(r) ==
    /\ pc[r] \in Steps
    /\ Answer(r, "error")
    /\ UNCHANGED <<attempts, store, targets, auditLog, call, seen, soiled>>

\* The holder of a signed URL writes the object, any number of times.
PutObject(o, c) ==
    /\ o \in targets
    /\ store' = [store EXCEPT ![o] = c]
    /\ soiled' = IF c = "matching" THEN soiled ELSE soiled \cup {o}
    /\ UNCHANGED <<attempts, targets, auditLog, pc, call, seen, reply>>

ExpireTarget(o) ==
    /\ o \in targets
    /\ targets' = targets \ {o}
    /\ UNCHANGED <<attempts, store, auditLog, pc, call, seen, reply, soiled>>

Handle(r) ==
    \/ LookupKey(r) \/ CreateOrGet(r) \/ IssueTarget(r)
    \/ FindAttempt(r) \/ Inspect(r) \/ InspectThrows(r) \/ Cleanup(r)
    \/ MarkFailed(r) \/ MarkCompleted(r) \/ RecordCompletion(r)
    \/ RequestFails(r)

Next ==
    \/ \E r \in Requests :
        \/ \E d \in Documents, k \in Keys : Initiate(r, d, k)
        \/ \E d \in Documents, a \in Requests : Complete(r, d, a)
        \/ Handle(r)
    \/ \E o \in Requests : ExpireTarget(o) \/ \E c \in Contents : PutObject(o, c)

Spec == Init /\ [][Next]_vars

-----------------------------------------------------------------------------
(* What the protocol promises, in terms of the attempts alone.             *)

Verified == {call[r].attempt : r \in {q \in Requests : seen[q] = "matching"}}

Contract == INSTANCE UploadContract
    WITH Ids <- Requests, ledger <- attempts, verified <- Verified

\* The protocol implements its contract: an idempotency key opens one attempt,
\* whose document, key and object key never change, an attempt is decided once,
\* and is completed only after some request saw a matching object under its
\* object key (initiatePersisted, createOrGet, complete and fail).
ImplementsContract == Contract!Spec

(* Properties.                                                             *)

\* A 200 from the completion handler is true for good: the attempt the request
\* named is completed, belongs to the document of the URL, and the request has
\* its audit event, whatever other requests did meanwhile.
CompletedReplyHolds ==
    \A r \in Requests : reply[r] = "completed" =>
        LET a == call[r].attempt IN
        /\ Exists(a)
        /\ attempts[a].status = "completed"
        /\ attempts[a].doc = call[r].doc
        /\ \E e \in auditLog : e.request = r /\ e.attempt = a

\* No race of the service's own requests loses a good upload: as long as no
\* client ever put other bytes under its object key, the object of a completed
\* attempt is there and matches (verifyCompletion deletes objects outside any
\* transaction with the attempts table).
CompletedObjectIntact ==
    \A a \in Requests :
        Exists(a) /\ attempts[a].status = "completed" /\ attempts[a].objectKey \notin soiled
            => store[attempts[a].objectKey] = "matching"

\* A signed upload target always leads to the object key of a persisted attempt
\* for a document, never to a key that lost the race for its idempotency key.
TargetsAreAccountedFor ==
    \A o \in targets : \E a \in Requests : Exists(a) /\ attempts[a].objectKey = o

\* An attempt is closed as failed only after a completion request for it found
\* something wrong: no object, another object, or no answer from the provider.
FailedHasCause ==
    \A a \in Requests : Exists(a) /\ attempts[a].status = "failed" =>
        \E r \in Requests :
            /\ pc[r] = "done" /\ call[r].attempt = a
            /\ seen[r] \in {"absent", "differing", "unlabelled", "error"}

(* A statement of the code's comments that the code does not keep.         *)

\* upload-service.ts: "A concurrent request may have won the idempotency race.
\* Always trust the persisted key."  A request for the same key and document as
\* an open attempt is answered with that attempt.
SameRequestIsReplayed ==
    \A r \in Requests : reply[r] = "conflict" /\ call[r].key # NoKey =>
        ~\E a \in RowsFor(call[r].key) :
            attempts[a].doc = call[r].doc /\ attempts[a].status = "initiated"
=============================================================================
