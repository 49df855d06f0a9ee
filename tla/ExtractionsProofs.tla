------------------------- MODULE ExtractionsProofs --------------------------
(***************************************************************************)
(* Proofs about Extractions, for every set of requests, documents,         *)
(* references, keys, fields and patches, every grain of the token and      *)
(* every bound on time.                                                    *)
(***************************************************************************)
EXTENDS Extractions, FiniteSetTheorems, TLAPS

\* The values that stand for nothing are not values of what they stand in for.
LEMMA Nulls ==
    /\ NoRow \notin Extraction /\ NoRow \notin Call /\ NoRow \notin Fields
    /\ NoRow \notin References /\ NoRow # Nobody
    /\ Nobody \notin Keys /\ Nobody \notin Documents /\ Nobody \notin References
    /\ Nobody \notin Fields
BY NoRowAssumption

\* A token is a time, and not after the time it was made of (toISOString).
LEMMA TokenIsEarlier ==
    ASSUME NEW t \in Nat
    PROVE  Token(t) \in Nat /\ Token(t) <= t
<1>1. Grain \in Nat /\ Grain > 0
  BY TimeAssumption
<1>2. t % Grain \in 0..(Grain - 1)
  BY <1>1
<1>3. t = Grain * (t \div Grain) + (t % Grain) /\ t \div Grain \in Nat
  BY <1>1
<1>4. Grain * (t \div Grain) \in Nat
  BY <1>1, <1>3
<1>5. QED
  BY <1>2, <1>3, <1>4 DEF Token

-----------------------------------------------------------------------------
(* What the place of a request says.                                       *)

\* What each kind of request asks for.
CallMeans(r) ==
    /\ call[r].op = "intake" =>
          call[r].doc \in Documents /\ call[r].row = r /\ call[r].saw = 0
    /\ call[r].op = "create" =>
          call[r].doc \in Documents /\ call[r].key \in Keys
    /\ call[r].op = "review" => call[r].patch \in Patches

\* A request has written nothing until it reaches its audit event.
PlaceMeans ==
    \A r \in Requests :
        /\ pc[r] = "idle" => call[r] = NoRow
        /\ pc[r] # "idle" => call[r] \in Call /\ CallMeans(r)
        /\ pc[r] \notin {"audit", "done"} => written[r] = 0
        /\ pc[r] # "done" => reply[r] = "none" /\ r \notin recorded
        /\ pc[r] = "receive" => call[r].op = "intake"
        /\ pc[r] \in {"find", "insert"} => call[r].op = "create" /\ call[r].row = r
        /\ pc[r] \in {"write", "explain"} => call[r].op \in {"review", "complete"}

\* A row was inserted by the request that names it, with the document and the key it
\* asked for, at a time that has passed.
RowsOfTheirCreator ==
    \A x \in Requests :
        /\ Exists(x) =>
              /\ pc[x] \in {"audit", "done"} /\ written[x] = 1
              /\ call[x].op = "create" /\ call[x].row = x
              /\ call[x].doc = extractions[x].doc /\ call[x].key = extractions[x].key
              /\ version[x] > 0 /\ extractions[x].updatedAt \in 1..clock
        /\ ~Exists(x) => version[x] = 0

StructInv == TypeOK /\ PlaceMeans /\ RowsOfTheirCreator

\* With no request and no extraction it holds.
LEMMA StructInit == Init => StructInv
BY StoredAssumption
   DEF Init, StructInv, TypeOK, PlaceMeans, RowsOfTheirCreator, Exists, Steps, Replies

-----------------------------------------------------------------------------
(* What the steps do.                                                      *)

\* A statement writes the row x, at a time later than any before.
Changes(x) ==
    /\ clock' \in Nat /\ clock' > clock /\ UNCHANGED documents
    /\ extractions'[x] \in Extraction /\ extractions'[x].updatedAt = clock'
    /\ extractions' \in [Requests -> Extraction \cup {NoRow}]
    /\ \A y \in Requests \ {x} : extractions'[y] = extractions[y]
    /\ version'[x] = version[x] + 1 /\ version' \in [Requests -> Nat]
    /\ \A y \in Requests \ {x} : version'[y] = version[y]

\* It writes an existing row, of which it leaves the document and the key.
Updates(x) ==
    /\ Changes(x)
    /\ Exists(x) /\ extractions[x] \in Extraction
    /\ extractions'[x].doc = extractions[x].doc /\ extractions'[x].key = extractions[x].key

\* No request moves but r.
Moves(r) ==
    /\ UNCHANGED recorded
    /\ \A q \in Requests \ {r} :
        pc'[q] = pc[q] /\ call'[q] = call[q] /\ reply'[q] = reply[q] /\ written'[q] = written[q]

\* A statement that writes a row is a change of it.
LEMMA WriteChanges ==
    ASSUME StructInv, NEW x \in Requests, NEW row \in Extraction, NEW now \in Later,
           row.updatedAt = now, Write(x, row, now)
    PROVE  Changes(x) /\ clock' = now /\ extractions'[x] = row
BY TimeAssumption DEF StructInv, TypeOK, Write, Later, Changes

\* The INSERT makes a queued row of a document that is there, under a key that has none,
\* or it answers.
LEMMA InsertMeans ==
    ASSUME StructInv, NEW r \in Requests, Insert(r)
    PROVE  /\ pc[r] = "insert" /\ call[r] \in Call /\ call[r].op = "create" /\ call[r].row = r
           /\ call[r].doc \in Documents /\ call[r].key \in Keys
           /\ ~Exists(r) /\ version[r] = 0 /\ written[r] = 0
           /\ UNCHANGED <<documents, call>> /\ Moves(r)
           /\ pc' \in [Requests -> {"idle", "done"} \cup Steps]
           /\ reply' \in [Requests -> Replies] /\ written' \in [Requests -> Nat]
           /\ \/ /\ Received(call[r].doc) /\ RowsFor(call[r].doc, call[r].key) = {}
                 /\ Changes(r)
                 /\ extractions'[r].doc = call[r].doc /\ extractions'[r].key = call[r].key
                 /\ extractions'[r].status = "queued"
                 /\ extractions'[r].fields = [f \in FieldKeys |-> NoField]
                 /\ written'[r] = 1 /\ pc'[r] = "audit" /\ reply'[r] = "none"
              \/ /\ UNCHANGED <<table, written>>
                 /\ pc'[r] = "done" /\ reply'[r] \in {"not_found", "duplicate"}
                 /\ reply'[r] = "duplicate" => RowsFor(call[r].doc, call[r].key) # {}
<1> DEFINE d == call[r].doc
           k == call[r].key
           Row(now) == [doc |-> d, key |-> k, status |-> "queued",
                        fields |-> [f \in FieldKeys |-> NoField],
                        updatedAt |-> now, completedAt |-> 0]
<1>1. /\ pc[r] = "insert" /\ call[r] \in Call /\ call[r].op = "create" /\ call[r].row = r
      /\ d \in Documents /\ k \in Keys
      /\ ~Exists(r) /\ version[r] = 0 /\ written[r] = 0 /\ reply[r] = "none"
      /\ UNCHANGED <<recorded, call>>
  BY DEF Insert, StructInv, PlaceMeans, CallMeans, RowsOfTheirCreator
<1>2. CASE /\ Received(d) /\ RowsFor(d, k) = {}
           /\ \E now \in Later : Write(r, Row(now), now)
           /\ written' = [written EXCEPT ![r] = 1]
           /\ Goto(r, "audit")
  <2>1. PICK now \in Later : Write(r, Row(now), now)
    BY <1>2
  <2>2. now \in Nat
    BY DEF Later, StructInv, TypeOK
  <2>3. Row(now) \in Extraction
    BY <1>1, <2>2 DEF Extraction, Status, Fields
  <2>4. Changes(r) /\ extractions'[r] = Row(now)
    BY <2>1, <2>3, WriteChanges
  <2>5. /\ pc' = [pc EXCEPT ![r] = "audit"] /\ reply' = reply
        /\ written' = [written EXCEPT ![r] = 1]
    BY <1>2 DEF Goto
  <2>6. QED
    BY <1>1, <1>2, <2>4, <2>5 DEF Changes, Moves, StructInv, TypeOK, Steps
<1>3. CASE Answer(r, "not_found") /\ UNCHANGED <<table, written>>
  BY <1>1, <1>3 DEF Answer, Moves, StructInv, TypeOK, table, Replies, Refusals
<1>4. CASE RowsFor(d, k) # {} /\ Answer(r, "duplicate") /\ UNCHANGED <<table, written>>
  BY <1>1, <1>4 DEF Answer, Moves, StructInv, TypeOK, table, Replies, Refusals
<1>5. QED
  <2>1. \/ /\ Received(d) /\ RowsFor(d, k) = {}
           /\ \E now \in Later : Write(r, Row(now), now)
           /\ written' = [written EXCEPT ![r] = 1]
           /\ Goto(r, "audit")
        \/ Answer(r, "not_found") /\ UNCHANGED <<table, written>>
        \/ RowsFor(d, k) # {} /\ Answer(r, "duplicate") /\ UNCHANGED <<table, written>>
    BY DEF Insert
  <2>2. QED
    BY <1>2, <1>3, <1>4, <2>1

\* A request that changes a row replaces the version whose token it has.
Applies(r) ==
    /\ Updates(call[r].row)
    /\ extractions[call[r].row].updatedAt = call[r].expectedUpdatedAt
    /\ written'[r] = version[call[r].row] + 1
    /\ pc'[r] = "audit" /\ reply'[r] = "none"

\* One that changes none looks for the reason.
Misses(r) ==
    /\ UNCHANGED <<table, written>>
    /\ pc'[r] = "explain" /\ reply'[r] = "none"

\* A patch that a row has the fields for gives the row fields of the same keys.
LEMMA PatchedFields ==
    ASSUME NEW row \in Extraction, NEW patch \in Patches, Reviewable(row, patch)
    PROVE  /\ Patched(row.fields, patch) \in Fields
           /\ Patched(row.fields, patch) =
                [f \in FieldKeys |-> IF NoField \in {row.fields[f], patch[f]}
                                     THEN row.fields[f] ELSE patch[f]]
           /\ Present(Patched(row.fields, patch)) = Present(row.fields)
<1>1. row.fields \in Fields /\ patch \in Fields /\ Present(patch) # {}
  BY FieldsAssumption DEF Extraction
<1>2. Present(row.fields) # {}
  BY <1>1 DEF Reviewable
<1>3. Patched(row.fields, patch) =
        [f \in FieldKeys |-> IF NoField \in {row.fields[f], patch[f]}
                             THEN row.fields[f] ELSE patch[f]]
  BY <1>2 DEF Patched
<1>4. QED
  BY <1>1, <1>3 DEF Fields, Present

\* A review sets fields the row has and leaves the rest of it.
LEMMA ReviewMeans ==
    ASSUME StructInv, NEW r \in Requests, Review(r)
    PROVE  /\ pc[r] = "write" /\ call[r] \in Call /\ call[r].op = "review"
           /\ call[r].patch \in Patches /\ written[r] = 0
           /\ UNCHANGED <<documents, call>> /\ Moves(r)
           /\ pc' \in [Requests -> {"idle", "done"} \cup Steps]
           /\ reply' \in [Requests -> Replies] /\ written' \in [Requests -> Nat]
           /\ \/ /\ Applies(r)
                 /\ LET row == extractions[call[r].row]
                        new == extractions'[call[r].row] IN
                    /\ Reviewable(row, call[r].patch)
                    /\ new.status = row.status /\ new.completedAt = row.completedAt
                    /\ new.fields = Patched(row.fields, call[r].patch)
              \/ Misses(r)
<1> DEFINE x == call[r].row
           row == extractions[x]
           New(now) == [row EXCEPT !.fields = Patched(row.fields, call[r].patch),
                                   !.updatedAt = now]
<1>1. /\ pc[r] = "write" /\ call[r] \in Call /\ call[r].op = "review" /\ x \in Requests
      /\ call[r].patch \in Patches /\ written[r] = 0 /\ reply[r] = "none"
      /\ UNCHANGED <<recorded, call>>
  BY DEF Review, StructInv, PlaceMeans, CallMeans, Call
<1>2. CASE /\ TokenMatches(r) /\ Reviewable(row, call[r].patch)
           /\ \E now \in Later : Apply(r, New(now), now)
  <2>1. PICK now \in Later : Apply(r, New(now), now)
    BY <1>2
  <2>2. now \in Nat
    BY DEF Later, StructInv, TypeOK
  <2>3. row \in Extraction /\ Exists(x) /\ row.updatedAt = call[r].expectedUpdatedAt
    BY <1>1, <1>2 DEF TokenMatches, Exists, StructInv, TypeOK
  <2>4. Patched(row.fields, call[r].patch) \in Fields
    BY <1>1, <1>2, <2>3, PatchedFields
  <2>5. /\ New(now) \in Extraction /\ New(now).updatedAt = now
        /\ New(now).doc = row.doc /\ New(now).key = row.key
        /\ New(now).status = row.status /\ New(now).completedAt = row.completedAt
        /\ New(now).fields = Patched(row.fields, call[r].patch)
    BY <2>2, <2>3, <2>4 DEF Extraction
  <2>6. Changes(x) /\ extractions'[x] = New(now)
    BY <1>1, <2>1, <2>5, WriteChanges DEF Apply
  <2>7. /\ pc' = [pc EXCEPT ![r] = "audit"] /\ reply' = reply
        /\ written' = [written EXCEPT ![r] = version[x] + 1]
    BY <2>1 DEF Apply, Goto
  <2>8. Applies(r)
    BY <1>1, <2>3, <2>5, <2>6, <2>7 DEF Applies, Updates, StructInv, TypeOK
  <2>9. QED
    BY <1>1, <1>2, <2>5, <2>6, <2>7, <2>8 DEF Changes, Moves, StructInv, TypeOK, Steps
<1>3. CASE Goto(r, "explain") /\ UNCHANGED <<table, written>>
  BY <1>1, <1>3 DEF Goto, Misses, Moves, StructInv, TypeOK, table, Steps
<1>4. QED
  BY <1>2, <1>3 DEF Review

\* A completion sets the status of a row that is ready for review, and when.
LEMMA CompleteMeans ==
    ASSUME StructInv, NEW r \in Requests, Complete(r)
    PROVE  /\ pc[r] = "write" /\ call[r] \in Call /\ call[r].op = "complete" /\ written[r] = 0
           /\ UNCHANGED <<documents, call>> /\ Moves(r)
           /\ pc' \in [Requests -> {"idle", "done"} \cup Steps]
           /\ reply' \in [Requests -> Replies] /\ written' \in [Requests -> Nat]
           /\ \/ /\ Applies(r)
                 /\ LET row == extractions[call[r].row]
                        new == extractions'[call[r].row] IN
                    /\ row.status = "review_required" /\ new.status = "completed"
                    /\ new.fields = row.fields
              \/ Misses(r)
<1> DEFINE x == call[r].row
           row == extractions[x]
           New(now) == [row EXCEPT !.status = "completed", !.completedAt = now,
                                   !.updatedAt = now]
<1>1. /\ pc[r] = "write" /\ call[r] \in Call /\ call[r].op = "complete" /\ x \in Requests
      /\ written[r] = 0 /\ reply[r] = "none"
      /\ UNCHANGED <<recorded, call>>
  BY DEF Complete, StructInv, PlaceMeans, CallMeans, Call
<1>2. CASE /\ TokenMatches(r) /\ Completable(row)
           /\ \E now \in Later : Apply(r, New(now), now)
  <2>1. PICK now \in Later : Apply(r, New(now), now)
    BY <1>2
  <2>2. now \in Nat
    BY DEF Later, StructInv, TypeOK
  <2>3. row \in Extraction /\ Exists(x) /\ row.updatedAt = call[r].expectedUpdatedAt
    BY <1>1, <1>2 DEF TokenMatches, Exists, StructInv, TypeOK
  <2>4. /\ New(now) \in Extraction /\ New(now).updatedAt = now
        /\ New(now).doc = row.doc /\ New(now).key = row.key
        /\ New(now).status = "completed" /\ New(now).fields = row.fields
    BY <2>2, <2>3 DEF Extraction, Status
  <2>5. Changes(x) /\ extractions'[x] = New(now)
    BY <1>1, <2>1, <2>4, WriteChanges DEF Apply
  <2>6. /\ pc' = [pc EXCEPT ![r] = "audit"] /\ reply' = reply
        /\ written' = [written EXCEPT ![r] = version[x] + 1]
    BY <2>1 DEF Apply, Goto
  <2>7. Applies(r)
    BY <1>1, <2>3, <2>4, <2>5, <2>6 DEF Applies, Updates, StructInv, TypeOK
  <2>8. QED
    BY <1>1, <1>2, <2>4, <2>5, <2>6, <2>7 DEF Changes, Moves, StructInv, TypeOK, Steps,
       Completable
<1>3. CASE Goto(r, "explain") /\ UNCHANGED <<table, written>>
  BY <1>1, <1>3 DEF Goto, Misses, Moves, StructInv, TypeOK, table, Steps
<1>4. QED
  BY <1>2, <1>3 DEF Complete

\* The worker takes a queued row, fills in the fields of one it has taken, or fails it.
Works(x) == WorkerStarts(x) \/ WorkerDelivers(x) \/ WorkerFails(x)
LEMMA WorkMeans ==
    ASSUME StructInv, NEW x \in Requests, Works(x)
    PROVE  /\ UNCHANGED <<documents, recorded, pc, call, reply, written>>
           /\ Updates(x)
           /\ LET row == extractions[x]
                  new == extractions'[x] IN
              /\ row.status \in {"queued", "processing"}
              /\ \/ new.status = "processing" /\ new.fields = row.fields
                 \/ new.status = "review_required"
                 \/ new.status = "failed" /\ new.fields = row.fields
<1> DEFINE row == extractions[x]
           New(status, fields, now) == [row EXCEPT !.status = status, !.fields = fields,
                                                   !.updatedAt = now]
<1>1. Exists(x) /\ row \in Extraction
  BY DEF Works, WorkerStarts, WorkerDelivers, WorkerEnds, WorkerFails, StructInv, TypeOK, Exists
<1>2. CASE WorkerStarts(x)
  <2>1. PICK now \in Later :
            Write(x, [row EXCEPT !.status = "processing", !.updatedAt = now], now)
    BY <1>2 DEF WorkerStarts
  <2> DEFINE new == [row EXCEPT !.status = "processing", !.updatedAt = now]
  <2>2. now \in Nat
    BY DEF Later, StructInv, TypeOK
  <2>3. /\ new \in Extraction /\ new.updatedAt = now /\ new.doc = row.doc /\ new.key = row.key
        /\ new.status = "processing" /\ new.fields = row.fields
    BY <1>1, <2>2 DEF Extraction, Status
  <2>4. Changes(x) /\ extractions'[x] = new
    BY <2>1, <2>3, WriteChanges
  <2>5. QED
    BY <1>1, <1>2, <2>3, <2>4 DEF WorkerStarts, Updates, Changes
<1>3. ASSUME NEW status \in {"review_required", "failed"}, NEW fields \in Fields,
             WorkerEnds(x, status, fields)
      PROVE  /\ UNCHANGED <<documents, recorded, pc, call, reply, written>>
             /\ Updates(x) /\ row.status = "processing"
             /\ extractions'[x].status = status /\ extractions'[x].fields = fields
  <2>1. PICK now \in Later : Write(x, New(status, fields, now), now)
    BY <1>3 DEF WorkerEnds
  <2> DEFINE new == New(status, fields, now)
  <2>2. now \in Nat
    BY DEF Later, StructInv, TypeOK
  <2>3. /\ new \in Extraction /\ new.updatedAt = now /\ new.doc = row.doc /\ new.key = row.key
        /\ new.status = status /\ new.fields = fields
    BY <1>1, <2>2 DEF Extraction, Status
  <2>4. Changes(x) /\ extractions'[x] = new
    BY <2>1, <2>3, WriteChanges
  <2>5. QED
    BY <1>1, <1>3, <2>3, <2>4 DEF WorkerEnds, Updates, Changes
<1>4. CASE WorkerDelivers(x)
  <2>1. PICK fields \in Results : WorkerEnds(x, "review_required", fields)
    BY <1>4 DEF WorkerDelivers
  <2>2. fields \in Fields
    BY FieldsAssumption
  <2>3. QED
    BY <1>3, <2>1, <2>2
<1>5. CASE WorkerFails(x)
  <2>1. row.fields \in Fields /\ WorkerEnds(x, "failed", row.fields)
    BY <1>1, <1>5 DEF WorkerFails, Extraction
  <2>2. QED
    BY <1>3, <2>1
<1>6. QED
  BY <1>2, <1>4, <1>5 DEF Works

\* The INSERT of a document gives it its row, or the request is told of a conflict.
LEMMA ReceiveMeans ==
    ASSUME StructInv, NEW r \in Requests, ReceiveDocument(r)
    PROVE  /\ pc[r] = "receive" /\ call[r] \in Call /\ call[r].op = "intake"
           /\ call[r].doc \in Documents /\ call[r].row = r /\ written[r] = 0
           /\ UNCHANGED <<extractions, clock, version, call>> /\ Moves(r)
           /\ pc' \in [Requests -> {"idle", "done"} \cup Steps]
           /\ reply' \in [Requests -> Replies] /\ written' \in [Requests -> Nat]
           /\ documents' \in [Documents -> References \cup {Nobody, NoRow}]
           /\ LET d == call[r].doc
                  e == call[r].reference IN
              \/ /\ ~Received(d) /\ ~TakenReference(e)
                 /\ documents'[d] = e /\ e \in References \cup {Nobody}
                 /\ \A c \in Documents \ {d} : documents'[c] = documents[c]
                 /\ written'[r] = 1 /\ pc'[r] = "audit" /\ reply'[r] = "none"
              \/ /\ UNCHANGED <<documents, written>> /\ pc'[r] = "done"
                 /\ \/ reply'[r] = "checksum_conflict" /\ Received(d)
                    \/ reply'[r] = "reference_conflict" /\ TakenReference(e)
<1> DEFINE d == call[r].doc
           e == call[r].reference
<1>1. /\ pc[r] = "receive" /\ call[r] \in Call /\ call[r].op = "intake" /\ d \in Documents
      /\ call[r].row = r /\ written[r] = 0 /\ reply[r] = "none"
      /\ UNCHANGED <<extractions, clock, version, recorded, call>>
  BY DEF ReceiveDocument, StructInv, PlaceMeans, CallMeans
<1>2. CASE /\ ~Received(d) /\ ~TakenReference(e)
           /\ documents' = [documents EXCEPT ![d] = e]
           /\ written' = [written EXCEPT ![r] = 1]
           /\ Goto(r, "audit")
  <2>1. e \in References \cup {Nobody}
    BY <1>1 DEF Call
  <2>2. QED
    BY <1>1, <1>2, <2>1 DEF Goto, Moves, StructInv, TypeOK, Steps
<1>3. CASE /\ UNCHANGED <<documents, written>>
           /\ \/ Received(d) /\ Answer(r, "checksum_conflict")
              \/ TakenReference(e) /\ Answer(r, "reference_conflict")
  BY <1>1, <1>3 DEF Answer, Moves, StructInv, TypeOK, Replies, Refusals
<1>4. QED
  BY <1>2, <1>3 DEF ReceiveDocument

\* The lookup finds the row of the document and key that are asked for, or goes on.
LEMMA FindMeans ==
    ASSUME StructInv, NEW r \in Requests, FindByIdempotency(r)
    PROVE  /\ pc[r] = "find" /\ call[r] \in Call /\ call[r].op = "create"
           /\ call[r].doc \in Documents /\ call[r].key \in Keys /\ written[r] = 0 /\ ~Exists(r)
           /\ UNCHANGED <<documents, extractions, clock, version, written, reply>> /\ Moves(r)
           /\ pc' \in [Requests -> {"idle", "done"} \cup Steps]
           /\ call' \in [Requests -> Call \cup {NoRow}] /\ call'[r] \in Call
           /\ call'[r].op = "create" /\ call'[r].doc = call[r].doc /\ call'[r].key = call[r].key
           /\ call'[r].saw = call[r].saw
           /\ \/ /\ UNCHANGED call /\ call[r].row = r /\ pc'[r] = "insert"
                 /\ RowsFor(call[r].doc, call[r].key) = {}
              \/ call'[r].row \in RowsFor(call[r].doc, call[r].key) /\ pc'[r] = "audit"
<1>1. /\ pc[r] = "find" /\ call[r] \in Call /\ call[r].op = "create" /\ call[r].row = r
      /\ call[r].doc \in Documents /\ call[r].key \in Keys /\ written[r] = 0 /\ ~Exists(r)
      /\ UNCHANGED <<documents, extractions, clock, version, recorded, written>>
  BY DEF FindByIdempotency, StructInv, PlaceMeans, CallMeans, RowsOfTheirCreator, table
<1>2. CASE /\ RowsFor(call[r].doc, call[r].key) = {}
           /\ Goto(r, "insert") /\ UNCHANGED call
  BY <1>1, <1>2 DEF Goto, Moves, StructInv, TypeOK, Steps
<1>3. ASSUME NEW x \in RowsFor(call[r].doc, call[r].key),
             call' = [call EXCEPT ![r].row = x], Goto(r, "audit")
      PROVE  /\ UNCHANGED reply /\ Moves(r)
             /\ pc' \in [Requests -> {"idle", "done"} \cup Steps] /\ pc'[r] = "audit"
             /\ call' \in [Requests -> Call \cup {NoRow}] /\ call'[r] \in Call
             /\ call'[r].op = "create" /\ call'[r].doc = call[r].doc
             /\ call'[r].key = call[r].key /\ call'[r].saw = call[r].saw /\ call'[r].row = x
  <2>1. x \in Requests
    BY DEF RowsFor
  <2>2. /\ call'[r] \in Call /\ call'[r].op = "create" /\ call'[r].doc = call[r].doc
        /\ call'[r].key = call[r].key /\ call'[r].saw = call[r].saw /\ call'[r].row = x
        /\ \A q \in Requests \ {r} : call'[q] = call[q]
    BY <1>1, <1>3, <2>1 DEF Call, StructInv, TypeOK
  <2>3. call' \in [Requests -> Call \cup {NoRow}]
    BY <1>3, <2>2 DEF StructInv, TypeOK
  <2>4. QED
    BY <1>1, <1>3, <2>2, <2>3 DEF Goto, Moves, StructInv, TypeOK, Steps
<1>4. QED
  <2>1. \/ /\ RowsFor(call[r].doc, call[r].key) = {}
           /\ Goto(r, "insert") /\ UNCHANGED call
        \/ \E x \in RowsFor(call[r].doc, call[r].key) :
              call' = [call EXCEPT ![r].row = x] /\ Goto(r, "audit")
    BY DEF FindByIdempotency
  <2>2. CASE /\ RowsFor(call[r].doc, call[r].key) = {}
             /\ Goto(r, "insert") /\ UNCHANGED call
    BY <1>1, <1>2, <2>2
  <2>3. CASE \E x \in RowsFor(call[r].doc, call[r].key) :
                call' = [call EXCEPT ![r].row = x] /\ Goto(r, "audit")
    BY <1>1, <1>3, <2>3
  <2>4. QED
    BY <2>1, <2>2, <2>3

\* An arriving request asks for something it may ask for.
Arrives(r) ==
    \/ \E d \in Documents, e \in References \cup {Nobody} : IntakeArrives(r, d, e)
    \/ \E d \in Documents, k \in Keys : CreateArrives(r, d, k)
    \/ \E x \in Requests :
          CompleteArrives(r, x) \/ \E patch \in Patches : ReviewArrives(r, x, patch)

\* It has not moved before, and one that names a version names the last one of a row.
LEMMA ArrivalMeans ==
    ASSUME StructInv, NEW r \in Requests, Arrives(r)
    PROVE  /\ pc[r] = "idle" /\ call[r] = NoRow /\ written[r] = 0 /\ ~Exists(r)
           /\ UNCHANGED <<documents, extractions, clock, version, written, reply>> /\ Moves(r)
           /\ call' \in [Requests -> Call \cup {NoRow}] /\ call'[r] \in Call /\ CallMeans(r)'
           /\ pc' \in [Requests -> {"idle", "done"} \cup Steps]
           /\ \/ pc'[r] = "receive" /\ call'[r].op = "intake"
              \/ /\ pc'[r] = "find" /\ call'[r].op = "create" /\ call'[r].row = r
                 /\ call'[r].saw = 0 \/ RowsFor(call'[r].doc, call'[r].key) # {}
              \/ /\ pc'[r] = "write" /\ call'[r].op \in {"review", "complete"}
                 /\ LET x == call'[r].row IN
                    /\ call'[r].saw = version[x]
                    /\ call'[r].expectedUpdatedAt =
                          IF Exists(x) THEN Token(extractions[x].updatedAt) ELSE 0
<1>1. /\ pc[r] = "idle" /\ call[r] = NoRow /\ written[r] = 0 /\ ~Exists(r)
      /\ UNCHANGED <<documents, extractions, clock, version, recorded, written, reply>>
  BY DEF Arrives, IntakeArrives, CreateArrives, ReviewArrives, CompleteArrives, ChangeArrives,
     Arrive, Goto, StructInv, PlaceMeans, RowsOfTheirCreator, table
<1>2. ASSUME NEW c \in Call, NEW first \in Steps, Arrive(r, c, first)
      PROVE  /\ call'[r] = c /\ pc'[r] = first /\ Moves(r)
             /\ call' \in [Requests -> Call \cup {NoRow}]
             /\ pc' \in [Requests -> {"idle", "done"} \cup Steps]
  BY <1>2 DEF Arrive, Goto, Moves, StructInv, TypeOK
<1>3. ASSUME NEW d \in Documents, NEW e \in References \cup {Nobody}, IntakeArrives(r, d, e)
      PROVE  /\ Moves(r) /\ call'[r] \in Call /\ CallMeans(r)' /\ pc'[r] = "receive"
             /\ call' \in [Requests -> Call \cup {NoRow}]
             /\ pc' \in [Requests -> {"idle", "done"} \cup Steps] /\ call'[r].op = "intake"
  <2> DEFINE c == [op |-> "intake", doc |-> d, reference |-> e, key |-> Nobody,
                   patch |-> NoRow, row |-> r, expectedUpdatedAt |-> 0, saw |-> 0]
  <2>1. c \in Call /\ "receive" \in Steps
    BY DEF Call, Steps
  <2>2. QED
    BY <1>2, <1>3, <2>1 DEF IntakeArrives, CallMeans
<1>4. ASSUME NEW d \in Documents, NEW k \in Keys, CreateArrives(r, d, k)
      PROVE  /\ Moves(r) /\ call'[r] \in Call /\ CallMeans(r)' /\ pc'[r] = "find"
             /\ call' \in [Requests -> Call \cup {NoRow}]
             /\ pc' \in [Requests -> {"idle", "done"} \cup Steps]
             /\ call'[r].op = "create" /\ call'[r].row = r
             /\ call'[r].saw = 0 \/ RowsFor(call'[r].doc, call'[r].key) # {}
  <2> DEFINE c == [op |-> "create", doc |-> d, reference |-> Nobody, key |-> k,
                   patch |-> NoRow, row |-> r, expectedUpdatedAt |-> 0,
                   saw |-> IF RowsFor(d, k) = {} THEN 0 ELSE 1]
  <2>1. c \in Call /\ "find" \in Steps
    BY DEF Call, Steps
  <2>2. QED
    BY <1>2, <1>4, <2>1 DEF CreateArrives, CallMeans
<1>5. ASSUME NEW op \in {"review", "complete"}, NEW x \in Requests,
             NEW patch \in Patches \cup {NoRow}, op = "review" => patch \in Patches,
             ChangeArrives(r, op, x, patch)
      PROVE  /\ Moves(r) /\ call'[r] \in Call /\ CallMeans(r)' /\ pc'[r] = "write"
             /\ call' \in [Requests -> Call \cup {NoRow}]
             /\ pc' \in [Requests -> {"idle", "done"} \cup Steps]
             /\ call'[r].op \in {"review", "complete"}
             /\ call'[r].row = x /\ call'[r].saw = version[x]
             /\ call'[r].expectedUpdatedAt =
                   IF Exists(x) THEN Token(extractions[x].updatedAt) ELSE 0
  <2> DEFINE token == IF Exists(x) THEN Token(extractions[x].updatedAt) ELSE 0
             c == [op |-> op, doc |-> Nobody, reference |-> Nobody, key |-> Nobody,
                   patch |-> patch, row |-> x, expectedUpdatedAt |-> token, saw |-> version[x]]
  <2>1. token \in Nat
    <3>1. Exists(x) => extractions[x].updatedAt \in Nat
      BY DEF StructInv, TypeOK, Exists, Extraction
    <3>2. QED
      BY <3>1, TokenIsEarlier
  <2>2. c \in Call /\ "write" \in Steps
    BY <2>1, FieldsAssumption DEF Call, Steps, StructInv, TypeOK
  <2>3. QED
    BY <1>2, <1>5, <2>2 DEF ChangeArrives, CallMeans
<1>6. QED
  BY <1>1, <1>3, <1>4, <1>5 DEF Arrives, ReviewArrives, CompleteArrives

\* A request that looks for a reason, or fails, is told and leaves the tables.
Refuses(r) == ExplainReview(r) \/ ExplainCompletion(r) \/ RequestFails(r)
LEMMA RefusalMeans ==
    ASSUME StructInv, NEW r \in Requests, Refuses(r)
    PROVE  /\ pc[r] \in Steps /\ UNCHANGED <<table, recorded, call, written>> /\ Moves(r)
           /\ pc' \in [Requests -> {"idle", "done"} \cup Steps] /\ pc'[r] = "done"
           /\ reply' \in [Requests -> Replies]
           /\ reply'[r] \in {"not_found", "field_not_found", "conflict", "invalid_state", "error"}
           /\ (pc[r] = "audit" => reply'[r] = "error")
<1> DEFINE refusals == {"not_found", "field_not_found", "conflict", "invalid_state", "error"}
<1>1. PICK answer \in refusals : Answer(r, answer) /\ (pc[r] = "audit" => answer = "error")
  BY DEF Refuses, ExplainReview, ExplainCompletion, RequestFails
<1>2. pc[r] \in Steps /\ UNCHANGED <<table, recorded, call, written>>
  BY DEF Refuses, ExplainReview, ExplainCompletion, RequestFails, Steps
<1>3. QED
  BY <1>1, <1>2 DEF Answer, Moves, StructInv, TypeOK, Replies, Refusals

\* A request whose event is stored is answered.
LEMMA RecordMeans ==
    ASSUME StructInv, NEW r \in Requests, RecordAndAnswer(r)
    PROVE  /\ pc[r] = "audit" /\ call[r] \in Call /\ UNCHANGED <<table, call, written>>
           /\ recorded' = recorded \cup {r}
           /\ pc' \in [Requests -> {"idle", "done"} \cup Steps] /\ pc'[r] = "done"
           /\ reply' \in [Requests -> Replies]
           /\ reply'[r] \in {"received", "accepted", "reviewed", "completed"}
           /\ (reply'[r] = "accepted" <=> call[r].op = "create")
           /\ \A q \in Requests \ {r} : pc'[q] = pc[q] /\ reply'[q] = reply[q]
<1>1. pc[r] = "audit" /\ call[r] \in Call
  BY DEF RecordAndAnswer, StructInv, PlaceMeans
<1>2. PICK answer \in {"received", "accepted", "reviewed", "completed"} :
          Answer(r, answer) /\ (answer = "accepted" <=> call[r].op = "create")
  BY <1>1 DEF RecordAndAnswer, Call
<1>3. UNCHANGED <<table, call, written>> /\ recorded' = recorded \cup {r}
  BY DEF RecordAndAnswer
<1>4. /\ pc \in [Requests -> {"idle", "done"} \cup Steps] /\ reply \in [Requests -> Replies]
      /\ answer \in Replies
  BY DEF StructInv, TypeOK, Replies
<1>5. pc' = [pc EXCEPT ![r] = "done"] /\ reply' = [reply EXCEPT ![r] = answer]
  BY <1>2 DEF Answer
<1>6. QED
  BY <1>1, <1>2, <1>3, <1>4, <1>5

\* These are all the steps.
LEMMA NextMeans ==
    ASSUME [Next]_vars
    PROVE  \/ \E r \in Requests :
                \/ Arrives(r) \/ ReceiveDocument(r) \/ FindByIdempotency(r) \/ Insert(r)
                \/ Review(r) \/ Complete(r) \/ Refuses(r) \/ RecordAndAnswer(r)
           \/ \E x \in Requests : Works(x)
           \/ UNCHANGED vars
BY DEF Next, Arrives, Refuses, Works

-----------------------------------------------------------------------------
(* Types and places.                                                       *)

\* A request that changes a row is none that inserted one.
LEMMA AppliesKeeps ==
    ASSUME StructInv, NEW r \in Requests, Applies(r), Moves(r), UNCHANGED call,
           pc[r] = "write", call[r] \in Call
    PROVE  RowsOfTheirCreator'
<1> DEFINE x == call[r].row
<1>1. x \in Requests /\ ~Exists(r) /\ Exists(x) /\ x # r
  BY DEF Call, Applies, Updates, StructInv, RowsOfTheirCreator
<1>2. /\ extractions'[x] \in Extraction /\ extractions'[x].updatedAt = clock'
      /\ extractions'[x].doc = extractions[x].doc /\ extractions'[x].key = extractions[x].key
      /\ clock' \in Nat /\ clock' > clock /\ clock \in Nat /\ version[x] \in Nat
      /\ version'[x] = version[x] + 1
      /\ \A y \in Requests \ {x} : extractions'[y] = extractions[y] /\ version'[y] = version[y]
  BY <1>1 DEF Applies, Updates, Changes, StructInv, TypeOK
<1>3. Exists(x)' /\ \A y \in Requests \ {x} : Exists(y)' <=> Exists(y)
  BY <1>2, Nulls DEF Exists
<1>4. \A y \in Requests \ {r} : pc'[y] = pc[y] /\ written'[y] = written[y] /\ call'[y] = call[y]
  BY DEF Moves
<1>5. \A y \in Requests \ {x} : Exists(y) => extractions[y].updatedAt \in 1..clock'
  BY <1>2 DEF StructInv, RowsOfTheirCreator
<1>6. clock' \in 1..clock'
  BY <1>2
<1>7. QED
  BY <1>1, <1>2, <1>3, <1>4, <1>5, <1>6 DEF StructInv, RowsOfTheirCreator

\* No step of a handler or of the worker breaks it.
LEMMA StructStep == StructInv /\ [Next]_vars => StructInv'
<1> SUFFICES ASSUME StructInv, [Next]_vars PROVE StructInv'
  OBVIOUS
<1> USE DEF StructInv, TypeOK, PlaceMeans
<1>1. ASSUME NEW r \in Requests, Arrives(r) PROVE StructInv'
  <2>1. TypeOK'
    BY <1>1, ArrivalMeans DEF Moves
  <2>2. PlaceMeans'
    BY <1>1, ArrivalMeans DEF Moves, CallMeans
  <2>3. RowsOfTheirCreator'
    BY <1>1, ArrivalMeans DEF Moves, RowsOfTheirCreator, Exists
  <2>4. QED
    BY <2>1, <2>2, <2>3
<1>2. ASSUME NEW r \in Requests, ReceiveDocument(r) PROVE StructInv'
  <2>1. TypeOK'
    BY <1>2, ReceiveMeans DEF Moves
  <2>2. PlaceMeans'
    BY <1>2, ReceiveMeans DEF Moves, CallMeans
  <2>3. RowsOfTheirCreator'
    BY <1>2, ReceiveMeans DEF Moves, RowsOfTheirCreator, Exists
  <2>4. QED
    BY <2>1, <2>2, <2>3
<1>3. ASSUME NEW r \in Requests, FindByIdempotency(r) PROVE StructInv'
  <2>1. TypeOK'
    BY <1>3, FindMeans DEF Moves
  <2>2. PlaceMeans'
    BY <1>3, FindMeans DEF Moves, CallMeans
  <2>3. RowsOfTheirCreator'
    BY <1>3, FindMeans DEF Moves, RowsOfTheirCreator, Exists
  <2>4. QED
    BY <2>1, <2>2, <2>3
<1>4. ASSUME NEW r \in Requests, Insert(r) PROVE StructInv'
  <2>1. CASE UNCHANGED table
    <3>1. UNCHANGED <<documents, extractions, clock, version>>
      BY <2>1 DEF table
    <3>2. TypeOK'
      BY <1>4, <3>1, InsertMeans DEF Moves
    <3>3. PlaceMeans'
      BY <1>4, <3>1, InsertMeans DEF Moves, CallMeans
    <3>4. RowsOfTheirCreator'
      BY <1>4, <3>1, InsertMeans DEF Moves, RowsOfTheirCreator, Exists
    <3>5. QED
      BY <3>2, <3>3, <3>4
  <2>2. CASE Changes(r) /\ pc'[r] = "audit"
    <3>1. TypeOK'
      BY <1>4, <2>2, InsertMeans DEF Moves, Changes
    <3>2. PlaceMeans'
      BY <1>4, <2>2, InsertMeans DEF Moves, CallMeans
    <3>3. RowsOfTheirCreator'
      <4>1. /\ extractions'[r].doc = call[r].doc /\ extractions'[r].key = call[r].key
            /\ written'[r] = 1
        BY <1>4, <2>2, InsertMeans
      <4>2. /\ extractions'[r] \in Extraction /\ extractions'[r].updatedAt = clock'
            /\ clock' \in Nat /\ clock' > clock /\ clock \in Nat
            /\ version'[r] = 1
            /\ \A y \in Requests \ {r} : extractions'[y] = extractions[y]
                                         /\ version'[y] = version[y]
        BY <1>4, <2>2, InsertMeans DEF Changes
      <4>3. Exists(r)' /\ \A y \in Requests \ {r} : Exists(y)' <=> Exists(y)
        BY <4>2, Nulls DEF Exists
      <4>4. \A y \in Requests \ {r} : Exists(y) => extractions[y].updatedAt \in 1..clock'
        BY <4>2 DEF RowsOfTheirCreator
      <4>5. clock' \in 1..clock'
        BY <4>2
      <4>6. call[r].op = "create" /\ call[r].row = r /\ UNCHANGED call /\ Moves(r)
        BY <1>4, InsertMeans
      <4>7. QED
        BY <2>2, <4>1, <4>2, <4>3, <4>4, <4>5, <4>6 DEF RowsOfTheirCreator, Moves
    <3>4. QED
      BY <3>1, <3>2, <3>3
  <2>3. QED
    BY <1>4, <2>1, <2>2, InsertMeans
<1>5. ASSUME NEW r \in Requests, Review(r) \/ Complete(r) PROVE StructInv'
  <2>1. /\ pc[r] = "write" /\ call[r] \in Call /\ call[r].op \in {"review", "complete"}
        /\ written[r] = 0 /\ UNCHANGED <<documents, call>> /\ Moves(r)
        /\ pc' \in [Requests -> {"idle", "done"} \cup Steps]
        /\ reply' \in [Requests -> Replies] /\ written' \in [Requests -> Nat]
        /\ Applies(r) \/ Misses(r)
    BY <1>5, ReviewMeans, CompleteMeans
  <2>2. PlaceMeans'
    BY <2>1 DEF Moves, CallMeans, Applies, Misses
  <2>3. CASE Applies(r)
    <3>1. TypeOK'
      BY <2>1, <2>3 DEF Moves, Applies, Updates, Changes
    <3>2. QED
      BY <2>1, <2>2, <2>3, <3>1, AppliesKeeps
  <2>4. CASE Misses(r)
    <3>1. UNCHANGED <<documents, extractions, clock, version, written>>
      BY <2>4 DEF Misses, table
    <3>2. TypeOK'
      BY <2>1, <3>1 DEF Moves
    <3>3. RowsOfTheirCreator'
      BY <2>1, <3>1 DEF Moves, RowsOfTheirCreator, Exists
    <3>4. QED
      BY <2>2, <3>2, <3>3
  <2>5. QED
    BY <2>1, <2>3, <2>4
<1>6. ASSUME NEW r \in Requests, Refuses(r) PROVE StructInv'
  <2>1. UNCHANGED <<documents, extractions, clock, version>>
    BY <1>6, RefusalMeans DEF table
  <2>2. TypeOK'
    BY <1>6, <2>1, RefusalMeans
  <2>3. PlaceMeans'
    BY <1>6, <2>1, RefusalMeans DEF Moves, CallMeans, Steps
  <2>4. RowsOfTheirCreator'
    BY <1>6, <2>1, RefusalMeans DEF Moves, RowsOfTheirCreator, Exists, Steps
  <2>5. QED
    BY <2>2, <2>3, <2>4
<1>7. ASSUME NEW r \in Requests, RecordAndAnswer(r) PROVE StructInv'
  <2>1. UNCHANGED <<documents, extractions, clock, version>>
    BY <1>7, RecordMeans DEF table
  <2>2. TypeOK'
    BY <1>7, <2>1, RecordMeans
  <2>3. PlaceMeans'
    BY <1>7, <2>1, RecordMeans DEF CallMeans
  <2>4. RowsOfTheirCreator'
    BY <1>7, <2>1, RecordMeans DEF RowsOfTheirCreator, Exists
  <2>5. QED
    BY <2>2, <2>3, <2>4
<1>8. ASSUME NEW x \in Requests, Works(x) PROVE StructInv'
  <2>1. UNCHANGED <<documents, recorded, pc, call, reply, written>> /\ Updates(x)
    BY <1>8, WorkMeans
  <2>2. TypeOK'
    BY <2>1 DEF Updates, Changes
  <2>3. PlaceMeans'
    BY <2>1 DEF CallMeans
  <2>4. RowsOfTheirCreator'
    <3>1. /\ extractions'[x] \in Extraction /\ extractions'[x].updatedAt = clock'
          /\ extractions'[x].doc = extractions[x].doc /\ extractions'[x].key = extractions[x].key
          /\ clock' \in Nat /\ clock' > clock /\ clock \in Nat /\ version[x] \in Nat
          /\ version'[x] = version[x] + 1 /\ Exists(x)
          /\ \A y \in Requests \ {x} : extractions'[y] = extractions[y] /\ version'[y] = version[y]
      BY <2>1 DEF Updates, Changes
    <3>2. Exists(x)' /\ \A y \in Requests \ {x} : Exists(y)' <=> Exists(y)
      BY <3>1, Nulls DEF Exists
    <3>3. \A y \in Requests \ {x} : Exists(y) => extractions[y].updatedAt \in 1..clock'
      BY <3>1 DEF RowsOfTheirCreator
    <3>4. clock' \in 1..clock'
      BY <3>1
    <3>5. QED
      BY <2>1, <3>1, <3>2, <3>3, <3>4 DEF RowsOfTheirCreator
  <2>5. QED
    BY <2>2, <2>3, <2>4
<1>9. CASE UNCHANGED vars
  BY <1>9 DEF vars, CallMeans, RowsOfTheirCreator, Exists
<1>10. QED
  BY <1>1, <1>2, <1>3, <1>4, <1>5, <1>6, <1>7, <1>8, <1>9, NextMeans

\* What is known of the places of the requests is so in every reachable state.
LEMMA StructInvariant == Spec => []StructInv
BY StructInit, StructStep, PTL DEF Spec

\* Every reachable state is well typed (the columns of documents and
\* document_extractions, and the steps of their handlers).
THEOREM TypeCorrect == Spec => []TypeOK
<1>1. StructInv => TypeOK
  BY DEF StructInv
<1>2. QED
  BY <1>1, StructInvariant, PTL

-----------------------------------------------------------------------------
(* What a step does to one row, one document or one request.               *)

\* A row stays as it is, or a request inserts or changes it, or the worker does.
LEMMA RowSteps ==
    ASSUME StructInv, [Next]_vars, NEW x \in Requests
    PROVE  \/ extractions'[x] = extractions[x] /\ version'[x] = version[x]
           \/ Insert(x) /\ Changes(x)
           \/ \E r \in Requests : (Review(r) \/ Complete(r)) /\ Applies(r) /\ call[r].row = x
           \/ Works(x)
<1>1. ASSUME NEW r \in Requests, Arrives(r)
      PROVE  extractions'[x] = extractions[x] /\ version'[x] = version[x]
  BY <1>1, ArrivalMeans
<1>2. ASSUME NEW r \in Requests, ReceiveDocument(r)
      PROVE  extractions'[x] = extractions[x] /\ version'[x] = version[x]
  BY <1>2, ReceiveMeans
<1>3. ASSUME NEW r \in Requests, FindByIdempotency(r)
      PROVE  extractions'[x] = extractions[x] /\ version'[x] = version[x]
  BY <1>3, FindMeans
<1>4. ASSUME NEW r \in Requests, Insert(r)
      PROVE  \/ extractions'[x] = extractions[x] /\ version'[x] = version[x]
             \/ x = r /\ Changes(x)
  BY <1>4, InsertMeans DEF Changes, table
<1>5. ASSUME NEW r \in Requests, Review(r) \/ Complete(r)
      PROVE  \/ extractions'[x] = extractions[x] /\ version'[x] = version[x]
             \/ Applies(r) /\ call[r].row = x
  <2>1. Applies(r) \/ Misses(r)
    BY <1>5, ReviewMeans, CompleteMeans
  <2>2. CASE Misses(r)
    BY <2>2 DEF Misses, table
  <2>3. CASE Applies(r) /\ call[r].row # x
    BY <2>3 DEF Applies, Updates, Changes
  <2>4. QED
    BY <2>1, <2>2, <2>3
<1>6. ASSUME NEW r \in Requests, Refuses(r)
      PROVE  extractions'[x] = extractions[x] /\ version'[x] = version[x]
  BY <1>6, RefusalMeans DEF table
<1>7. ASSUME NEW r \in Requests, RecordAndAnswer(r)
      PROVE  extractions'[x] = extractions[x] /\ version'[x] = version[x]
  BY <1>7, RecordMeans DEF table
<1>8. ASSUME NEW y \in Requests, Works(y), x # y
      PROVE  extractions'[x] = extractions[x] /\ version'[x] = version[x]
  BY <1>8, WorkMeans DEF Updates, Changes
<1>9. CASE UNCHANGED vars
  BY <1>9 DEF vars
<1>10. QED
  BY <1>1, <1>2, <1>3, <1>4, <1>5, <1>6, <1>7, <1>8, <1>9, NextMeans

\* A row that is there stays, with its document and its key, and none of its versions
\* comes back.
LEMMA RowsStay ==
    ASSUME StructInv, [Next]_vars, NEW x \in Requests, Exists(x)
    PROVE  /\ Exists(x)' /\ extractions'[x].doc = extractions[x].doc
           /\ extractions'[x].key = extractions[x].key
           /\ version'[x] \in Nat /\ version'[x] >= version[x]
<1>1. CASE extractions'[x] = extractions[x] /\ version'[x] = version[x]
  BY <1>1 DEF Exists, StructInv, TypeOK
<1>2. ~Insert(x)
  BY InsertMeans
<1>3. CASE Updates(x)
  <2>1. /\ extractions'[x] \in Extraction /\ version'[x] = version[x] + 1 /\ version[x] \in Nat
        /\ extractions'[x].doc = extractions[x].doc /\ extractions'[x].key = extractions[x].key
    BY <1>3 DEF Updates, Changes, StructInv, TypeOK
  <2>2. QED
    BY <2>1, Nulls DEF Exists
<1>4. (\E r \in Requests : (Review(r) \/ Complete(r)) /\ Applies(r) /\ call[r].row = x)
          \/ Works(x) => Updates(x)
  BY WorkMeans DEF Applies
<1>5. QED
  BY <1>1, <1>2, <1>3, <1>4, RowSteps

\* A document that is there stays, with its reference; another one is inserted by a
\* request that asked for it.
LEMMA DocumentSteps ==
    ASSUME StructInv, [Next]_vars, NEW d \in Documents
    PROVE  \/ documents'[d] = documents[d]
           \/ \E r \in Requests : /\ ReceiveDocument(r) /\ call[r].doc = d /\ ~Received(d)
                                  /\ written'[r] = 1 /\ documents'[d] = call[r].reference
<1>1. ASSUME NEW r \in Requests, Arrives(r) PROVE documents'[d] = documents[d]
  BY <1>1, ArrivalMeans
<1>2. ASSUME NEW r \in Requests, ReceiveDocument(r)
      PROVE  \/ documents'[d] = documents[d]
             \/ /\ call[r].doc = d /\ ~Received(d) /\ written'[r] = 1
                /\ documents'[d] = call[r].reference
  BY <1>2, ReceiveMeans
<1>3. ASSUME NEW r \in Requests, FindByIdempotency(r) PROVE documents'[d] = documents[d]
  BY <1>3, FindMeans
<1>4. ASSUME NEW r \in Requests, Insert(r) PROVE documents'[d] = documents[d]
  BY <1>4, InsertMeans
<1>5. ASSUME NEW r \in Requests, Review(r) \/ Complete(r) PROVE documents'[d] = documents[d]
  BY <1>5, ReviewMeans, CompleteMeans
<1>6. ASSUME NEW r \in Requests, Refuses(r) PROVE documents'[d] = documents[d]
  BY <1>6, RefusalMeans DEF table
<1>7. ASSUME NEW r \in Requests, RecordAndAnswer(r) PROVE documents'[d] = documents[d]
  BY <1>7, RecordMeans DEF table
<1>8. ASSUME NEW x \in Requests, Works(x) PROVE documents'[d] = documents[d]
  BY <1>8, WorkMeans
<1>9. CASE UNCHANGED vars
  BY <1>9 DEF vars
<1>10. QED
  BY <1>1, <1>2, <1>3, <1>4, <1>5, <1>6, <1>7, <1>8, <1>9, NextMeans

\* A request stays where it is, or it is the one that moves.
LEMMA RequestSteps ==
    ASSUME StructInv, [Next]_vars, NEW r \in Requests
    PROVE  \/ /\ pc'[r] = pc[r] /\ call'[r] = call[r] /\ reply'[r] = reply[r]
              /\ written'[r] = written[r] /\ (r \in recorded' <=> r \in recorded)
           \/ Arrives(r) \/ ReceiveDocument(r) \/ FindByIdempotency(r) \/ Insert(r)
           \/ Review(r) \/ Complete(r) \/ Refuses(r) \/ RecordAndAnswer(r)
<1> DEFINE Stays == /\ pc'[r] = pc[r] /\ call'[r] = call[r] /\ reply'[r] = reply[r]
                    /\ written'[r] = written[r] /\ (r \in recorded' <=> r \in recorded)
<1>1. ASSUME NEW q \in Requests, q # r, Moves(q) PROVE Stays
  BY <1>1 DEF Moves
<1>2. ASSUME NEW q \in Requests,
             \/ Arrives(q) \/ ReceiveDocument(q) \/ FindByIdempotency(q) \/ Insert(q)
             \/ Review(q) \/ Complete(q) \/ Refuses(q)
      PROVE  Moves(q)
  BY <1>2, ArrivalMeans, ReceiveMeans, FindMeans, InsertMeans, ReviewMeans, CompleteMeans,
     RefusalMeans
<1>3. ASSUME NEW q \in Requests, q # r, RecordAndAnswer(q) PROVE Stays
  BY <1>3, RecordMeans
<1>4. ASSUME NEW x \in Requests, Works(x) PROVE Stays
  BY <1>4, WorkMeans
<1>5. CASE UNCHANGED vars
  BY <1>5 DEF vars
<1>6. QED
  BY <1>1, <1>2, <1>3, <1>4, <1>5, NextMeans

\* A request that has written has written once, and no request asks for anything else
\* once it has.
LEMMA WritesStay ==
    ASSUME StructInv, [Next]_vars, NEW r \in Requests, written[r] > 0
    PROVE  written'[r] = written[r] /\ call'[r] = call[r]
<1>1. pc[r] \in {"audit", "done"}
  BY DEF StructInv, PlaceMeans
<1>2. CASE Refuses(r) \/ RecordAndAnswer(r)
  BY <1>2, RefusalMeans, RecordMeans
<1>3. QED
  BY <1>1, <1>2, RequestSteps, ArrivalMeans, ReceiveMeans, FindMeans, InsertMeans, ReviewMeans,
     CompleteMeans

-----------------------------------------------------------------------------
(* Extractions, their documents and their keys.                            *)

\* Another request has made the extraction of the document and key of this one.
OtherHasKey(r) ==
    \E x \in Requests \ {r} :
        Exists(x) /\ extractions[x].doc = call[r].doc /\ extractions[x].key = call[r].key

\* A creation that saw a row when it arrived never gets to the INSERT, as the row is
\* still there for its lookup.
CreationMeans(r) ==
    /\ call[r].saw = 0 \/ OtherHasKey(r)
    /\ pc[r] = "insert" \/ written[r] > 0 => call[r].saw = 0
CreationsRace ==
    \A r \in Requests :
        /\ pc[r] # "idle" /\ call[r].op = "create" => CreationMeans(r)
        /\ reply[r] = "duplicate" =>
              pc[r] = "done" /\ call[r].op = "create" /\ call[r].saw = 0 /\ OtherHasKey(r)

\* A row of another is found while there is none of one's own.
LEMMA RowOfOther ==
    ASSUME NEW r \in Requests, NEW d, NEW k, ~Exists(r), RowsFor(d, k) # {}
    PROVE  \E x \in Requests \ {r} :
              Exists(x) /\ extractions[x].doc = d /\ extractions[x].key = k
BY DEF RowsFor

\* A key that is taken stays taken.
LEMMA OtherStays ==
    ASSUME StructInv, [Next]_vars, NEW r \in Requests, OtherHasKey(r),
           call'[r].doc = call[r].doc, call'[r].key = call[r].key
    PROVE  OtherHasKey(r)'
<1>1. PICK x \in Requests \ {r} :
          Exists(x) /\ extractions[x].doc = call[r].doc /\ extractions[x].key = call[r].key
  BY DEF OtherHasKey
<1>2. /\ Exists(x)' /\ extractions'[x].doc = extractions[x].doc
      /\ extractions'[x].key = extractions[x].key
  BY <1>1, RowsStay
<1>3. QED
  BY <1>1, <1>2 DEF OtherHasKey

\* Only the lookup leads to the INSERT, and only the INSERT to this answer.
LEMMA RaceStep == StructInv /\ CreationsRace /\ [Next]_vars => CreationsRace'
<1> SUFFICES ASSUME StructInv, CreationsRace, [Next]_vars, NEW r \in Requests
             PROVE  /\ pc'[r] # "idle" /\ call'[r].op = "create" => CreationMeans(r)'
                    /\ reply'[r] = "duplicate" =>
                          /\ pc'[r] = "done" /\ call'[r].op = "create"
                          /\ call'[r].saw = 0 /\ OtherHasKey(r)'
  BY DEF CreationsRace
<1>1. CASE /\ call'[r] = call[r] /\ written'[r] = written[r]
           /\ pc'[r] # "idle" => pc[r] # "idle"
           /\ pc'[r] = "insert" => pc[r] = "insert"
           /\ reply'[r] = "duplicate" => reply[r] = "duplicate" /\ pc'[r] = "done"
  <2>1. OtherHasKey(r) => OtherHasKey(r)'
    BY <1>1, OtherStays
  <2>2. QED
    BY <1>1, <2>1 DEF CreationsRace, CreationMeans
<1>2. CASE Arrives(r)
  <2>1. /\ UNCHANGED extractions /\ ~Exists(r) /\ written'[r] = 0 /\ reply'[r] = "none"
        /\ pc'[r] # "insert"
        /\ call'[r].op = "create" =>
              call'[r].saw = 0 \/ RowsFor(call'[r].doc, call'[r].key) # {}
    BY <1>2, ArrivalMeans DEF StructInv, PlaceMeans
  <2>2. call'[r].op = "create" => call'[r].saw = 0 \/ OtherHasKey(r)'
    BY <2>1, RowOfOther DEF OtherHasKey, Exists
  <2>3. QED
    BY <2>1, <2>2 DEF CreationMeans
<1>3. CASE ReceiveDocument(r) \/ Review(r) \/ Complete(r)
  <2>1. call'[r].op # "create" /\ reply'[r] # "duplicate"
    BY <1>3, ReceiveMeans, ReviewMeans, CompleteMeans DEF Applies, Misses
  <2>2. QED
    BY <2>1
<1>4. CASE FindByIdempotency(r)
  <2>1. /\ call[r].op = "create" /\ pc[r] = "find" /\ written'[r] = 0 /\ reply'[r] = "none"
        /\ call'[r].doc = call[r].doc /\ call'[r].key = call[r].key
        /\ call'[r].saw = call[r].saw
        /\ pc'[r] = "insert" => RowsFor(call[r].doc, call[r].key) = {}
    BY <1>4, FindMeans DEF StructInv, PlaceMeans
  <2>2. call[r].saw = 0 \/ OtherHasKey(r)
    BY <2>1 DEF CreationsRace, CreationMeans
  <2>3. OtherHasKey(r) => RowsFor(call[r].doc, call[r].key) # {}
    BY DEF OtherHasKey, RowsFor
  <2>4. OtherHasKey(r) => OtherHasKey(r)'
    BY <2>1, OtherStays
  <2>5. QED
    BY <2>1, <2>2, <2>3, <2>4 DEF CreationMeans
<1>5. CASE Insert(r)
  <2>1. /\ pc[r] = "insert" /\ call[r].op = "create" /\ call'[r] = call[r] /\ ~Exists(r)
        /\ pc'[r] # "insert"
        /\ reply'[r] = "duplicate" =>
              pc'[r] = "done" /\ RowsFor(call[r].doc, call[r].key) # {}
    BY <1>5, InsertMeans
  <2>2. call[r].saw = 0
    BY <2>1 DEF CreationsRace, CreationMeans
  <2>3. reply'[r] = "duplicate" => OtherHasKey(r)
    BY <2>1, RowOfOther DEF OtherHasKey
  <2>4. OtherHasKey(r) => OtherHasKey(r)'
    BY <2>1, OtherStays
  <2>5. QED
    BY <2>1, <2>2, <2>3, <2>4 DEF CreationMeans
<1>6. CASE Refuses(r) \/ RecordAndAnswer(r)
  BY <1>1, <1>6, RefusalMeans, RecordMeans DEF Steps
<1>7. QED
  <2>1. CASE /\ pc'[r] = pc[r] /\ call'[r] = call[r] /\ reply'[r] = reply[r]
             /\ written'[r] = written[r] /\ (r \in recorded' <=> r \in recorded)
    BY <1>1, <2>1 DEF CreationsRace
  <2>2. QED
    BY <1>2, <1>3, <1>4, <1>5, <1>6, <2>1, RequestSteps

\* So it is in every reachable state.
LEMMA RaceInvariant == Spec => [](StructInv /\ CreationsRace)
<1>1. Init => CreationsRace
  BY DEF Init, CreationsRace
<1>2. QED
  BY <1>1, StructInit, StructStep, RaceStep, PTL DEF Spec

\* A creation fails on the unique constraint only if it overlapped the one that took its
\* key, never as a retry sent when the row was there (the lookup of createOrReplay).
THEOREM OnlyRacesFail == Spec => []DuplicateOnlyInRace
<1>1. StructInv /\ CreationsRace => DuplicateOnlyInRace
  BY DEF CreationsRace, OtherHasKey, RowsFor, DuplicateOnlyInRace
<1>2. QED
  BY <1>1, RaceInvariant, PTL

\* The extraction of the document and key that a request asks for.
HasItsRow(r) ==
    LET x == call[r].row IN
    /\ x \in Requests /\ Exists(x)
    /\ extractions[x].doc = call[r].doc /\ extractions[x].key = call[r].key

\* A key has one extraction in a document, and a request that is answered for one, or
\* about to be, has found it.
KeysHaveOneRow ==
    /\ \A x, y \in Requests :
          /\ Exists(x) /\ Exists(y)
          /\ extractions[x].doc = extractions[y].doc /\ extractions[x].key = extractions[y].key
          => x = y
    /\ \A r \in Requests :
          (pc[r] = "audit" /\ call[r].op = "create") \/ reply[r] = "accepted" =>
              /\ call[r].op = "create" /\ HasItsRow(r)
              /\ r \in recorded \/ pc[r] = "audit"

\* The unique constraint lets in only a row whose document and key have none.
LEMMA KeysStep == StructInv /\ KeysHaveOneRow /\ [Next]_vars => KeysHaveOneRow'
<1> SUFFICES ASSUME StructInv, KeysHaveOneRow, [Next]_vars PROVE KeysHaveOneRow'
  OBVIOUS
<1>1. ASSUME NEW x \in Requests, ~Exists(x), Exists(x)'
      PROVE  /\ Insert(x) /\ Changes(x) /\ RowsFor(call[x].doc, call[x].key) = {}
             /\ extractions'[x].doc = call[x].doc /\ extractions'[x].key = call[x].key
  <2>1. extractions'[x] # extractions[x]
    BY <1>1 DEF Exists
  <2>2. Insert(x)
    <3>1. ~Works(x)
      BY <1>1, WorkMeans DEF Updates
    <3>2. \A r \in Requests : ~(Applies(r) /\ call[r].row = x)
      BY <1>1 DEF Applies, Updates
    <3>3. QED
      BY <2>1, <3>1, <3>2, RowSteps
  <2>3. ~UNCHANGED <<table, written>>
    BY <2>1 DEF table
  <2>4. QED
    BY <2>2, <2>3, InsertMeans
<1>2. ASSUME NEW x \in Requests, NEW y \in Requests, ~Exists(x), Exists(x)', Exists(y),
             extractions'[x].doc = extractions'[y].doc, extractions'[x].key = extractions'[y].key
      PROVE  FALSE
  <2>1. extractions[y].doc = call[x].doc /\ extractions[y].key = call[x].key
    BY <1>1, <1>2, RowsStay
  <2>2. RowsFor(call[x].doc, call[x].key) = {}
    BY <1>1, <1>2
  <2>3. y \in RowsFor(call[x].doc, call[x].key)
    BY <1>2, <2>1 DEF RowsFor
  <2>4. QED
    BY <2>2, <2>3
<1>3. ASSUME NEW x \in Requests, NEW y \in Requests, Exists(x)', Exists(y)',
             extractions'[x].doc = extractions'[y].doc, extractions'[x].key = extractions'[y].key
      PROVE  x = y
  <2>1. CASE Exists(x) /\ Exists(y)
    BY <1>3, <2>1, RowsStay DEF KeysHaveOneRow
  <2>2. CASE ~Exists(x) /\ Exists(y)
    BY <1>2, <1>3, <2>2
  <2>3. CASE Exists(x) /\ ~Exists(y)
    BY <1>2, <1>3, <2>3
  <2>4. CASE ~Exists(x) /\ ~Exists(y) /\ x # y
    <3>1. Changes(x) /\ Changes(y)
      BY <1>1, <1>3, <2>4
    <3>2. extractions'[y] = extractions[y]
      BY <2>4, <3>1 DEF Changes
    <3>3. QED
      BY <1>3, <2>4, <3>2 DEF Exists
  <2>5. QED
    BY <2>1, <2>2, <2>3, <2>4
<1>4. ASSUME NEW r \in Requests, HasItsRow(r), call'[r] = call[r] PROVE HasItsRow(r)'
  BY <1>4, RowsStay DEF HasItsRow, Exists
<1>5. ASSUME NEW r \in Requests,
             (pc'[r] = "audit" /\ call'[r].op = "create") \/ reply'[r] = "accepted"
      PROVE  /\ call'[r].op = "create" /\ HasItsRow(r)'
             /\ r \in recorded' \/ pc'[r] = "audit"
  <2>1. CASE /\ pc'[r] = pc[r] /\ call'[r] = call[r] /\ reply'[r] = reply[r]
             /\ written'[r] = written[r] /\ (r \in recorded' <=> r \in recorded)
    <3>1. /\ call[r].op = "create" /\ HasItsRow(r)
          /\ r \in recorded \/ pc[r] = "audit"
      BY <1>5, <2>1 DEF KeysHaveOneRow
    <3>2. QED
      BY <1>4, <2>1, <3>1
  <2>2. CASE Arrives(r) \/ ReceiveDocument(r)
    <3>1. reply'[r] # "accepted" /\ (pc'[r] # "audit" \/ call'[r].op # "create")
      BY <2>2, ArrivalMeans, ReceiveMeans DEF StructInv, PlaceMeans
    <3>2. QED
      BY <1>5, <3>1
  <2>3. CASE FindByIdempotency(r)
    <3>1. /\ UNCHANGED extractions /\ reply'[r] = "none" /\ call'[r].op = "create"
          /\ call'[r].doc = call[r].doc /\ call'[r].key = call[r].key
          /\ \/ pc'[r] = "insert"
             \/ pc'[r] = "audit" /\ call'[r].row \in RowsFor(call[r].doc, call[r].key)
      BY <2>3, FindMeans DEF StructInv, PlaceMeans
    <3>2. pc'[r] = "audit" /\ call'[r].row \in RowsFor(call[r].doc, call[r].key)
      BY <1>5, <3>1
    <3>3. QED
      BY <3>1, <3>2 DEF RowsFor, Exists, HasItsRow
  <2>4. CASE Insert(r)
    <3>1. /\ call'[r] = call[r] /\ call[r].op = "create" /\ call[r].row = r /\ Changes(r)
          /\ extractions'[r].doc = call[r].doc /\ extractions'[r].key = call[r].key
          /\ pc'[r] = "audit"
      BY <1>5, <2>4, InsertMeans
    <3>2. extractions'[r] # NoRow
      BY <3>1, Nulls DEF Changes
    <3>3. QED
      BY <3>1, <3>2 DEF HasItsRow, Exists
  <2>5. CASE Review(r) \/ Complete(r)
    <3>1. call'[r].op # "create" /\ reply'[r] = "none"
      BY <2>5, ReviewMeans, CompleteMeans DEF Applies, Misses
    <3>2. QED
      BY <1>5, <3>1
  <2>6. CASE Refuses(r)
    BY <1>5, <2>6, RefusalMeans
  <2>7. CASE RecordAndAnswer(r)
    <3>1. /\ pc[r] = "audit" /\ call[r].op = "create" /\ UNCHANGED <<extractions, call>>
          /\ r \in recorded'
      BY <1>5, <2>7, RecordMeans DEF table
    <3>2. HasItsRow(r)
      BY <3>1 DEF KeysHaveOneRow
    <3>3. QED
      BY <1>4, <3>1, <3>2
  <2>8. QED
    BY <2>1, <2>2, <2>3, <2>4, <2>5, <2>6, <2>7, RequestSteps
<1>6. QED
  BY <1>3, <1>5 DEF KeysHaveOneRow

\* So it is in every reachable state.
LEMMA KeysInvariant == Spec => [](StructInv /\ KeysHaveOneRow)
<1>1. Init => KeysHaveOneRow
  BY DEF Init, KeysHaveOneRow, Exists
<1>2. QED
  BY <1>1, KeysStep, StructInvariant, PTL DEF Spec

\* Retries and races of a creation make one extraction of a document per key, and
\* everybody who is answered gets it (createOrReplay).
THEOREM OneExtraction == Spec => []OneExtractionPerKey
<1>1. StructInv /\ KeysHaveOneRow => OneExtractionPerKey
  <2> SUFFICES ASSUME KeysHaveOneRow PROVE OneExtractionPerKey
    OBVIOUS
  <2>1. ASSUME NEW d \in Documents, NEW k \in Keys PROVE Cardinality(RowsFor(d, k)) <= 1
    <3>1. CASE RowsFor(d, k) = {}
      BY <3>1, FS_EmptySet
    <3>2. CASE \E x \in RowsFor(d, k) : TRUE
      <4>1. PICK x \in RowsFor(d, k) : TRUE
        BY <3>2
      <4>2. RowsFor(d, k) = {x}
        BY DEF RowsFor, KeysHaveOneRow
      <4>3. Cardinality({x}) = 1
        BY FS_Singleton
      <4>4. QED
        BY <4>2, <4>3
    <3>3. QED
      BY <3>1, <3>2
  <2>2. ASSUME NEW r \in Requests, reply[r] = "accepted"
        PROVE  call[r].row \in RowsFor(call[r].doc, call[r].key)
    BY <2>2 DEF KeysHaveOneRow, HasItsRow, RowsFor
  <2>3. QED
    BY <2>1, <2>2 DEF OneExtractionPerKey
<1>2. QED
  BY <1>1, KeysInvariant, PTL

\* Whoever is told that his creation was accepted leaves an event of it (the handler
\* records a replay as well).
THEOREM AcceptedAudited == Spec => []AcceptedIsAudited
<1>1. StructInv /\ KeysHaveOneRow => AcceptedIsAudited
  <2> SUFFICES ASSUME StructInv, KeysHaveOneRow, NEW r \in Requests, reply[r] = "accepted"
               PROVE  r \in recorded /\ call[r].op = "create"
    BY DEF AcceptedIsAudited
  <2>1. pc[r] = "done"
    BY DEF StructInv, PlaceMeans
  <2>2. QED
    BY <2>1 DEF KeysHaveOneRow
<1>2. QED
  BY <1>1, KeysInvariant, PTL

-----------------------------------------------------------------------------
(* Versions and tokens.                                                    *)

\* Time does not go back.
LEMMA ClockSteps == ASSUME StructInv, [Next]_vars PROVE clock' \in Nat /\ clock' >= clock
<1>1. clock \in Nat
  BY DEF StructInv, TypeOK
<1>2. ASSUME NEW x \in Requests, Changes(x) PROVE clock' \in Nat /\ clock' >= clock
  BY <1>1, <1>2 DEF Changes
<1>3. ASSUME NEW r \in Requests, Insert(r) \/ Review(r) \/ Complete(r)
      PROVE  UNCHANGED clock \/ \E x \in Requests : Changes(x)
  BY <1>3, InsertMeans, ReviewMeans, CompleteMeans DEF Applies, Misses, Updates, table, Call
<1>4. ASSUME NEW r \in Requests,
             \/ Arrives(r) \/ ReceiveDocument(r) \/ FindByIdempotency(r)
             \/ Refuses(r) \/ RecordAndAnswer(r)
      PROVE  UNCHANGED clock
  BY <1>4, ArrivalMeans, ReceiveMeans, FindMeans, RefusalMeans, RecordMeans DEF table
<1>5. ASSUME NEW x \in Requests, Works(x) PROVE Changes(x)
  BY <1>5, WorkMeans DEF Updates
<1>6. CASE UNCHANGED vars
  BY <1>1, <1>6 DEF vars
<1>7. QED
  BY <1>1, <1>2, <1>3, <1>4, <1>5, <1>6, NextMeans

\* Whoever writes a row counts its version up and stamps it later than any time before.
LEMMA RowAdvances ==
    ASSUME StructInv, [Next]_vars, NEW x \in Requests
    PROVE  \/ extractions'[x] = extractions[x] /\ version'[x] = version[x]
           \/ /\ version'[x] = version[x] + 1 /\ Exists(x)'
              /\ extractions'[x].updatedAt \in Nat /\ extractions'[x].updatedAt > clock
<1>1. ASSUME Changes(x)
      PROVE  /\ version'[x] = version[x] + 1 /\ Exists(x)'
             /\ extractions'[x].updatedAt \in Nat /\ extractions'[x].updatedAt > clock
  BY <1>1, Nulls DEF Changes, Exists
<1>2. ASSUME NEW r \in Requests, Applies(r), call[r].row = x PROVE Changes(x)
  BY <1>2 DEF Applies, Updates
<1>3. Works(x) => Changes(x)
  BY WorkMeans DEF Updates
<1>4. QED
  BY <1>1, <1>2, <1>3, RowSteps

\* What a request asks for does not change, but for the row of a creation, from its
\* arrival on.
LEMMA CallSteps ==
    ASSUME StructInv, [Next]_vars, NEW r \in Requests
    PROVE  \/ Arrives(r)
           \/ FindByIdempotency(r) /\ written'[r] = 0 /\ call'[r].op = "create"
           \/ call'[r] = call[r] /\ (pc'[r] = "idle" <=> pc[r] = "idle")
<1>1. CASE ReceiveDocument(r) \/ Insert(r)
  BY <1>1, ReceiveMeans, InsertMeans
<1>2. CASE Review(r) \/ Complete(r)
  BY <1>2, ReviewMeans, CompleteMeans DEF Applies, Misses
<1>3. CASE Refuses(r) \/ RecordAndAnswer(r)
  BY <1>3, RefusalMeans, RecordMeans DEF Steps
<1>4. CASE FindByIdempotency(r)
  BY <1>4, FindMeans
<1>5. QED
  BY <1>1, <1>2, <1>3, <1>4, RequestSteps

\* The row a client was shown is still at the version it saw, or it was written at a
\* time later than the token.
TokenDatesVersion(r) ==
    LET x == call[r].row IN
    /\ call[r].saw <= version[x] /\ call[r].expectedUpdatedAt <= clock
    /\ \/ version[x] = call[r].saw
       \/ Exists(x) /\ extractions[x].updatedAt > call[r].expectedUpdatedAt
TokensDateVersions ==
    \A r \in Requests :
        pc[r] # "idle" /\ call[r].op \in {"review", "complete"} => TokenDatesVersion(r)

\* So it is when a request arrives, and every later write of the row comes after.
LEMMA TokensStep ==
    StructInv /\ TokensDateVersions /\ [Next]_vars => TokensDateVersions'
<1> SUFFICES ASSUME StructInv, TokensDateVersions, [Next]_vars,
                    NEW r \in Requests, pc'[r] # "idle", call'[r].op \in {"review", "complete"}
             PROVE  TokenDatesVersion(r)'
  BY DEF TokensDateVersions
<1>1. CASE Arrives(r)
  <2> DEFINE x == call'[r].row
  <2>1. /\ UNCHANGED <<extractions, version, clock>> /\ x \in Requests
        /\ call'[r].saw = version[x]
        /\ call'[r].expectedUpdatedAt = IF Exists(x) THEN Token(extractions[x].updatedAt) ELSE 0
    BY <1>1, ArrivalMeans DEF Call
  <2>2. clock \in Nat /\ version[x] \in Nat
    BY <2>1 DEF StructInv, TypeOK
  <2>3. CASE Exists(x)
    <3>1. extractions[x].updatedAt \in Nat /\ extractions[x].updatedAt <= clock
      BY <2>1, <2>2, <2>3 DEF StructInv, RowsOfTheirCreator
    <3>2. /\ Token(extractions[x].updatedAt) \in Nat
          /\ Token(extractions[x].updatedAt) <= extractions[x].updatedAt
      BY <3>1, TokenIsEarlier
    <3>3. QED
      BY <2>1, <2>2, <2>3, <3>1, <3>2 DEF TokenDatesVersion
  <2>4. CASE ~Exists(x)
    BY <2>1, <2>2, <2>4 DEF TokenDatesVersion
  <2>5. QED
    BY <2>3, <2>4
<1>2. CASE call'[r] = call[r] /\ pc[r] # "idle"
  <2>1. TokenDatesVersion(r) /\ call[r] \in Call
    BY <1>2 DEF TokensDateVersions, StructInv, PlaceMeans
  <2> PICK x \in Requests : x = call[r].row
    BY <2>1 DEF Call
  <2>2. /\ call[r].saw \in Nat /\ call[r].expectedUpdatedAt \in Nat
        /\ clock \in Nat /\ version[x] \in Nat
    BY <2>1 DEF Call, StructInv, TypeOK
  <2>3. /\ call[r].saw <= version[x] /\ call[r].expectedUpdatedAt <= clock
        /\ \/ version[x] = call[r].saw
           \/ Exists(x) /\ extractions[x].updatedAt > call[r].expectedUpdatedAt
    BY <2>1 DEF TokenDatesVersion
  <2>4. clock' \in Nat /\ clock' >= clock
    BY ClockSteps
  <2>5. CASE extractions'[x] = extractions[x] /\ version'[x] = version[x]
    BY <1>2, <2>2, <2>3, <2>4, <2>5 DEF TokenDatesVersion, Exists
  <2>6. CASE /\ version'[x] = version[x] + 1 /\ Exists(x)'
             /\ extractions'[x].updatedAt \in Nat /\ extractions'[x].updatedAt > clock
    BY <1>2, <2>2, <2>3, <2>4, <2>6 DEF TokenDatesVersion, Exists
  <2>7. QED
    BY <2>5, <2>6, RowAdvances
<1>3. QED
  BY <1>1, <1>2, CallSteps

\* A request that finds the token of its row replaces the version that was seen.
LEMMA AppliedIsSeen ==
    ASSUME StructInv, TokensDateVersions, NEW r \in Requests, Review(r) \/ Complete(r),
           Applies(r)
    PROVE  /\ call[r].row \in Requests /\ version[call[r].row] = call[r].saw
           /\ written'[r] = call[r].saw + 1
<1> DEFINE x == call[r].row
<1>1. /\ pc[r] = "write" /\ call[r] \in Call /\ call[r].op \in {"review", "complete"}
  BY ReviewMeans, CompleteMeans
<1>2. extractions[x].updatedAt = call[r].expectedUpdatedAt /\ written'[r] = version[x] + 1
  BY DEF Applies
<1>3. x \in Requests /\ call[r].expectedUpdatedAt \in Nat
  BY <1>1 DEF Call
<1>4. /\ version[x] = call[r].saw
         \/ extractions[x].updatedAt > call[r].expectedUpdatedAt
  BY <1>1 DEF TokensDateVersions, TokenDatesVersion
<1>5. QED
  BY <1>2, <1>3, <1>4

\* Every write counted one version of its row up, none of them to the same number.
WriteCounted(r) ==
    LET x == call[r].row IN
    /\ written[r] = call[r].saw + 1
    /\ call[r].op = "intake" \/ (Exists(x) /\ written[r] <= version[x])
    /\ call[r].op = "create" => x = r
WritesCounted ==
    /\ \A r \in Requests : written[r] > 0 => WriteCounted(r)
    /\ \A r, q \in Requests :
          r # q /\ written[r] > 0 /\ written[q] > 0 /\ call[r].row = call[q].row =>
              written[r] # written[q]

\* A new write has the next number of its row.
LEMMA NewWrite ==
    ASSUME StructInv, CreationsRace, TokensDateVersions, WritesCounted, [Next]_vars,
           NEW r \in Requests, written[r] = 0, written'[r] > 0
    PROVE  /\ WriteCounted(r)'
           /\ \A q \in Requests \ {r} :
                 written[q] > 0 /\ call[q].row = call'[r].row => written[q] # written'[r]
<1>1. CASE ReceiveDocument(r)
  <2>1. /\ call'[r] = call[r] /\ call[r].row = r /\ call[r].op = "intake" /\ call[r].saw = 0
        /\ written'[r] = 1 /\ ~Exists(r)
    BY <1>1, ReceiveMeans DEF StructInv, PlaceMeans, CallMeans, RowsOfTheirCreator
  <2>2. ASSUME NEW q \in Requests \ {r}, written[q] > 0 PROVE call[q].row # r
    <3>1. WriteCounted(q) /\ (call[q].op = "intake" => call[q].row = q)
      BY <2>2 DEF WritesCounted, StructInv, PlaceMeans, CallMeans
    <3>2. QED
      BY <2>1, <3>1 DEF WriteCounted
  <2>3. QED
    BY <2>1, <2>2 DEF WriteCounted
<1>2. CASE Insert(r)
  <2>0. pc[r] = "insert" /\ call[r].op = "create" => call[r].saw = 0
    BY DEF CreationsRace, CreationMeans
  <2>1. /\ call'[r] = call[r] /\ call[r].row = r /\ call[r].op = "create" /\ call[r].saw = 0
        /\ ~Exists(r) /\ Changes(r) /\ written'[r] = 1 /\ version'[r] = 1
    BY <1>2, <2>0, InsertMeans DEF StructInv, PlaceMeans, CallMeans, Changes
  <2>2. Exists(r)'
    BY <2>1, Nulls DEF Exists, Changes
  <2>3. ASSUME NEW q \in Requests \ {r}, written[q] > 0 PROVE call[q].row # r
    <3>1. WriteCounted(q) /\ (call[q].op = "intake" => call[q].row = q)
      BY <2>3 DEF WritesCounted, StructInv, PlaceMeans, CallMeans
    <3>2. QED
      BY <2>1, <3>1 DEF WriteCounted
  <2>4. QED
    BY <2>1, <2>2, <2>3 DEF WriteCounted
<1>3. CASE Review(r) \/ Complete(r)
  <2> DEFINE x == call[r].row
  <2>1. Applies(r) /\ call'[r] = call[r] /\ call[r].op \in {"review", "complete"}
    BY <1>3, ReviewMeans, CompleteMeans DEF Misses
  <2>2. /\ x \in Requests /\ version[x] = call[r].saw /\ written'[r] = call[r].saw + 1
        /\ version[x] \in Nat
    BY <1>3, <2>1, AppliedIsSeen DEF StructInv, TypeOK
  <2>3. Exists(x) /\ version'[x] = version[x] + 1 /\ Exists(x)'
    BY <2>1, Nulls DEF Applies, Updates, Changes, Exists
  <2>4. ASSUME NEW q \in Requests \ {r}, written[q] > 0, call[q].row = x
        PROVE  written[q] # written'[r]
    <3>1. WriteCounted(q) /\ (call[q].op = "intake" => call[q].row = q)
      BY <2>4 DEF WritesCounted, StructInv, PlaceMeans, CallMeans
    <3>2. call[q].op # "intake"
      BY <2>3, <2>4, <3>1 DEF StructInv, RowsOfTheirCreator
    <3>3. written[q] <= version[x] /\ written[q] \in Nat
      BY <2>4, <3>1, <3>2 DEF WriteCounted, StructInv, TypeOK
    <3>4. QED
      BY <2>2, <3>3
  <2>5. QED
    BY <2>1, <2>2, <2>3, <2>4 DEF WriteCounted
<1>4. QED
  <2>1. ~Arrives(r) /\ ~FindByIdempotency(r)
    BY ArrivalMeans, FindMeans
  <2>2. ~Refuses(r) /\ ~RecordAndAnswer(r)
    BY RefusalMeans, RecordMeans
  <2>3. QED
    BY <1>1, <1>2, <1>3, <2>1, <2>2, RequestSteps

\* An old one stays what it is: rows stay, and their versions do not come back.
LEMMA WritesStep ==
    StructInv /\ CreationsRace /\ TokensDateVersions /\ WritesCounted /\ [Next]_vars
        => WritesCounted'
<1> SUFFICES ASSUME StructInv, CreationsRace, TokensDateVersions, WritesCounted, [Next]_vars
             PROVE  WritesCounted'
  OBVIOUS
<1>1. \A r \in Requests : written[r] \in Nat
  BY DEF StructInv, TypeOK
<1>2. ASSUME NEW r \in Requests, written[r] > 0
      PROVE  written'[r] = written[r] /\ call'[r] = call[r] /\ WriteCounted(r)'
  <2>1. written'[r] = written[r] /\ call'[r] = call[r]
    BY <1>2, WritesStay
  <2>2. WriteCounted(r) /\ call[r] \in Call
    BY <1>2 DEF WritesCounted, StructInv, PlaceMeans
  <2>3. PICK x \in Requests : x = call[r].row /\ version[x] \in Nat
    BY <2>2 DEF Call, StructInv, TypeOK
  <2>4. CASE call[r].op = "intake"
    BY <2>1, <2>2, <2>4 DEF WriteCounted
  <2>5. CASE Exists(x) /\ written[r] <= version[x]
    <3>1. Exists(x)' /\ version'[x] \in Nat /\ version'[x] >= version[x]
      BY <2>5, RowsStay
    <3>2. QED
      BY <1>1, <2>1, <2>2, <2>3, <2>5, <3>1 DEF WriteCounted, Exists
  <2>6. QED
    BY <2>2, <2>3, <2>4, <2>5 DEF WriteCounted
<1>3. ASSUME NEW r \in Requests, written'[r] > 0 PROVE WriteCounted(r)'
  BY <1>1, <1>2, <1>3, NewWrite
<1>4. ASSUME NEW r \in Requests, NEW q \in Requests, r # q, written'[r] > 0, written'[q] > 0,
             call'[r].row = call'[q].row
      PROVE  written'[r] # written'[q]
  <2>1. CASE written[r] > 0 /\ written[q] > 0
    BY <1>2, <1>4, <2>1 DEF WritesCounted
  <2>2. CASE written[r] = 0 /\ written[q] > 0
    BY <1>2, <1>4, <2>2, NewWrite
  <2>3. CASE written[r] > 0 /\ written[q] = 0
    BY <1>2, <1>4, <2>3, NewWrite
  <2>4. CASE written[r] = 0 /\ written[q] = 0
    <3>1. ASSUME NEW c \in Requests, written[c] = 0, written'[c] > 0
          PROVE  ReceiveDocument(c) \/ Insert(c) \/ Review(c) \/ Complete(c)
      BY <3>1, RequestSteps, ArrivalMeans, FindMeans, RefusalMeans, RecordMeans
    <3>2. ASSUME NEW c \in Requests,
                 ReceiveDocument(c) \/ Insert(c) \/ Review(c) \/ Complete(c)
          PROVE  Moves(c)
      BY <3>2, ReceiveMeans, InsertMeans, ReviewMeans, CompleteMeans
    <3>3. Moves(r)
      BY <1>4, <2>4, <3>1, <3>2
    <3>4. written'[q] = written[q]
      BY <1>4, <3>3 DEF Moves
    <3>5. QED
      BY <1>4, <2>4, <3>4
  <2>5. QED
    BY <1>1, <2>1, <2>2, <2>3, <2>4
<1>5. QED
  BY <1>3, <1>4 DEF WritesCounted

\* So it is in every reachable state.
VersionsInv == StructInv /\ CreationsRace /\ TokensDateVersions /\ WritesCounted
LEMMA VersionsInvariant == Spec => []VersionsInv
<1>1. Init => TokensDateVersions /\ WritesCounted
  BY DEF Init, TokensDateVersions, WritesCounted
<1>2. QED
  BY <1>1, RaceInvariant, StructInit, StructStep, TokensStep, WritesStep, PTL
     DEF Spec, VersionsInv

\* A review or completion that took effect replaced the very version its client was
\* shown, and no version of a row was written twice (the updated_at of the WHERE clauses).
THEOREM SeenIsReplaced == Spec => []AppliedToVersionSeen
<1>1. VersionsInv => AppliedToVersionSeen
  BY DEF VersionsInv, WritesCounted, WriteCounted, AppliedToVersionSeen
<1>2. QED
  BY <1>1, VersionsInvariant, PTL

-----------------------------------------------------------------------------
(* What becomes of the status and the fields of a row.                     *)

\* Only a review and the worker change the fields of a row that is there, and the worker
\* only those of one that is not ready for review.
LEMMA FieldSteps ==
    ASSUME StructInv, [Next]_vars, NEW x \in Requests, Exists(x)
    PROVE  LET row == extractions[x]
               new == extractions'[x] IN
           \/ new = row
           \/ \E r \in Requests :
                 /\ Review(r) /\ Applies(r) /\ call[r].row = x
                 /\ Reviewable(row, call[r].patch) /\ new.fields = Patched(row.fields, call[r].patch)
                 /\ new.status = row.status /\ new.completedAt = row.completedAt
           \/ \E r \in Requests :
                 /\ Complete(r) /\ Applies(r) /\ call[r].row = x /\ new.fields = row.fields
                 /\ row.status = "review_required" /\ new.status = "completed"
           \/ /\ row.status \in {"queued", "processing"}
              /\ \/ new.status = "processing" /\ new.fields = row.fields
                 \/ new.status \in {"review_required", "failed"}
<1>1. ~Insert(x)
  BY InsertMeans
<1>2. ASSUME NEW r \in Requests, Review(r), Applies(r), call[r].row = x
      PROVE  /\ Reviewable(extractions[x], call[r].patch)
             /\ extractions'[x].fields = Patched(extractions[x].fields, call[r].patch)
             /\ extractions'[x].status = extractions[x].status
             /\ extractions'[x].completedAt = extractions[x].completedAt
  BY <1>2, ReviewMeans DEF Applies, Misses
<1>3. ASSUME NEW r \in Requests, Complete(r), Applies(r), call[r].row = x
      PROVE  /\ extractions'[x].fields = extractions[x].fields
             /\ extractions[x].status = "review_required" /\ extractions'[x].status = "completed"
  BY <1>3, CompleteMeans DEF Applies, Misses
<1>4. CASE Works(x)
  BY <1>4, WorkMeans
<1>5. QED
  BY <1>1, <1>2, <1>3, <1>4, RowSteps

\* A row that is inserted is queued and has no fields.
LEMMA NewRow ==
    ASSUME StructInv, [Next]_vars, NEW x \in Requests, ~Exists(x), Exists(x)'
    PROVE  /\ Insert(x) /\ extractions'[x].status = "queued"
           /\ extractions'[x].fields = [f \in FieldKeys |-> NoField]
<1>1. extractions'[x] # extractions[x]
  BY DEF Exists
<1>2. Insert(x)
  BY <1>1, RowSteps, WorkMeans DEF Applies, Updates
<1>3. QED
  BY <1>1, <1>2, InsertMeans DEF table

-----------------------------------------------------------------------------
(* Completion.                                                             *)

Completed(x) == Exists(x) /\ extractions[x].status = "completed"
CompletedBy(r, x) == written[r] > 0 /\ call[r].op = "complete" /\ call[r].row = x

\* A row is completed when one request has completed it, and by no other.
CompletedByOne ==
    /\ \A x \in Requests : Completed(x) => \E r \in Requests : CompletedBy(r, x)
    /\ \A x, r \in Requests : CompletedBy(r, x) => Completed(x)
    /\ \A x, r, q \in Requests : CompletedBy(r, x) /\ CompletedBy(q, x) => r = q

\* A completed row stays as it is, but for its fields and its time.
LEMMA CompletedStays ==
    ASSUME StructInv, [Next]_vars, NEW x \in Requests, Completed(x)
    PROVE  Completed(x)' /\ extractions'[x].completedAt = extractions[x].completedAt
<1>1. Exists(x) /\ extractions[x].status = "completed"
  BY DEF Completed
<1>2. Exists(x)'
  BY <1>1, RowsStay
<1>3. QED
  BY <1>1, <1>2, FieldSteps DEF Completed

\* Who completes a row in this step found it ready for review, and is alone.
LEMMA NewCompletion ==
    ASSUME StructInv, [Next]_vars, NEW x \in Requests, NEW r \in Requests,
           CompletedBy(r, x)', ~CompletedBy(r, x)
    PROVE  /\ ~Completed(x) /\ Completed(x)'
           /\ \A q \in Requests \ {r} : CompletedBy(q, x)' => CompletedBy(q, x)
<1>1. written[r] = 0
  <2>1. written[r] > 0 => CompletedBy(r, x)
    BY WritesStay DEF CompletedBy
  <2>2. QED
    BY <2>1 DEF StructInv, TypeOK
<1>2. call'[r].op = "complete" /\ written'[r] > 0 /\ call'[r].row = x
  BY DEF CompletedBy
<1>3. ~Arrives(r) /\ ~Refuses(r) /\ ~RecordAndAnswer(r)
  BY <1>1, <1>2, ArrivalMeans, RefusalMeans, RecordMeans
<1>4. ~ReceiveDocument(r) /\ ~FindByIdempotency(r) /\ ~Insert(r) /\ ~Review(r)
  BY <1>2, ReceiveMeans, FindMeans, InsertMeans, ReviewMeans
<1>5. Complete(r) /\ Applies(r) /\ call[r].row = x
  BY <1>1, <1>2, <1>3, <1>4, RequestSteps, CompleteMeans DEF Misses
<1>6. extractions[x].status = "review_required" /\ extractions'[x].status = "completed"
  BY <1>5, CompleteMeans DEF Applies, Misses
<1>7. Exists(x)'
  BY <1>5, Nulls DEF Applies, Updates, Changes, Exists
<1>8. Moves(r)
  BY <1>5, CompleteMeans
<1>9. QED
  BY <1>6, <1>7, <1>8 DEF Completed, CompletedBy, Moves

\* A row is completed by a request.
LEMMA CompletionHasRequest ==
    ASSUME StructInv, [Next]_vars, NEW x \in Requests, ~Completed(x), Completed(x)'
    PROVE  \E r \in Requests : CompletedBy(r, x)'
<1>1. Exists(x)
  BY NewRow DEF Completed
<1>2. PICK r \in Requests : Complete(r) /\ Applies(r) /\ call[r].row = x
  BY <1>1, FieldSteps DEF Completed
<1>3. /\ call'[r] = call[r] /\ call[r].op = "complete"
      /\ written'[r] = version[x] + 1
  BY <1>2, CompleteMeans DEF Applies
<1>4. version[x] \in Nat
  BY DEF StructInv, TypeOK
<1>5. QED
  BY <1>2, <1>3, <1>4 DEF CompletedBy

\* So one request completes a row, and none does again.
LEMMA CompletionStep == StructInv /\ CompletedByOne /\ [Next]_vars => CompletedByOne'
<1> SUFFICES ASSUME StructInv, CompletedByOne, [Next]_vars PROVE CompletedByOne'
  OBVIOUS
<1>1. ASSUME NEW x \in Requests, NEW r \in Requests, CompletedBy(r, x)
      PROVE  CompletedBy(r, x)'
  BY <1>1, WritesStay DEF CompletedBy
<1>2. ASSUME NEW x \in Requests, Completed(x)' PROVE \E r \in Requests : CompletedBy(r, x)'
  BY <1>1, <1>2, CompletionHasRequest DEF CompletedByOne
<1>3. ASSUME NEW x \in Requests, NEW r \in Requests, CompletedBy(r, x)' PROVE Completed(x)'
  BY <1>3, CompletedStays, NewCompletion DEF CompletedByOne
<1>4. ASSUME NEW x \in Requests, NEW r \in Requests, NEW q \in Requests,
             CompletedBy(r, x)', CompletedBy(q, x)'
      PROVE  r = q
  <2>1. CASE CompletedBy(r, x) /\ CompletedBy(q, x)
    BY <2>1 DEF CompletedByOne
  <2>2. CASE ~CompletedBy(r, x)
    BY <1>4, <2>2, NewCompletion DEF CompletedByOne
  <2>3. CASE ~CompletedBy(q, x)
    BY <1>4, <2>3, NewCompletion DEF CompletedByOne
  <2>4. QED
    BY <2>1, <2>2, <2>3
<1>5. QED
  BY <1>2, <1>3, <1>4 DEF CompletedByOne

\* An extraction is completed by exactly one request and once and for all, and
\* completed_at never moves (complete's status test).
THEOREM CompletedOnceAndForAll == Spec => CompletedOnce
<1>1. Init => CompletedByOne
  BY DEF Init, CompletedByOne, Completed, CompletedBy, Exists
<1>2. ASSUME StructInv, CompletedByOne, CompletedByOne', [Next]_vars,
             NEW x \in Requests, Completed(x)
      PROVE  /\ extractions'[x].status = "completed"
             /\ extractions'[x].completedAt = extractions[x].completedAt
             /\ Cardinality({r \in Requests : written'[r] > 0 /\ call'[r].op = "complete"
                                              /\ call'[r].row = x}) = 1
  <2> DEFINE done == {r \in Requests : written'[r] > 0 /\ call'[r].op = "complete"
                                       /\ call'[r].row = x}
  <2>1. Completed(x)' /\ extractions'[x].completedAt = extractions[x].completedAt
    BY <1>2, CompletedStays
  <2>2. done = {r \in Requests : CompletedBy(r, x)'}
    BY DEF CompletedBy
  <2>3. PICK r \in Requests : CompletedBy(r, x)'
    BY <1>2, <2>1 DEF CompletedByOne
  <2>4. done = {r}
    BY <1>2, <2>2, <2>3 DEF CompletedByOne
  <2>5. Cardinality(done) = 1
    BY <2>4, FS_Singleton
  <2>6. QED
    BY <2>1, <2>5 DEF Completed
<1>3. StructInv /\ CompletedByOne /\ [Next]_vars /\ CompletedByOne' =>
         [\A x \in Requests : Exists(x) /\ extractions[x].status = "completed" =>
            /\ extractions'[x].status = "completed"
            /\ extractions'[x].completedAt = extractions[x].completedAt
            /\ Cardinality({r \in Requests : written'[r] > 0 /\ call'[r].op = "complete"
                                             /\ call'[r].row = x}) = 1]_vars
  BY <1>2 DEF Completed
<1>4. QED
  BY <1>1, <1>3, CompletionStep, StructInvariant, PTL DEF Spec, CompletedOnce

-----------------------------------------------------------------------------
(* Corrections.                                                            *)

\* The worker has filled in the fields of a row when it is ready for review, and a
\* review has only set fields that its row has.
ReviewedFieldsArePresent ==
    /\ \A x \in Requests :
          Exists(x) /\ extractions[x].status \in {"queued", "processing"} =>
              Present(extractions[x].fields) = {}
    /\ \A x \in Requests : \A r \in AcceptedReviews(x) :
          Exists(x) /\ Corrected(r) \subseteq Present(extractions[x].fields)
FieldsInv == VersionsInv /\ ReviewedFieldsArePresent /\ CorrectionsHold

\* A review that is accepted in this step has set its fields.
LEMMA NewReview ==
    ASSUME StructInv, [Next]_vars, NEW x \in Requests, NEW r \in Requests,
           r \in AcceptedReviews(x)', r \notin AcceptedReviews(x)
    PROVE  Review(r) /\ Applies(r) /\ call[r].row = x /\ Moves(r) /\ UNCHANGED call
<1>1. written[r] = 0
  <2>1. written[r] > 0 => r \in AcceptedReviews(x)
    BY WritesStay DEF AcceptedReviews
  <2>2. QED
    BY <2>1 DEF StructInv, TypeOK
<1>2. call'[r].op = "review" /\ written'[r] > 0 /\ call'[r].row = x
  BY DEF AcceptedReviews
<1>3. ~Arrives(r) /\ ~Refuses(r) /\ ~RecordAndAnswer(r)
  BY <1>1, <1>2, ArrivalMeans, RefusalMeans, RecordMeans
<1>4. ~ReceiveDocument(r) /\ ~FindByIdempotency(r) /\ ~Insert(r) /\ ~Complete(r)
  BY <1>2, ReceiveMeans, FindMeans, InsertMeans, CompleteMeans
<1>5. QED
  BY <1>1, <1>2, <1>3, <1>4, RequestSteps, ReviewMeans DEF Misses

\* What a review does to the fields: its own have its values, the others keep theirs,
\* and none is gained or lost.
LEMMA ReviewSets ==
    ASSUME StructInv, [Next]_vars, NEW x \in Requests, NEW r \in Requests,
           Review(r), Applies(r), call[r].row = x
    PROVE  /\ Present(extractions'[x].fields) = Present(extractions[x].fields)
           /\ Corrected(r) \subseteq Present(extractions[x].fields)
           /\ extractions'[x].status = extractions[x].status
           /\ \A f \in Corrected(r) : extractions'[x].fields[f] = call[r].patch[f]
           /\ \A f \in FieldKeys \ Corrected(r) :
                 extractions'[x].fields[f] = extractions[x].fields[f]
<1> DEFINE row == extractions[x]
           patch == call[r].patch
<1>1. /\ Reviewable(row, patch) /\ patch \in Patches
      /\ extractions'[x].fields = Patched(row.fields, patch)
      /\ extractions'[x].status = row.status
  BY ReviewMeans DEF Misses, Applies
<1>2. row \in Extraction
  BY DEF Applies, Updates
<1>3. /\ Patched(row.fields, patch) =
            [f \in FieldKeys |-> IF NoField \in {row.fields[f], patch[f]}
                                 THEN row.fields[f] ELSE patch[f]]
      /\ Present(Patched(row.fields, patch)) = Present(row.fields)
  BY <1>1, <1>2, PatchedFields
<1>4. Corrected(r) \subseteq Present(row.fields)
  BY <1>1 DEF Reviewable, Corrected
<1>5. QED
  BY <1>1, <1>3, <1>4 DEF Present, Corrected

\* The worker leaves a row alone once it was reviewed, and a later review has a later
\* version.
LEMMA FieldsStep == FieldsInv /\ VersionsInv' /\ [Next]_vars => FieldsInv'
<1> SUFFICES ASSUME FieldsInv, VersionsInv', [Next]_vars
             PROVE  ReviewedFieldsArePresent' /\ CorrectionsHold'
  BY DEF FieldsInv
<1>1. StructInv /\ VersionsInv /\ ReviewedFieldsArePresent /\ CorrectionsHold
  BY DEF FieldsInv, VersionsInv
<1>2. ASSUME NEW x \in Requests, Exists(x)', extractions'[x].status \in {"queued", "processing"}
      PROVE  Present(extractions'[x].fields) = {}
  <2>1. CASE ~Exists(x)
    BY <1>1, <1>2, <2>1, NewRow DEF Present
  <2>2. CASE Exists(x)
    <3>1. ASSUME NEW r \in Requests, Review(r), Applies(r), call[r].row = x
          PROVE  /\ Present(extractions'[x].fields) = Present(extractions[x].fields)
                 /\ extractions'[x].status = extractions[x].status
      BY <1>1, <3>1, ReviewSets
    <3>2. /\ Present(extractions'[x].fields) = Present(extractions[x].fields)
          /\ extractions[x].status \in {"queued", "processing"}
      BY <1>1, <1>2, <2>2, <3>1, FieldSteps
    <3>3. QED
      BY <1>1, <2>2, <3>2 DEF ReviewedFieldsArePresent
  <2>3. QED
    BY <2>1, <2>2
<1>3. ASSUME NEW x \in Requests, NEW r \in Requests, r \in AcceptedReviews(x)
      PROVE  r \in AcceptedReviews(x)' /\ call'[r] = call[r] /\ written'[r] = written[r]
  BY <1>1, <1>3, WritesStay DEF AcceptedReviews
<1>4. ASSUME NEW x \in Requests, NEW r \in Requests, r \in AcceptedReviews(x)
      PROVE  /\ Exists(x) /\ Exists(x)'
             /\ \/ extractions'[x].fields = extractions[x].fields
                \/ \E q \in Requests : Review(q) /\ Applies(q) /\ call[q].row = x
  <2>1. /\ Exists(x) /\ Corrected(r) \subseteq Present(extractions[x].fields)
        /\ Corrected(r) # {}
    BY <1>1, <1>4, FieldsAssumption
       DEF ReviewedFieldsArePresent, AcceptedReviews, Corrected, StructInv, PlaceMeans, CallMeans
  <2>2. extractions[x].status \notin {"queued", "processing"}
    BY <1>1, <2>1 DEF ReviewedFieldsArePresent
  <2>3. QED
    BY <1>1, <2>1, <2>2, FieldSteps, RowsStay
<1>5. ASSUME NEW x \in Requests, NEW r \in Requests, r \in AcceptedReviews(x)'
      PROVE  Exists(x)' /\ Corrected(r)' \subseteq Present(extractions'[x].fields)
  <2>1. CASE r \in AcceptedReviews(x)
    <3>1. Corrected(r) \subseteq Present(extractions[x].fields) /\ Corrected(r)' = Corrected(r)
      BY <1>1, <1>3, <2>1 DEF ReviewedFieldsArePresent, Corrected
    <3>2. Present(extractions'[x].fields) = Present(extractions[x].fields)
      BY <1>1, <1>4, <2>1, ReviewSets
    <3>3. QED
      BY <1>4, <2>1, <3>1, <3>2
  <2>2. CASE r \notin AcceptedReviews(x)
    <3>1. Review(r) /\ Applies(r) /\ call[r].row = x /\ UNCHANGED call
      BY <1>1, <1>5, <2>2, NewReview
    <3>2. Exists(x)'
      BY <3>1, Nulls DEF Applies, Updates, Changes, Exists
    <3>3. QED
      BY <1>1, <3>1, <3>2, ReviewSets DEF Corrected
  <2>3. QED
    BY <2>1, <2>2
<1>6. ASSUME NEW x \in Requests, NEW r \in Requests, r \in AcceptedReviews(x)',
             NEW f \in Corrected(r)'
      PROVE  \/ extractions'[x].fields[f] = call'[r].patch[f]
             \/ \E q \in AcceptedReviews(x)' : f \in Corrected(q)' /\ written'[q] > written'[r]
  <2>1. CASE r \notin AcceptedReviews(x)
    <3>1. Review(r) /\ Applies(r) /\ call[r].row = x /\ UNCHANGED call
      BY <1>1, <1>6, <2>1, NewReview
    <3>2. f \in Corrected(r)
      BY <1>6, <3>1 DEF Corrected
    <3>3. QED
      BY <1>1, <3>1, <3>2, ReviewSets
  <2>2. CASE r \in AcceptedReviews(x)
    <3>1. /\ call'[r] = call[r] /\ written'[r] = written[r] /\ f \in Corrected(r)
          /\ f \in FieldKeys
      BY <1>3, <1>6, <2>2 DEF Corrected, Present
    <3>2. CASE \E q \in AcceptedReviews(x) : f \in Corrected(q) /\ written[q] > written[r]
      <4>1. PICK q \in AcceptedReviews(x) : f \in Corrected(q) /\ written[q] > written[r]
        BY <3>2
      <4>2. q \in Requests
        BY DEF AcceptedReviews
      <4>3. /\ q \in AcceptedReviews(x)' /\ f \in Corrected(q)' /\ written'[q] > written'[r]
        BY <1>3, <3>1, <4>1, <4>2 DEF Corrected
      <4>4. QED
        BY <4>3
    <3>3. CASE extractions[x].fields[f] = call[r].patch[f]
      <4>1. CASE extractions'[x].fields = extractions[x].fields
        BY <3>1, <3>3, <4>1
      <4>2. ASSUME NEW q \in Requests, Review(q), Applies(q), call[q].row = x
            PROVE  \/ extractions'[x].fields[f] = call'[r].patch[f]
                   \/ q \in AcceptedReviews(x)' /\ f \in Corrected(q)' /\ written'[q] > written'[r]
        <5>1. CASE f \notin Corrected(q)
          BY <1>1, <3>1, <3>3, <4>2, <5>1, ReviewSets
        <5>2. CASE f \in Corrected(q)
          <6>1. /\ UNCHANGED call /\ call[q].op = "review" /\ written'[q] = version[x] + 1
                /\ version[x] \in Nat
            BY <1>1, <4>2, ReviewMeans DEF Applies, StructInv, TypeOK
          <6>2. written[r] <= version[x] /\ written[r] \in Nat
            BY <1>1, <2>2 DEF AcceptedReviews, VersionsInv, WritesCounted, WriteCounted,
               StructInv, TypeOK
          <6>3. QED
            BY <3>1, <4>2, <5>2, <6>1, <6>2 DEF AcceptedReviews, Corrected
        <5>3. QED
          BY <5>1, <5>2
      <4>3. QED
        BY <1>4, <2>2, <4>1, <4>2
    <3>4. QED
      BY <1>1, <2>2, <3>1, <3>2, <3>3 DEF CorrectionsHold
  <2>3. QED
    BY <2>1, <2>2
<1>7. ReviewedFieldsArePresent'
  BY <1>2, <1>5 DEF ReviewedFieldsArePresent, AcceptedReviews
<1>8. CorrectionsHold'
  BY <1>6 DEF CorrectionsHold, AcceptedReviews
<1>9. QED
  BY <1>7, <1>8

\* A field has the value of the last accepted review that set it (review's jsonb_agg and
\* its token).
THEOREM NoCorrectionReverted == Spec => []CorrectionsHold
<1>1. Init => ReviewedFieldsArePresent /\ CorrectionsHold
  BY DEF Init, ReviewedFieldsArePresent, CorrectionsHold, AcceptedReviews, Exists
<1>2. FieldsInv => CorrectionsHold
  BY DEF FieldsInv
<1>3. Spec => []FieldsInv
  <2>1. VersionsInv /\ ReviewedFieldsArePresent /\ CorrectionsHold => FieldsInv
    BY DEF FieldsInv
  <2>2. QED
    BY <1>1, <2>1, FieldsStep, VersionsInvariant, PTL DEF Spec
<1>4. QED
  BY <1>2, <1>3, PTL

-----------------------------------------------------------------------------
(* Intake.                                                                 *)

\* The event of an intake is stored, or about to be, or its request has failed.
Settled(r) == r \in recorded \/ pc[r] = "audit" \/ reply[r] = "error"

\* A document has the reference of the one intake that inserted it, but for those that
\* were there, which have none; and references are not shared.
IntakesOfDocuments ==
    /\ \A d \in Documents : \A r, q \in Intakes(d) : r = q
    /\ \A d \in Documents : \A r \in Intakes(d) :
          documents[d] = call[r].reference /\ Received(d) /\ Settled(r)
    /\ \A d \in Documents \ Stored : Received(d) => \E r \in Requests : r \in Intakes(d)
    /\ \A d \in Stored : documents[d] = Nobody
    /\ \A d, c \in Documents : documents[d] \in References /\ documents[d] = documents[c] => d = c

\* Who is told of a conflict met another document.
Taken(r) ==
    \E d \in Documents, q \in Requests \ {r} :
        q \in Intakes(d) /\ call[q].reference = call[r].reference
ConflictsAreTrue ==
    \A r \in Requests :
        /\ reply[r] = "checksum_conflict" => call[r].doc \in Documents /\ Received(call[r].doc)
        /\ reply[r] = "reference_conflict" => Taken(r)
IntakeInv == StructInv /\ IntakesOfDocuments /\ ConflictsAreTrue

\* An intake stays one, and its event is not given up.
LEMMA IntakesStay ==
    ASSUME StructInv, [Next]_vars, NEW d \in Documents, NEW r \in Intakes(d)
    PROVE  /\ r \in Intakes(d)' /\ call'[r] = call[r] /\ r \in Requests
           /\ Settled(r) => Settled(r)'
<1>1. r \in Requests /\ written[r] > 0
  BY DEF Intakes
<1>2. written'[r] = written[r] /\ call'[r] = call[r]
  BY <1>1, WritesStay
<1>3. r \in Intakes(d)'
  BY <1>1, <1>2 DEF Intakes
<1>4. pc[r] \in {"audit", "done"}
  BY <1>1 DEF StructInv, PlaceMeans
<1>5. CASE Refuses(r)
  <2>1. pc[r] = "audit" /\ reply'[r] = "error"
    BY <1>1, <1>4, <1>5, RefusalMeans DEF Steps
  <2>2. QED
    BY <1>1, <1>2, <1>3, <2>1 DEF Settled
<1>6. CASE RecordAndAnswer(r)
  BY <1>1, <1>2, <1>3, <1>6, RecordMeans DEF Settled
<1>7. CASE /\ pc'[r] = pc[r] /\ call'[r] = call[r] /\ reply'[r] = reply[r]
           /\ written'[r] = written[r] /\ (r \in recorded' <=> r \in recorded)
  BY <1>1, <1>2, <1>3, <1>7 DEF Settled
<1>8. QED
  BY <1>1, <1>4, <1>5, <1>6, <1>7, RequestSteps, ArrivalMeans, ReceiveMeans, FindMeans,
     InsertMeans, ReviewMeans, CompleteMeans

\* A new one inserts its document, which was not there.
LEMMA NewIntake ==
    ASSUME StructInv, [Next]_vars, NEW d \in Documents, NEW r \in Requests,
           r \in Intakes(d)', r \notin Intakes(d)
    PROVE  /\ ReceiveDocument(r) /\ ~Received(d) /\ ~TakenReference(call[r].reference)
           /\ UNCHANGED call /\ Moves(r) /\ documents'[d] = call[r].reference
           /\ call[r].reference \in References \cup {Nobody} /\ pc'[r] = "audit"
           /\ \A c \in Documents \ {d} : documents'[c] = documents[c]
<1>1. written[r] = 0
  <2>1. written[r] > 0 => r \in Intakes(d)
    BY WritesStay DEF Intakes
  <2>2. QED
    BY <2>1 DEF StructInv, TypeOK
<1>2. call'[r].op = "intake" /\ written'[r] > 0 /\ call'[r].doc = d
  BY DEF Intakes
<1>3. ~Arrives(r) /\ ~Refuses(r) /\ ~RecordAndAnswer(r)
  BY <1>1, <1>2, ArrivalMeans, RefusalMeans, RecordMeans
<1>4. ~Review(r) /\ ~FindByIdempotency(r) /\ ~Insert(r) /\ ~Complete(r)
  BY <1>2, ReviewMeans, FindMeans, InsertMeans, CompleteMeans
<1>5. ReceiveDocument(r)
  BY <1>1, <1>2, <1>3, <1>4, RequestSteps
<1>6. written'[r] # written[r]
  BY <1>1, <1>2
<1>7. QED
  BY <1>2, <1>5, <1>6, ReceiveMeans

\* The row of a document changes with a new intake of it.
LEMMA NewDocument ==
    ASSUME StructInv, [Next]_vars, NEW d \in Documents, documents'[d] # documents[d]
    PROVE  \E r \in Requests : r \in Intakes(d)' /\ r \notin Intakes(d)
<1>1. PICK r \in Requests : ReceiveDocument(r) /\ call[r].doc = d /\ written'[r] = 1
  BY DocumentSteps
<1>2. call'[r] = call[r] /\ call[r].op = "intake" /\ written[r] = 0
  BY <1>1, ReceiveMeans
<1>3. QED
  BY <1>1, <1>2 DEF Intakes

\* The unique indexes keep one intake per document and one document per reference.
LEMMA IntakesStep == StructInv /\ IntakesOfDocuments /\ [Next]_vars => IntakesOfDocuments'
<1> SUFFICES ASSUME StructInv, IntakesOfDocuments, [Next]_vars PROVE IntakesOfDocuments'
  OBVIOUS
<1>1. ASSUME NEW d \in Documents, NEW r \in Intakes(d)
      PROVE  /\ documents'[d] = call'[r].reference /\ Received(d)' /\ Settled(r)'
             /\ \A q \in Intakes(d)' : q \in Intakes(d)
  <2>1. /\ documents[d] = call[r].reference /\ Received(d) /\ Settled(r)
    BY DEF IntakesOfDocuments
  <2>2. \A q \in Intakes(d)' : q \in Intakes(d)
    <3>1. \A q \in Intakes(d)' : q \in Requests
      BY DEF Intakes
    <3>2. QED
      BY <2>1, <3>1, NewIntake
  <2>3. documents'[d] = documents[d]
    BY <2>1, DocumentSteps
  <2>4. QED
    BY <2>1, <2>2, <2>3, IntakesStay DEF Received
<1>2. ASSUME NEW d \in Documents, NEW r \in Intakes(d)', r \notin Intakes(d)
      PROVE  /\ documents'[d] = call'[r].reference /\ Received(d)' /\ Settled(r)'
             /\ \A q \in Intakes(d)' : q = r
  <2>1. r \in Requests
    BY DEF Intakes
  <2>2. /\ ~Received(d) /\ UNCHANGED call /\ Moves(r) /\ pc'[r] = "audit"
        /\ documents'[d] = call[r].reference /\ call[r].reference \in References \cup {Nobody}
    BY <1>2, <2>1, NewIntake
  <2>3. ASSUME NEW q \in Intakes(d)', q # r PROVE FALSE
    <3>1. q \in Requests /\ written'[q] = written[q]
      BY <2>2, <2>3 DEF Intakes, Moves
    <3>2. q \in Intakes(d)
      BY <2>2, <3>1 DEF Intakes
    <3>3. QED
      BY <2>2, <3>2 DEF IntakesOfDocuments
  <2>4. QED
    BY <2>2, <2>3, Nulls DEF Received, Settled
<1>3. ASSUME NEW d \in Documents, NEW r \in Intakes(d)', NEW q \in Intakes(d)' PROVE r = q
  <2>1. CASE r \in Intakes(d) /\ q \in Intakes(d)
    BY <2>1 DEF IntakesOfDocuments
  <2>2. CASE r \notin Intakes(d) \/ q \notin Intakes(d)
    BY <1>2, <2>2
  <2>3. QED
    BY <2>1, <2>2
<1>4. ASSUME NEW d \in Documents, NEW r \in Intakes(d)'
      PROVE  documents'[d] = call'[r].reference /\ Received(d)' /\ Settled(r)'
  BY <1>1, <1>2
<1>5. ASSUME NEW d \in Documents \ Stored, Received(d)' PROVE \E r \in Requests : r \in Intakes(d)'
  <2>1. CASE documents'[d] # documents[d]
    BY <2>1, NewDocument
  <2>2. CASE documents'[d] = documents[d]
    <3>1. PICK r \in Requests : r \in Intakes(d)
      BY <1>5, <2>2 DEF IntakesOfDocuments, Received
    <3>2. QED
      BY <3>1, IntakesStay
  <2>3. QED
    BY <2>1, <2>2
<1>6. ASSUME NEW d \in Stored PROVE documents'[d] = Nobody
  <2>1. d \in Documents /\ documents[d] = Nobody /\ Received(d)
    BY Nulls, StoredAssumption DEF IntakesOfDocuments, Received
  <2>2. QED
    BY <2>1, DocumentSteps
<1>7. ASSUME NEW d \in Documents, NEW c \in Documents, d # c, documents'[d] # documents[d],
             documents'[d] \in References
      PROVE  documents'[c] # documents'[d]
  <2>1. PICK r \in Requests : r \in Intakes(d)' /\ r \notin Intakes(d)
    BY <1>7, NewDocument
  <2>2. /\ ~TakenReference(call[r].reference) /\ documents'[d] = call[r].reference
        /\ documents'[c] = documents[c]
    BY <1>7, <2>1, NewIntake
  <2>3. QED
    BY <1>7, <2>2, Nulls DEF TakenReference
<1>8. ASSUME NEW d \in Documents, NEW c \in Documents, documents'[d] \in References,
             documents'[d] = documents'[c]
      PROVE  d = c
  <2>1. CASE documents'[d] = documents[d] /\ documents'[c] = documents[c]
    BY <1>8, <2>1 DEF IntakesOfDocuments
  <2>2. QED
    BY <1>7, <1>8, <2>1
<1>9. QED
  BY <1>3, <1>4, <1>5, <1>6, <1>8 DEF IntakesOfDocuments, Intakes

\* A request is refused for a document that is there, and a reference that another has.
LEMMA ConflictsStep ==
    StructInv /\ IntakesOfDocuments /\ ConflictsAreTrue /\ [Next]_vars => ConflictsAreTrue'
<1> SUFFICES ASSUME StructInv, IntakesOfDocuments, ConflictsAreTrue, [Next]_vars,
                    NEW r \in Requests
             PROVE  /\ reply'[r] = "checksum_conflict" =>
                          call'[r].doc \in Documents /\ Received(call[r].doc)'
                    /\ reply'[r] = "reference_conflict" => Taken(r)'
  BY DEF ConflictsAreTrue
<1>1. ASSUME NEW d \in Documents, Received(d) PROVE Received(d)'
  BY <1>1, DocumentSteps DEF Received
<1>2. ASSUME Taken(r), call'[r] = call[r] PROVE Taken(r)'
  BY <1>2, IntakesStay DEF Taken
<1>3. CASE /\ pc'[r] = pc[r] /\ call'[r] = call[r] /\ reply'[r] = reply[r]
           /\ written'[r] = written[r] /\ (r \in recorded' <=> r \in recorded)
  <2>1. ASSUME reply'[r] = "checksum_conflict"
        PROVE  call'[r].doc \in Documents /\ Received(call[r].doc)'
    <3>1. PICK d \in Documents : d = call[r].doc /\ Received(d)
      BY <1>3, <2>1 DEF ConflictsAreTrue
    <3>2. QED
      BY <1>1, <1>3, <3>1 DEF Received
  <2>2. ASSUME reply'[r] = "reference_conflict" PROVE Taken(r)'
    BY <1>2, <1>3, <2>2 DEF ConflictsAreTrue
  <2>3. QED
    BY <2>1, <2>2
<1>4. CASE ReceiveDocument(r)
  <2>1. ASSUME reply'[r] = "checksum_conflict"
        PROVE  call'[r].doc \in Documents /\ Received(call[r].doc)'
    BY <1>4, <2>1, ReceiveMeans DEF Received
  <2>2. ASSUME reply'[r] = "reference_conflict" PROVE Taken(r)'
    <3> DEFINE e == call[r].reference
    <3>1. TakenReference(e) /\ UNCHANGED call /\ written[r] = 0 /\ call[r] \in Call
      BY <1>4, <2>2, ReceiveMeans
    <3>2. PICK d \in Documents : documents[d] = e /\ e \in References
      BY <3>1 DEF TakenReference, Call
    <3>3. d \notin Stored /\ Received(d)
      BY <3>2, Nulls DEF IntakesOfDocuments, Received
    <3>4. PICK q \in Requests : q \in Intakes(d)
      BY <3>3 DEF IntakesOfDocuments
    <3>5. call[q].reference = e /\ q # r
      BY <3>1, <3>2, <3>4 DEF IntakesOfDocuments, Intakes
    <3>6. Taken(r)
      BY <3>4, <3>5 DEF Taken
    <3>7. QED
      BY <1>2, <3>1, <3>6
  <2>3. QED
    BY <2>1, <2>2
<1>5. CASE \/ Arrives(r) \/ FindByIdempotency(r) \/ Insert(r)
           \/ Review(r) \/ Complete(r) \/ Refuses(r) \/ RecordAndAnswer(r)
  <2>1. CASE Arrives(r) \/ FindByIdempotency(r)
    BY <2>1, ArrivalMeans, FindMeans DEF StructInv, PlaceMeans
  <2>2. CASE Insert(r) \/ Review(r) \/ Complete(r)
    BY <2>2, InsertMeans, ReviewMeans, CompleteMeans DEF Applies, Misses
  <2>3. CASE Refuses(r) \/ RecordAndAnswer(r)
    BY <2>3, RefusalMeans, RecordMeans
  <2>4. QED
    BY <1>5, <2>1, <2>2, <2>3
<1>6. QED
  BY <1>3, <1>4, <1>5, RequestSteps

\* Documents are received once, no two with one reference, and who is told of a conflict
\* is not told of his own document.
THEOREM DocumentsReceivedOnce == Spec => []ReceivedOnce
<1>1. Init => IntakeInv
  BY Nulls, StructInit, StoredAssumption
     DEF Init, IntakeInv, IntakesOfDocuments, ConflictsAreTrue, Intakes, Received
<1>2. IntakeInv /\ [Next]_vars => IntakeInv'
  BY StructStep, IntakesStep, ConflictsStep DEF IntakeInv
<1>3. IntakeInv => ReceivedOnce
  <2> SUFFICES ASSUME IntakeInv PROVE ReceivedOnce
    OBVIOUS
  <2>1. ASSUME NEW d \in Documents \ Stored, Received(d)
        PROVE  \E r \in Requests : /\ Intakes(d) = {r}
                                   /\ (r \in recorded \/ pc[r] = "audit" \/ reply[r] = "error")
    <3>1. PICK r \in Requests : r \in Intakes(d)
      BY <2>1 DEF IntakeInv, IntakesOfDocuments
    <3>2. Intakes(d) = {r} /\ Settled(r)
      BY <3>1 DEF IntakeInv, IntakesOfDocuments
    <3>3. QED
      BY <3>2 DEF Settled
  <2>2. QED
    BY <2>1 DEF IntakeInv, IntakesOfDocuments, ConflictsAreTrue, Taken, ReceivedOnce
<1>4. QED
  BY <1>1, <1>2, <1>3, PTL DEF Spec

-----------------------------------------------------------------------------
(* The promise of VersionedRows.                                           *)

PromisedRows == [dk \in Documents \X Keys |-> RowsFor(dk[1], dk[2])]
PromisedBasis == [r \in Requests |-> Basis(r)]
Promised == <<PromisedRows, version, PromisedBasis>>

\* A step that leaves the rows and the basis of the request that moves is none of the
\* promise.
LEMMA BasisStays ==
    ASSUME NEW r \in Requests, Moves(r), Basis(r)' = Basis(r)
    PROVE  UNCHANGED PromisedBasis
BY DEF Moves, Basis, PromisedBasis

LEMMA RowsUnchanged == ASSUME UNCHANGED <<extractions, version>> PROVE UNCHANGED <<PromisedRows, version>>
BY DEF PromisedRows, RowsFor, Exists

\* The document and the key of a row are not changed.
LEMMA UpdatesKeepKeys ==
    ASSUME StructInv, NEW x \in Requests, Updates(x)
    PROVE  UNCHANGED PromisedRows
<1>1. ASSUME NEW y \in Requests
      PROVE  /\ Exists(y)' <=> Exists(y)
             /\ extractions'[y].doc = extractions[y].doc
             /\ extractions'[y].key = extractions[y].key
  BY Nulls DEF Updates, Changes, Exists
<1>2. ASSUME NEW d, NEW k PROVE RowsFor(d, k)' = RowsFor(d, k)
  BY <1>1 DEF RowsFor
<1>3. QED
  BY <1>2 DEF PromisedRows

\* The INSERT creates the row of its document and key.
LEMMA InsertCreates ==
    ASSUME StructInv, NEW r \in Requests, Insert(r)
    PROVE  \/ \E dk \in Documents \X Keys : Promise!Create(dk, r)
           \/ UNCHANGED Promised
<1> PICK d \in Documents, k \in Keys : d = call[r].doc /\ k = call[r].key
  BY InsertMeans
<1>1. Basis(r)' = Basis(r) /\ Moves(r) /\ ~Exists(r) /\ version[r] = 0
  BY InsertMeans, Nulls DEF Basis
<1>2. UNCHANGED PromisedBasis
  BY <1>1, BasisStays
<1>3. CASE UNCHANGED <<table, written>>
  <2>1. UNCHANGED <<extractions, version>>
    BY <1>3 DEF table
  <2>2. QED
    BY <1>2, <2>1, RowsUnchanged DEF Promised
<1>4. CASE /\ RowsFor(d, k) = {} /\ Changes(r)
           /\ extractions'[r].doc = d /\ extractions'[r].key = k
  <2>1. /\ Exists(r)' /\ extractions'[r].doc = d /\ extractions'[r].key = k
        /\ \A y \in Requests \ {r} : extractions'[y] = extractions[y]
    BY <1>4, Nulls DEF Changes, Exists
  <2>2. RowsFor(d, k)' = {r}
    BY <1>4, <2>1 DEF RowsFor, Exists
  <2>3. ASSUME NEW dk \in Documents \X Keys, dk # <<d, k>>
        PROVE  RowsFor(dk[1], dk[2])' = RowsFor(dk[1], dk[2])
    <3>1. dk[1] # d \/ dk[2] # k
      BY <2>3
    <3>2. QED
      BY <1>1, <2>1, <3>1 DEF RowsFor, Exists
  <2>4. /\ PromisedRows[<<d, k>>] = {}
        /\ PromisedRows' = [PromisedRows EXCEPT ![<<d, k>>] = {r}]
    <3>1. PromisedRows[<<d, k>>] = {} /\ PromisedRows'[<<d, k>>] = {r}
      BY <1>4, <2>2 DEF PromisedRows
    <3>2. ASSUME NEW dk \in Documents \X Keys, dk # <<d, k>>
          PROVE  PromisedRows'[dk] = PromisedRows[dk]
      BY <2>3, <3>2 DEF PromisedRows
    <3>3. /\ PromisedRows = [dk \in Documents \X Keys |-> PromisedRows[dk]]
          /\ PromisedRows' = [dk \in Documents \X Keys |-> PromisedRows'[dk]]
      BY DEF PromisedRows
    <3> HIDE DEF PromisedRows
    <3>4. QED
      BY <3>1, <3>2, <3>3
  <2>5. version' = [version EXCEPT ![r] = 1]
    BY <1>1, <1>4 DEF Changes, StructInv, TypeOK
  <2>6. Promise!Create(<<d, k>>, r)
    BY <1>1, <1>2, <2>4, <2>5 DEF Promise!Create, PromisedRows, PromisedBasis
  <2>7. QED
    BY <2>6
<1>5. QED
  BY <1>3, <1>4, InsertMeans

\* A review or a completion that arrives was made for the version its client was shown.
LEMMA ArrivalAsks ==
    ASSUME StructInv, NEW r \in Requests, Arrives(r)
    PROVE  Promise!Ask(r) \/ UNCHANGED Promised
<1>1. /\ call[r] = NoRow /\ call'[r] \in Call /\ Moves(r) /\ written[r] = 0
      /\ UNCHANGED <<extractions, version, written>>
  BY ArrivalMeans
<1>2. UNCHANGED <<PromisedRows, version>>
  BY <1>1, RowsUnchanged
<1>3. Basis(r) = NoRow /\ call'[r] # NoRow
  BY <1>1, Nulls DEF Basis
<1>4. CASE call'[r].op \notin {"review", "complete"}
  <2>1. Basis(r)' = Basis(r)
    BY <1>1, <1>3, <1>4 DEF Basis
  <2>2. QED
    BY <1>1, <1>2, <2>1, BasisStays DEF Promised
<1>5. CASE call'[r].op \in {"review", "complete"}
  <2>1. Basis(r)' = <<call'[r].row, call'[r].saw>> /\ Basis(r)' \in Requests \X Nat
    BY <1>1, <1>3, <1>5 DEF Basis, Call
  <2>2. PromisedBasis[r] = NoRow /\ PromisedBasis'[r] \in Requests \X Nat
    BY <1>3, <2>1 DEF PromisedBasis
  <2>3. PromisedBasis' = [PromisedBasis EXCEPT ![r] = PromisedBasis'[r]]
    BY <1>1 DEF PromisedBasis, Basis, Moves
  <2>4. QED
    BY <1>2, <2>2, <2>3 DEF Promise!Ask, PromisedRows, PromisedBasis
<1>6. QED
  BY <1>4, <1>5

\* One that takes effect replaces that version.
LEMMA ChangeReplaces ==
    ASSUME StructInv, TokensDateVersions, NEW r \in Requests, Review(r) \/ Complete(r)
    PROVE  Promise!Replace(r) \/ UNCHANGED Promised
<1>1. /\ call[r] \in Call /\ call[r].op \in {"review", "complete"} /\ written[r] = 0
      /\ UNCHANGED call /\ Moves(r) /\ (Applies(r) \/ Misses(r))
  BY ReviewMeans, CompleteMeans
<1>2. CASE Misses(r)
  <2>1. UNCHANGED <<extractions, version, written>>
    BY <1>2 DEF Misses, table
  <2>2. Basis(r)' = Basis(r)
    BY <1>1, <2>1 DEF Basis
  <2>3. QED
    BY <1>1, <2>1, <2>2, BasisStays, RowsUnchanged DEF Promised
<1>3. CASE Applies(r)
  <2>1. PICK x \in Requests : x = call[r].row
    BY <1>1 DEF Call
  <2>2. Updates(x) /\ version[x] = call[r].saw /\ written'[r] = version[x] + 1
    BY <1>3, <2>1, AppliedIsSeen DEF Applies
  <2>3. /\ version[x] \in Nat /\ version[x] > 0
        /\ version' = [version EXCEPT ![x] = version[x] + 1]
    BY <2>2 DEF Updates, Changes, StructInv, TypeOK, RowsOfTheirCreator
  <2>4. Basis(r) = <<x, version[x]>>
    BY <1>1, <2>1, <2>2, Nulls DEF Basis
  <2>5. Basis(r)' = NoRow
    BY <2>2, <2>3 DEF Basis
  <2>6. /\ PromisedBasis[r] = <<x, version[x]>>
        /\ PromisedBasis' = [PromisedBasis EXCEPT ![r] = NoRow]
    BY <1>1, <2>4, <2>5 DEF PromisedBasis, Basis, Moves
  <2>7. UNCHANGED PromisedRows
    BY <2>2, UpdatesKeepKeys
  <2>8. Promise!Replace(r)
    BY <2>3, <2>6, <2>7 DEF Promise!Replace, PromisedRows, PromisedBasis
  <2>9. QED
    BY <2>8
<1>4. QED
  BY <1>1, <1>2, <1>3

\* The worker is the other writer.
LEMMA WorkIsPromised ==
    ASSUME StructInv, NEW x \in Requests, Works(x)
    PROVE  Promise!Work(x)
<1>1. /\ Updates(x) /\ UNCHANGED <<call, written>>
  BY WorkMeans
<1>2. /\ version[x] > 0 /\ version' = [version EXCEPT ![x] = version[x] + 1]
  BY <1>1 DEF Updates, Changes, StructInv, TypeOK, RowsOfTheirCreator
<1>3. UNCHANGED PromisedBasis
  BY <1>1 DEF PromisedBasis, Basis
<1>4. UNCHANGED PromisedRows
  BY <1>1, UpdatesKeepKeys
<1>5. QED
  BY <1>2, <1>3, <1>4 DEF Promise!Work, PromisedRows, PromisedBasis

\* The other steps are none of the promise.
LEMMA OthersStutter ==
    ASSUME StructInv, NEW r \in Requests,
           ReceiveDocument(r) \/ FindByIdempotency(r) \/ Refuses(r) \/ RecordAndAnswer(r)
    PROVE  UNCHANGED Promised
<1>1. CASE ReceiveDocument(r)
  <2>1. /\ UNCHANGED <<extractions, version, call>> /\ Moves(r) /\ call[r] \in Call
        /\ call[r].op = "intake"
    BY <1>1, ReceiveMeans
  <2>2. Basis(r)' = Basis(r)
    BY <2>1, Nulls DEF Basis
  <2>3. QED
    BY <2>1, <2>2, BasisStays, RowsUnchanged DEF Promised
<1>2. CASE FindByIdempotency(r)
  <2>1. /\ UNCHANGED <<extractions, version, written>> /\ Moves(r) /\ call[r] \in Call
        /\ call[r].op = "create" /\ call'[r] \in Call /\ call'[r].op = "create"
    BY <1>2, FindMeans
  <2>2. Basis(r)' = Basis(r)
    BY <2>1, Nulls DEF Basis
  <2>3. QED
    BY <2>1, <2>2, BasisStays, RowsUnchanged DEF Promised
<1>3. CASE Refuses(r) \/ RecordAndAnswer(r)
  <2>1. UNCHANGED <<extractions, version, call, written>>
    BY <1>3, RefusalMeans, RecordMeans DEF table
  <2>2. UNCHANGED PromisedBasis
    BY <2>1 DEF PromisedBasis, Basis
  <2>3. QED
    BY <2>1, <2>2, RowsUnchanged DEF Promised
<1>4. QED
  BY <1>1, <1>2, <1>3

\* Extractions keep the promise: one extraction per document and key, and each review or
\* completion replaces the version its client was shown, once, or nothing.
THEOREM PromiseKept == Spec => ImplementsPromise
<1>1. Init => Promise!Init
  BY DEF Init, Promise!Init, RowsFor, Exists, Basis
<1>2. VersionsInv /\ [Next]_vars => Promise!Next \/ UNCHANGED Promised
  <2> SUFFICES ASSUME VersionsInv, [Next]_vars PROVE Promise!Next \/ UNCHANGED Promised
    OBVIOUS
  <2>1. StructInv /\ TokensDateVersions
    BY DEF VersionsInv
  <2>2. ASSUME NEW r \in Requests, Arrives(r) PROVE Promise!Next \/ UNCHANGED Promised
    BY <2>1, <2>2, ArrivalAsks DEF Promise!Next
  <2>3. ASSUME NEW r \in Requests, Insert(r) PROVE Promise!Next \/ UNCHANGED Promised
    BY <2>1, <2>3, InsertCreates DEF Promise!Next
  <2>4. ASSUME NEW r \in Requests, Review(r) \/ Complete(r)
        PROVE  Promise!Next \/ UNCHANGED Promised
    BY <2>1, <2>4, ChangeReplaces DEF Promise!Next
  <2>5. ASSUME NEW r \in Requests,
               ReceiveDocument(r) \/ FindByIdempotency(r) \/ Refuses(r) \/ RecordAndAnswer(r)
        PROVE  Promise!Next \/ UNCHANGED Promised
    BY <2>1, <2>5, OthersStutter
  <2>6. ASSUME NEW x \in Requests, Works(x) PROVE Promise!Next
    BY <2>1, <2>6, WorkIsPromised DEF Promise!Next
  <2>7. CASE UNCHANGED vars
    BY <2>7 DEF vars, Promised, PromisedRows, PromisedBasis, RowsFor, Exists, Basis
  <2>8. QED
    BY <2>2, <2>3, <2>4, <2>5, <2>6, <2>7, NextMeans
<1>3. QED
  BY <1>1, <1>2, VersionsInvariant, PTL DEF Spec, ImplementsPromise, Promise!Spec, Promised,
     PromisedRows, PromisedBasis
=============================================================================
