------------------------ MODULE UploadAttemptsProofs ------------------------
(***************************************************************************)
(* Proofs about UploadAttempts, for every set of requests, documents, keys *)
(* and contents.                                                           *)
(***************************************************************************)
EXTENDS UploadAttempts, TLAPS

USE NullAssumption, RowAssumption, ContentsAssumption

-----------------------------------------------------------------------------
(* Which attempt a request holds.                                          *)

Holding == {"target", "inspect", "cleanup", "fail", "commit", "audit"}

\* A request past its lookup holds a row of its own document.
HeldAttempt ==
    \A r \in Requests :
        /\ pc[r] # "idle" => call[r] \in Call
        /\ pc[r] \in {"lookup", "create"} => call[r].key \in Keys
        /\ pc[r] \in Holding \cup {"find"} => call[r].attempt \in Requests
        /\ pc[r] \in Holding =>
              /\ Exists(call[r].attempt)
              /\ attempts[call[r].attempt].doc = call[r].doc
        /\ pc[r] \in Holding \ {"target"} => call[r].found \in Status

\* A row's object key is the one its creator drew, and only a request past its
\* createOrGet has created a row.
RowsOfTheirCreator ==
    \A a \in Requests : Exists(a) =>
        attempts[a].objectKey = a /\ pc[a] \in {"target", "done"}

\* What the places of the requests say about the table.
StructInv == TypeOK /\ HeldAttempt /\ RowsOfTheirCreator

\* With no request and no row it holds.
LEMMA StructInit == Init => StructInv
BY DEF Init, StructInv, TypeOK, HeldAttempt, RowsOfTheirCreator, Exists, Holding,
       Steps, InitiateSteps, CompleteSteps, Objects, Replies

\* No step of a handler or of a client breaks it.
LEMMA StructStep == StructInv /\ [Next]_vars => StructInv'
<1> SUFFICES ASSUME StructInv, [Next]_vars PROVE StructInv'
  OBVIOUS
<1> USE DEF StructInv
<1> USE DEF TypeOK, HeldAttempt, RowsOfTheirCreator, Exists, Holding, Steps,
            InitiateSteps, CompleteSteps, Replies, Call, Row
<1>1. ASSUME NEW r \in Requests, NEW d \in Documents, NEW k \in Keys, Initiate(r, d, k)
      PROVE  StructInv'
  BY <1>1 DEF Initiate, Goto
<1>2. ASSUME NEW r \in Requests, NEW d \in Documents, NEW a \in Requests, Complete(r, d, a)
      PROVE  StructInv'
  BY <1>2 DEF Complete, Goto
<1>3. ASSUME NEW r \in Requests, LookupKey(r) PROVE StructInv'
  <2>1. CASE RowsFor(call[r].key) = {} /\ Goto(r, "create") /\ UNCHANGED call
    BY <1>3, <2>1 DEF LookupKey, Goto
  <2>2. ASSUME NEW a \in RowsFor(call[r].key), attempts[a].doc = call[r].doc,
               Hold(r, a, "initiated"), Goto(r, "target")
        PROVE  StructInv'
    BY <1>3, <2>2 DEF LookupKey, RowsFor, Goto, Hold, Status
  <2>3. CASE Answer(r, "conflict") /\ UNCHANGED call
    BY <1>3, <2>3 DEF LookupKey, Answer
  <2>4. QED
    BY <1>3, <2>1, <2>2, <2>3 DEF LookupKey
<1>4. ASSUME NEW r \in Requests, CreateOrGet(r) PROVE StructInv'
  <2>1. CASE /\ attempts' = [attempts EXCEPT ![r] =
                  [doc |-> call[r].doc, key |-> call[r].key,
                   objectKey |-> r, status |-> "initiated"]]
             /\ Hold(r, r, "nothing")
             /\ Goto(r, "target")
    <3>1. attempts'[r] \in Row /\ ~Exists(r)
      BY <1>4, <2>1 DEF CreateOrGet, Goto, Status
    <3>2. TypeOK'
      BY <1>4, <2>1, <3>1 DEF CreateOrGet, Goto, Hold
    <3>3. HeldAttempt'
      BY <1>4, <2>1, <3>1 DEF CreateOrGet, Goto, Hold
    <3>4. RowsOfTheirCreator'
      BY <1>4, <2>1, <3>1 DEF CreateOrGet, Goto
    <3>5. QED BY <3>2, <3>3, <3>4
  <2>2. ASSUME NEW a \in RowsFor(call[r].key), attempts[a].doc = call[r].doc,
               Hold(r, a, "nothing"), Goto(r, "target"), UNCHANGED attempts
        PROVE  StructInv'
    BY <1>4, <2>2 DEF CreateOrGet, RowsFor, Goto, Hold
  <2>3. CASE Answer(r, "conflict") /\ UNCHANGED <<call, attempts>>
    BY <1>4, <2>3 DEF CreateOrGet, Answer
  <2>4. QED
    BY <1>4, <2>1, <2>2, <2>3 DEF CreateOrGet
<1>5. ASSUME NEW r \in Requests, IssueTarget(r) PROVE StructInv'
  <2>1. ObjectOf(r) \in Requests
    BY <1>5 DEF IssueTarget, ObjectOf
  <2>2. QED
    BY <1>5, <2>1 DEF IssueTarget, Answer
<1>6. ASSUME NEW r \in Requests, FindAttempt(r) PROVE StructInv'
  <2> DEFINE a == call[r].attempt
  <2>1. CASE /\ Hold(r, a, attempts[a].status)
             /\ Exists(a) /\ attempts[a].doc = call[r].doc
             /\ Goto(r, "inspect")
    <3>1. a \in Requests /\ attempts[a].status \in Status
      BY <1>6, <2>1 DEF FindAttempt
    <3>2. QED
      BY <1>6, <2>1, <3>1 DEF FindAttempt, Goto, Hold
  <2>2. CASE UNCHANGED call /\ \E answer \in {"not_found", "conflict"} : Answer(r, answer)
    BY <1>6, <2>2 DEF FindAttempt, Answer
  <2>3. QED
    BY <1>6, <2>1, <2>2 DEF FindAttempt
<1>7. ASSUME NEW r \in Requests, Inspect(r) PROVE StructInv'
  <2>1. store[ObjectOf(r)] \in Objects
    BY <1>7 DEF Inspect, ObjectOf
  <2>2. seen' \in [Requests -> Objects \cup {"unread", "error"}]
    BY <1>7, <2>1 DEF Inspect
  <2>3. \/ \E next \in {"audit", "commit", "cleanup", "fail"} : Goto(r, next)
        \/ Answer(r, "error")
    BY <1>7 DEF Inspect, Reject
  <2>4. QED
    BY <1>7, <2>2, <2>3 DEF Inspect, Goto, Answer
<1>8. ASSUME NEW r \in Requests, InspectThrows(r) PROVE StructInv'
  BY <1>8 DEF InspectThrows, Reject, Goto, Answer
<1>9. ASSUME NEW r \in Requests, Cleanup(r) PROVE StructInv'
  <2>1. store' \in [Requests -> Objects]
    BY <1>9 DEF Cleanup, Objects
  <2>2. QED
    BY <1>9, <2>1 DEF Cleanup, Reject, Goto, Answer
<1>10. ASSUME NEW r \in Requests, MarkFailed(r) PROVE StructInv'
  <2>1. call[r].attempt \in Requests /\ Exists(call[r].attempt)
    BY <1>10 DEF MarkFailed
  <2>2. /\ attempts' \in [Requests -> Row \cup {NoRow}]
        /\ \A a \in Requests : Exists(a)' <=> Exists(a)
        /\ \A a \in Requests : Exists(a) =>
              /\ attempts'[a].doc = attempts[a].doc
              /\ attempts'[a].objectKey = attempts[a].objectKey
    BY <1>10, <2>1 DEF MarkFailed, Status
  <2>3. QED
    BY <1>10, <2>1, <2>2 DEF MarkFailed, Answer
<1>11. ASSUME NEW r \in Requests, MarkCompleted(r) PROVE StructInv'
  <2>1. call[r].attempt \in Requests /\ Exists(call[r].attempt)
    BY <1>11 DEF MarkCompleted
  <2>2. /\ attempts' \in [Requests -> Row \cup {NoRow}]
        /\ \A a \in Requests : Exists(a)' <=> Exists(a)
        /\ \A a \in Requests : Exists(a) =>
              /\ attempts'[a].doc = attempts[a].doc
              /\ attempts'[a].objectKey = attempts[a].objectKey
    BY <1>11, <2>1 DEF MarkCompleted, Status
  <2>3. CASE Goto(r, "audit")
    BY <1>11, <2>1, <2>2, <2>3 DEF MarkCompleted, Goto
  <2>4. CASE Answer(r, "conflict")
    BY <1>11, <2>1, <2>2, <2>4 DEF MarkCompleted, Answer
  <2>5. QED
    BY <1>11, <2>3, <2>4 DEF MarkCompleted
<1>12. ASSUME NEW r \in Requests, RecordCompletion(r) PROVE StructInv'
  BY <1>12 DEF RecordCompletion, Answer, Event
<1>13. ASSUME NEW r \in Requests, RequestFails(r) PROVE StructInv'
  BY <1>13 DEF RequestFails, Answer
<1>14. ASSUME NEW o \in Requests, ExpireTarget(o) PROVE StructInv'
  BY <1>14 DEF ExpireTarget
<1>15. ASSUME NEW o \in Requests, NEW c \in Contents, PutObject(o, c) PROVE StructInv'
  BY <1>15 DEF PutObject
<1>16. CASE UNCHANGED vars
  BY <1>16 DEF vars
<1>17. QED
  BY <1>1, <1>2, <1>3, <1>4, <1>5, <1>6, <1>7, <1>8, <1>9, <1>10, <1>11, <1>12,
     <1>13, <1>14, <1>15, <1>16 DEF Next, Handle

\* A row keeps its document, key and object key, and its status once decided,
\* whatever step is taken: the two updates of the repository are compare-and-set.
LEMMA RowsFrozen ==
    ASSUME StructInv, [Next]_vars
    PROVE  \A a \in Requests : Exists(a) =>
              /\ Exists(a)'
              /\ attempts'[a].doc = attempts[a].doc
              /\ attempts'[a].key = attempts[a].key
              /\ attempts'[a].objectKey = attempts[a].objectKey
              /\ attempts[a].status # "initiated" => attempts'[a].status = attempts[a].status
<1> USE DEF StructInv, TypeOK, HeldAttempt, Holding, Exists, Row
<1>1. CASE UNCHANGED attempts
  BY <1>1
<1>2. ASSUME NEW r \in Requests, CreateOrGet(r), attempts' # attempts
      PROVE  /\ ~Exists(r)
             /\ \A a \in Requests \ {r} : attempts'[a] = attempts[a]
  BY <1>2 DEF CreateOrGet, RowsOfTheirCreator
<1>3. ASSUME NEW r \in Requests, MarkFailed(r) \/ MarkCompleted(r), attempts' # attempts
      PROVE  LET a == call[r].attempt IN
             /\ a \in Requests /\ Exists(a) /\ attempts[a].status = "initiated"
             /\ \/ attempts' = [attempts EXCEPT ![a].status = "failed"]
                \/ attempts' = [attempts EXCEPT ![a].status = "completed"]
  BY <1>3 DEF MarkFailed, MarkCompleted
<1>4. ASSUME NEW r \in Requests, MarkFailed(r) \/ MarkCompleted(r), attempts' # attempts,
             NEW a \in Requests, Exists(a)
      PROVE  /\ Exists(a)'
             /\ attempts'[a].doc = attempts[a].doc
             /\ attempts'[a].key = attempts[a].key
             /\ attempts'[a].objectKey = attempts[a].objectKey
             /\ attempts[a].status # "initiated" => attempts'[a] = attempts[a]
  <2>1. CASE a = call[r].attempt
    <3>1. attempts[a] \in Row /\ attempts[a].status = "initiated"
      BY <1>3, <1>4, <2>1
    <3>2. CASE attempts' = [attempts EXCEPT ![a].status = "failed"]
      BY <3>1, <3>2 DEF Status
    <3>3. CASE attempts' = [attempts EXCEPT ![a].status = "completed"]
      BY <3>1, <3>3 DEF Status
    <3>4. QED
      BY <1>3, <1>4, <2>1, <3>2, <3>3
  <2>2. CASE a # call[r].attempt
    <3>1. attempts'[a] = attempts[a]
      BY <1>3, <1>4, <2>2
    <3>2. QED
      BY <1>4, <3>1
  <2>3. QED BY <2>1, <2>2
<1>5. \/ UNCHANGED attempts
      \/ \E r \in Requests : CreateOrGet(r) \/ MarkFailed(r) \/ MarkCompleted(r)
  BY DEF Next, Handle, vars, Initiate, Complete, LookupKey, IssueTarget, FindAttempt,
         Inspect, InspectThrows, Cleanup, RecordCompletion, RequestFails, ExpireTarget,
         PutObject
<1>6. QED
  BY <1>1, <1>2, <1>4, <1>5

-----------------------------------------------------------------------------
(* What a request has seen of its object.                                  *)

\* What makes a completion fail.
Wrong == {"absent", "differing", "unlabelled", "error"}

\* Each step of the completion handler is taken on the strength of what the
\* provider told this request, and what the row said is still so.
SeenMeans ==
    \A r \in Requests :
        /\ pc[r] \in {"idle", "find", "inspect"} \cup InitiateSteps => seen[r] = "unread"
        /\ seen[r] # "unread" =>
              /\ call[r].attempt \in Requests
              /\ Exists(call[r].attempt)
        /\ pc[r] = "cleanup" => seen[r] = "differing"
        /\ pc[r] \in {"commit", "audit"} => seen[r] = "matching"
        /\ pc[r] = "fail" => seen[r] \in Wrong
        /\ pc[r] \in Holding \ {"target"} /\ call[r].found = "completed" =>
              attempts[call[r].attempt].status = "completed"
        /\ pc[r] = "audit" => attempts[call[r].attempt].status = "completed"
        /\ reply[r] # "none" => pc[r] = "done"
        /\ reply[r] = "completed" => seen[r] = "matching"

\* The part of the inductive invariant the other lemmas rest on.
SeenInv == StructInv /\ SeenMeans

\* A request acts on what it saw for as long as it runs (completePersisted).
LEMMA SeenStep == SeenInv /\ [Next]_vars => SeenMeans'
<1> SUFFICES ASSUME SeenInv, [Next]_vars PROVE SeenMeans'
  OBVIOUS
<1> DEFINE Kept(a) == /\ Exists(a)'
                      /\ attempts[a].status = "completed" => attempts'[a].status = "completed"
<1>0. \A a \in Requests : Exists(a) => Kept(a)
  BY RowsFrozen DEF SeenInv
<1> USE DEF SeenInv, SeenMeans, Wrong, Holding, InitiateSteps, StructInv, TypeOK,
            HeldAttempt, Exists
<1>1. ASSUME NEW r \in Requests, NEW d \in Documents, NEW k \in Keys, Initiate(r, d, k)
      PROVE  SeenMeans'
  BY <1>1 DEF Initiate, Goto
<1>2. ASSUME NEW r \in Requests, NEW d \in Documents, NEW a \in Requests, Complete(r, d, a)
      PROVE  SeenMeans'
  BY <1>2 DEF Complete, Goto
<1>3. ASSUME NEW r \in Requests, LookupKey(r) PROVE SeenMeans'
  BY <1>3 DEF LookupKey, Hold, Goto, Answer
<1>4. ASSUME NEW r \in Requests, CreateOrGet(r) PROVE SeenMeans'
  <2>1. /\ pc[r] = "create" /\ pc'[r] \in {"target", "done"} /\ UNCHANGED seen
        /\ pc'[r] = "target" => reply'[r] = reply[r]
        /\ reply'[r] # "completed"
        /\ \A q \in Requests \ {r} : pc'[q] = pc[q] /\ call'[q] = call[q] /\ reply'[q] = reply[q]
    BY <1>4 DEF CreateOrGet, Hold, Goto, Answer
  <2>2. QED
    BY <1>0, <2>1
<1>5. ASSUME NEW r \in Requests, IssueTarget(r) PROVE SeenMeans'
  BY <1>5 DEF IssueTarget, Answer
<1>6. ASSUME NEW r \in Requests, FindAttempt(r) PROVE SeenMeans'
  BY <1>6 DEF FindAttempt, Hold, Goto, Answer
<1>7. ASSUME NEW r \in Requests, Inspect(r) PROVE SeenMeans'
  <2>1. /\ call[r].attempt \in Requests /\ Exists(call[r].attempt)
        /\ store[ObjectOf(r)] \in Objects
    BY <1>7 DEF Inspect, ObjectOf, Row
  <2>2. CASE store[ObjectOf(r)] = "matching"
    <3>1. CASE call[r].found = "completed"
      BY <1>7, <2>1, <2>2, <3>1 DEF Inspect, Goto
    <3>2. CASE call[r].found # "completed"
      BY <1>7, <2>1, <2>2, <3>2 DEF Inspect, Goto
    <3>3. QED
      BY <3>1, <3>2
  <2>3. CASE store[ObjectOf(r)] = "differing"
    BY <1>7, <2>1, <2>3 DEF Inspect, Goto
  <2>4. CASE store[ObjectOf(r)] \in {"absent", "unlabelled"}
    BY <1>7, <2>1, <2>4 DEF Inspect, Reject, Goto, Answer
  <2>5. QED
    BY <2>1, <2>2, <2>3, <2>4 DEF Objects
<1>8. ASSUME NEW r \in Requests, InspectThrows(r) PROVE SeenMeans'
  BY <1>8 DEF InspectThrows, Reject, Goto, Answer
<1>9. ASSUME NEW r \in Requests, Cleanup(r) PROVE SeenMeans'
  BY <1>9 DEF Cleanup, Reject, Goto, Answer
<1>10. ASSUME NEW r \in Requests, MarkFailed(r) PROVE SeenMeans'
  <2>1. /\ pc'[r] = "done" /\ reply'[r] = "error" /\ UNCHANGED <<seen, call>>
        /\ \A q \in Requests \ {r} : pc'[q] = pc[q] /\ reply'[q] = reply[q]
    BY <1>10 DEF MarkFailed, Answer
  <2>2. QED
    BY <1>0, <1>10, <2>1 DEF MarkFailed
<1>11. ASSUME NEW r \in Requests, MarkCompleted(r) PROVE SeenMeans'
  <2>1. /\ pc[r] = "commit" /\ UNCHANGED <<seen, call>>
        /\ \/ /\ pc'[r] = "audit" /\ reply' = reply
              /\ attempts'[call[r].attempt].status = "completed"
           \/ pc'[r] = "done" /\ reply'[r] = "conflict"
        /\ \A q \in Requests \ {r} : pc'[q] = pc[q] /\ reply'[q] = reply[q]
    BY <1>11 DEF MarkCompleted, Answer, Goto
  <2>2. QED
    BY <1>0, <2>1
<1>12. ASSUME NEW r \in Requests, RecordCompletion(r) PROVE SeenMeans'
  BY <1>12 DEF RecordCompletion, Answer
<1>13. ASSUME NEW r \in Requests, RequestFails(r) PROVE SeenMeans'
  BY <1>13 DEF RequestFails, Answer
<1>14. ASSUME NEW o \in Requests, ExpireTarget(o) PROVE SeenMeans'
  BY <1>14 DEF ExpireTarget
<1>15. ASSUME NEW o \in Requests, NEW c \in Contents, PutObject(o, c) PROVE SeenMeans'
  BY <1>15 DEF PutObject
<1>16. CASE UNCHANGED vars
  BY <1>16 DEF vars
<1>17. QED
  BY <1>1, <1>2, <1>3, <1>4, <1>5, <1>6, <1>7, <1>8, <1>9, <1>10, <1>11, <1>12,
     <1>13, <1>14, <1>15, <1>16 DEF Next, Handle

\* Both hold in every reachable state.
LEMMA SeenInvariant == Spec => []SeenInv
<1>1. Init => SeenInv
  BY StructInit DEF Init, SeenInv, SeenMeans, InitiateSteps, Holding
<1>2. SeenInv /\ [Next]_vars => SeenInv'
  BY StructStep, SeenStep DEF SeenInv
<1>3. QED
  BY <1>1, <1>2, PTL DEF Spec

\* Every reachable state is well typed (the columns, statuses and handler steps
\* of the upload protocol).
THEOREM TypeCorrect == Spec => []TypeOK
<1>1. SeenInv => TypeOK
  BY DEF SeenInv, StructInv
<1>2. QED
  BY <1>1, SeenInvariant, PTL

\* What a request has seen, and all of an answered request, stays as it is.
LEMMA SeenKept ==
    ASSUME SeenInv, [Next]_vars
    PROVE  \A r \in Requests :
              /\ seen[r] # "unread" => seen'[r] = seen[r] /\ call'[r] = call[r]
              /\ pc[r] = "done" => /\ pc'[r] = "done" /\ reply'[r] = reply[r]
                                   /\ call'[r] = call[r] /\ seen'[r] = seen[r]
<1> USE DEF SeenInv, SeenMeans, StructInv, TypeOK, InitiateSteps
<1>1. ASSUME NEW q \in Requests
      PROVE  \/ /\ pc[q] \in {"idle", "lookup", "create", "find"}
                /\ \A r \in Requests \ {q} : /\ pc'[r] = pc[r] /\ reply'[r] = reply[r]
                                              /\ call'[r] = call[r]
                /\ UNCHANGED seen
             \/ /\ pc[q] = "inspect"
                /\ \A r \in Requests \ {q} : /\ pc'[r] = pc[r] /\ reply'[r] = reply[r]
                                              /\ seen'[r] = seen[r]
                /\ UNCHANGED call
             \/ /\ pc[q] \in Steps
                /\ \A r \in Requests \ {q} : pc'[r] = pc[r] /\ reply'[r] = reply[r]
                /\ UNCHANGED <<seen, call>>
             \/ ~\/ Handle(q)
                 \/ \E d \in Documents, k \in Keys : Initiate(q, d, k)
                 \/ \E d \in Documents, a \in Requests : Complete(q, d, a)
  <2>1. CASE \/ \E d \in Documents, k \in Keys : Initiate(q, d, k)
             \/ \E d \in Documents, a \in Requests : Complete(q, d, a)
             \/ LookupKey(q) \/ CreateOrGet(q) \/ FindAttempt(q)
    BY <2>1 DEF Initiate, Complete, LookupKey, CreateOrGet, FindAttempt, Hold, Goto, Answer
  <2>2. CASE Inspect(q) \/ InspectThrows(q)
    BY <2>2 DEF Inspect, InspectThrows, Reject, Goto, Answer
  <2>3. CASE \/ IssueTarget(q) \/ Cleanup(q) \/ MarkFailed(q) \/ MarkCompleted(q)
             \/ RecordCompletion(q) \/ RequestFails(q)
    BY <2>3 DEF IssueTarget, Cleanup, MarkFailed, MarkCompleted, RecordCompletion,
                RequestFails, Reject, Goto, Answer, Steps, CompleteSteps
  <2>4. QED
    BY <2>1, <2>2, <2>3 DEF Handle
<1>2. ASSUME NEW o \in Requests, ExpireTarget(o) \/ \E c \in Contents : PutObject(o, c)
      PROVE  UNCHANGED <<pc, reply, call, seen>>
  BY <1>2 DEF ExpireTarget, PutObject
<1>3. QED
  BY <1>1, <1>2 DEF Next, vars, Steps, CompleteSteps

-----------------------------------------------------------------------------
(* The safety properties.                                                  *)

\* The unique index on (organization_id, idempotency_key).
OneAttemptPerKey ==
    \A a, b \in Requests :
        Exists(a) /\ Exists(b) /\ attempts[a].key = attempts[b].key => a = b

\* attempts.complete runs only after verifyCompletion returned.
CompletedWasVerified ==
    \A a \in Requests : Exists(a) /\ attempts[a].status = "completed" => a \in Verified

\* Bytes other than the declared ones come from a client, and what a request
\* saw to match stays until some client overwrites it.
ObjectsAccountedFor ==
    /\ \A o \in Requests : store[o] \in {"differing", "unlabelled"} => o \in soiled
    /\ \A r \in Requests :
          /\ seen[r] = "differing" => call[r].attempt \in soiled
          /\ seen[r] = "matching" /\ call[r].attempt \notin soiled
                => store[call[r].attempt] = "matching"

\* Only createOrGet inserts, and only when no row has the key.
LEMMA OneAttemptPerKeyStep ==
    SeenInv /\ OneAttemptPerKey /\ [Next]_vars => OneAttemptPerKey'
<1> SUFFICES ASSUME SeenInv, OneAttemptPerKey, [Next]_vars PROVE OneAttemptPerKey'
  OBVIOUS
<1> USE DEF OneAttemptPerKey, Exists
<1>1. ASSUME NEW r \in Requests, CreateOrGet(r) PROVE OneAttemptPerKey'
  <2>1. CASE UNCHANGED attempts
    BY <2>1
  <2>2. CASE /\ RowsFor(call[r].key) = {}
             /\ attempts' = [attempts EXCEPT ![r] =
                    [doc |-> call[r].doc, key |-> call[r].key,
                     objectKey |-> r, status |-> "initiated"]]
    <3>1. attempts'[r].key = call[r].key /\ \A a \in Requests \ {r} : attempts'[a] = attempts[a]
      BY <2>2 DEF SeenInv, StructInv, TypeOK
    <3>2. \A a \in Requests : Exists(a) => attempts[a].key # call[r].key
      BY <2>2 DEF RowsFor
    <3>3. QED
      BY <3>1, <3>2
  <2>3. QED
    BY <1>1, <2>1, <2>2 DEF CreateOrGet
<1>2. ASSUME \A a \in Requests : Exists(a)' => Exists(a) PROVE OneAttemptPerKey'
  BY <1>2, RowsFrozen DEF SeenInv
<1>3. ASSUME NEW r \in Requests, MarkFailed(r) \/ MarkCompleted(r)
      PROVE  \A a \in Requests : Exists(a)' => Exists(a)
  BY <1>3 DEF MarkFailed, MarkCompleted, SeenInv, StructInv, TypeOK, HeldAttempt, Holding
<1>4. CASE UNCHANGED attempts
  BY <1>4
<1>5. QED
  BY <1>1, <1>2, <1>3, <1>4 DEF Next, Handle, vars, Initiate, Complete, LookupKey,
     IssueTarget, FindAttempt, Inspect, InspectThrows, Cleanup, RecordCompletion,
     RequestFails, ExpireTarget, PutObject

\* Only a request that saw a matching object completes an attempt.
LEMMA CompletedWasVerifiedStep ==
    SeenInv /\ CompletedWasVerified /\ [Next]_vars => CompletedWasVerified'
<1> SUFFICES ASSUME SeenInv, CompletedWasVerified, [Next]_vars,
                    NEW a \in Requests, Exists(a)', attempts'[a].status = "completed"
             PROVE  (a \in Verified)'
  BY DEF CompletedWasVerified
<1>1. ASSUME a \in Verified PROVE (a \in Verified)'
  BY <1>1, SeenKept DEF Verified
<1>2. ASSUME NEW r \in Requests, MarkCompleted(r), a = call[r].attempt PROVE a \in Verified
  BY <1>2 DEF MarkCompleted, Verified, SeenInv, SeenMeans
<1>3. ASSUME NEW r \in Requests,
             CreateOrGet(r) \/ MarkFailed(r) \/ (MarkCompleted(r) /\ a # call[r].attempt)
      PROVE  Exists(a) /\ attempts[a].status = "completed"
  <2> USE DEF SeenInv, StructInv, TypeOK, HeldAttempt, Holding, Exists, Row
  <2>1. CASE CreateOrGet(r)
    <3>1. CASE UNCHANGED attempts
      BY <3>1
    <3>2. CASE attempts' = [attempts EXCEPT ![r] =
                    [doc |-> call[r].doc, key |-> call[r].key,
                     objectKey |-> r, status |-> "initiated"]]
      <4>1. a # r
        BY <3>2
      <4>2. QED
        BY <3>2, <4>1
    <3>3. QED
      BY <2>1, <3>1, <3>2 DEF CreateOrGet
  <2>2. CASE MarkFailed(r)
    <3>1. call[r].attempt \in Requests /\ attempts[call[r].attempt] \in Row
      BY <2>2 DEF MarkFailed
    <3>2. CASE UNCHANGED attempts
      BY <3>2
    <3>3. CASE attempts' = [attempts EXCEPT ![call[r].attempt].status = "failed"]
      <4>1. attempts'[call[r].attempt].status = "failed"
        BY <3>1, <3>3
      <4>2. QED
        BY <3>1, <3>3, <4>1
    <3>4. QED
      BY <2>2, <3>2, <3>3 DEF MarkFailed
  <2>3. CASE MarkCompleted(r) /\ a # call[r].attempt
    BY <2>3 DEF MarkCompleted
  <2>4. QED
    BY <1>3, <2>1, <2>2, <2>3
<1>4. CASE UNCHANGED attempts
  BY <1>1, <1>4 DEF CompletedWasVerified, Exists
<1>5. QED
  BY <1>1, <1>2, <1>3, <1>4 DEF CompletedWasVerified, Next, Handle, vars, Initiate,
     Complete, LookupKey, IssueTarget, FindAttempt, Inspect, InspectThrows, Cleanup,
     RecordCompletion, RequestFails, ExpireTarget, PutObject

\* The service deletes an object only after it saw bytes a client had spoiled, and
\* nothing but a client writes one (verifyCompletion, the signed targets).
LEMMA ObjectsStep ==
    SeenInv /\ ObjectsAccountedFor /\ [Next]_vars => ObjectsAccountedFor'
<1> SUFFICES ASSUME SeenInv, ObjectsAccountedFor, [Next]_vars PROVE ObjectsAccountedFor'
  OBVIOUS
<1> USE DEF ObjectsAccountedFor, SeenInv, StructInv, TypeOK
<1>0. \A r \in Requests : seen[r] # "unread" => seen'[r] = seen[r] /\ call'[r] = call[r]
  BY SeenKept
<1>1. ASSUME UNCHANGED <<store, soiled, seen>> PROVE ObjectsAccountedFor'
  BY <1>0, <1>1
<1>2. ASSUME NEW r \in Requests, Inspect(r) PROVE ObjectsAccountedFor'
  <2>1. call[r].attempt \in Requests /\ ObjectOf(r) = call[r].attempt
    BY <1>2 DEF Inspect, ObjectOf, HeldAttempt, Holding, RowsOfTheirCreator
  <2>2. /\ seen'[r] = store[call[r].attempt]
        /\ \A q \in Requests \ {r} : seen'[q] = seen[q]
        /\ UNCHANGED <<store, soiled, call>>
    BY <1>2, <2>1 DEF Inspect
  <2>3. QED
    BY <2>1, <2>2
<1>3. ASSUME NEW r \in Requests, InspectThrows(r) PROVE ObjectsAccountedFor'
  BY <1>3 DEF InspectThrows
<1>4. ASSUME NEW r \in Requests, Cleanup(r) PROVE ObjectsAccountedFor'
  <2>1. /\ call[r].attempt \in Requests /\ ObjectOf(r) = call[r].attempt
        /\ seen[r] = "differing"
    BY <1>4 DEF Cleanup, ObjectOf, HeldAttempt, Holding, RowsOfTheirCreator, SeenMeans
  <2>2. /\ call[r].attempt \in soiled
        /\ \A o \in Requests \ {call[r].attempt} : store'[o] = store[o]
        /\ store'[call[r].attempt] \in {store[call[r].attempt], "absent"}
        /\ UNCHANGED <<soiled, seen, call>>
    BY <1>4, <2>1 DEF Cleanup
  <2>3. \A q \in Requests : seen[q] # "unread" => call[q].attempt \in Requests
    BY DEF SeenMeans
  <2>4. QED
    BY <2>1, <2>2, <2>3
<1>5. ASSUME NEW o \in Requests, NEW c \in Contents, PutObject(o, c)
      PROVE  ObjectsAccountedFor'
  <2>1. \A q \in Requests : seen[q] # "unread" => call[q].attempt \in Requests
    BY DEF SeenMeans
  <2>2. /\ \A p \in Requests \ {o} : store'[p] = store[p]
        /\ store'[o] = c
        /\ UNCHANGED <<seen, call>>
        /\ soiled' = IF c = "matching" THEN soiled ELSE soiled \cup {o}
    BY <1>5 DEF PutObject
  <2>3. QED
    BY <2>1, <2>2
<1>6. QED
  BY <1>1, <1>2, <1>3, <1>4, <1>5 DEF Next, Handle, vars, Initiate, Complete, LookupKey,
     CreateOrGet, IssueTarget, FindAttempt, MarkFailed, MarkCompleted, RecordCompletion,
     RequestFails, ExpireTarget

\* A target is signed for the row its request holds, and rows stay (createTarget).
LEMMA TargetsStep ==
    SeenInv /\ TargetsAreAccountedFor /\ [Next]_vars => TargetsAreAccountedFor'
<1> SUFFICES ASSUME SeenInv, TargetsAreAccountedFor, [Next]_vars,
                    NEW o \in targets'
             PROVE  \E a \in Requests : Exists(a)' /\ attempts'[a].objectKey = o
  BY DEF TargetsAreAccountedFor
<1>1. \/ o \in targets
      \/ \E r \in Requests : IssueTarget(r) /\ o = ObjectOf(r)
  BY DEF Next, Handle, vars, Initiate, Complete, LookupKey, CreateOrGet, IssueTarget,
     FindAttempt, Inspect, InspectThrows, Cleanup, MarkFailed, MarkCompleted,
     RecordCompletion, RequestFails, ExpireTarget, PutObject
<1>2. \E a \in Requests : Exists(a) /\ attempts[a].objectKey = o
  BY <1>1 DEF TargetsAreAccountedFor, IssueTarget, ObjectOf, SeenInv, StructInv,
     HeldAttempt, Holding
<1>3. QED
  BY <1>2, RowsFrozen DEF SeenInv

\* Only a request in the catch block of completePersisted fails an attempt.
LEMMA FailedHasCauseStep ==
    SeenInv /\ FailedHasCause /\ [Next]_vars => FailedHasCause'
<1> SUFFICES ASSUME SeenInv, FailedHasCause, [Next]_vars,
                    NEW a \in Requests, Exists(a)', attempts'[a].status = "failed"
             PROVE  \E r \in Requests : /\ pc'[r] = "done" /\ call'[r].attempt = a
                                        /\ seen'[r] \in Wrong
  BY DEF FailedHasCause, Wrong
<1>1. ASSUME Exists(a), attempts[a].status = "failed"
      PROVE  \E r \in Requests : /\ pc'[r] = "done" /\ call'[r].attempt = a
                                 /\ seen'[r] \in Wrong
  BY <1>1, SeenKept DEF FailedHasCause, Wrong
<1>2. ASSUME NEW r \in Requests, MarkFailed(r), a = call[r].attempt
      PROVE  pc'[r] = "done" /\ call'[r].attempt = a /\ seen'[r] \in Wrong
  BY <1>2 DEF MarkFailed, Answer, SeenInv, SeenMeans, StructInv, TypeOK
<1>3. ASSUME NEW r \in Requests,
             CreateOrGet(r) \/ MarkCompleted(r) \/ (MarkFailed(r) /\ a # call[r].attempt)
      PROVE  Exists(a) /\ attempts[a].status = "failed"
  <2> USE DEF SeenInv, StructInv, TypeOK, HeldAttempt, Holding, Exists, Row
  <2>1. CASE CreateOrGet(r)
    <3>1. CASE UNCHANGED attempts
      BY <3>1
    <3>2. CASE attempts' = [attempts EXCEPT ![r] =
                    [doc |-> call[r].doc, key |-> call[r].key,
                     objectKey |-> r, status |-> "initiated"]]
      <4>1. a # r
        BY <3>2
      <4>2. QED
        BY <3>2, <4>1
    <3>3. QED
      BY <2>1, <3>1, <3>2 DEF CreateOrGet
  <2>2. CASE MarkCompleted(r)
    <3>1. call[r].attempt \in Requests /\ attempts[call[r].attempt] \in Row
      BY <2>2 DEF MarkCompleted
    <3>2. CASE UNCHANGED attempts
      BY <3>2
    <3>3. CASE attempts' = [attempts EXCEPT ![call[r].attempt].status = "completed"]
      <4>1. attempts'[call[r].attempt].status = "completed"
        BY <3>1, <3>3
      <4>2. QED
        BY <3>1, <3>3, <4>1
    <3>4. QED
      BY <2>2, <3>2, <3>3 DEF MarkCompleted
  <2>3. CASE MarkFailed(r) /\ a # call[r].attempt
    BY <2>3 DEF MarkFailed
  <2>4. QED
    BY <1>3, <2>1, <2>2, <2>3
<1>4. ASSUME UNCHANGED attempts PROVE Exists(a) /\ attempts[a].status = "failed"
  BY <1>4 DEF Exists
<1>5. QED
  BY <1>1, <1>2, <1>3, <1>4 DEF Next, Handle, vars, Initiate, Complete, LookupKey,
     IssueTarget, FindAttempt, Inspect, InspectThrows, Cleanup, RecordCompletion,
     RequestFails, ExpireTarget, PutObject

\* A request answers 200 on a completed row and after its audit event, and both
\* stay (the completion route).
LEMMA CompletedReplyStep ==
    SeenInv /\ CompletedReplyHolds /\ [Next]_vars => CompletedReplyHolds'
<1> SUFFICES ASSUME SeenInv, CompletedReplyHolds, [Next]_vars, NEW r \in Requests,
                    reply'[r] = "completed"
             PROVE  /\ Exists(call[r].attempt)'
                    /\ attempts'[call'[r].attempt].status = "completed"
                    /\ attempts'[call'[r].attempt].doc = call'[r].doc
                    /\ \E e \in auditLog' : e.request = r /\ e.attempt = call'[r].attempt
  BY DEF CompletedReplyHolds
<1>1. auditLog \subseteq auditLog'
  BY DEF Next, Handle, vars, Initiate, Complete, LookupKey, CreateOrGet, IssueTarget,
     FindAttempt, Inspect, InspectThrows, Cleanup, MarkFailed, MarkCompleted,
     RecordCompletion, RequestFails, ExpireTarget, PutObject
<1>2. ASSUME reply[r] = "completed"
      PROVE  /\ reply'[r] = "completed" /\ call'[r] = call[r]
             /\ call[r].attempt \in Requests
  BY <1>2, SeenKept DEF SeenInv, SeenMeans
<1>3. CASE reply[r] = "completed"
  BY <1>1, <1>2, <1>3, RowsFrozen DEF CompletedReplyHolds, SeenInv
<1>4. CASE reply[r] # "completed"
  <2>0. \A q \in Requests, answer \in Replies \ {"completed"} :
            Answer(q, answer) \/ UNCHANGED reply => reply'[r] # "completed"
    BY <1>4 DEF Answer, SeenInv, StructInv, TypeOK
  <2>1. RecordCompletion(r)
    <3>1. ASSUME NEW q \in Requests, Handle(q), ~RecordCompletion(q)
          PROVE  \E answer \in Replies \ {"completed"} : Answer(q, answer) \/ UNCHANGED reply
      BY <3>1 DEF Handle, LookupKey, CreateOrGet, IssueTarget, FindAttempt, Inspect,
         InspectThrows, Cleanup, MarkFailed, MarkCompleted, RequestFails, Reject, Goto,
         Replies
    <3>2. ASSUME NEW q \in Requests, RecordCompletion(q) PROVE q = r
      BY <1>4, <3>2 DEF RecordCompletion, Answer, SeenInv, StructInv, TypeOK
    <3>3. ~UNCHANGED reply
      BY <1>4
    <3>4. QED
      BY <2>0, <3>1, <3>2, <3>3 DEF Next, vars, Initiate, Complete, Goto, ExpireTarget,
         PutObject
  <2>2. call[r].attempt \in Requests /\ Exists(call[r].attempt)
    BY <2>1 DEF RecordCompletion, SeenInv, StructInv, HeldAttempt, Holding
  <2>3. /\ UNCHANGED <<attempts, call>>
        /\ [request |-> r, attempt |-> call[r].attempt, found |-> call[r].found] \in auditLog'
    BY <2>1 DEF RecordCompletion
  <2>4. /\ attempts[call[r].attempt].doc = call[r].doc
        /\ attempts[call[r].attempt].status = "completed"
    BY <2>1 DEF RecordCompletion, SeenInv, SeenMeans, StructInv, HeldAttempt, Holding
  <2>5. QED
    BY <2>2, <2>3, <2>4 DEF Exists
<1>5. QED
  BY <1>3, <1>4

-----------------------------------------------------------------------------
(* The inductive invariant and the theorems.                               *)

\* The inductive invariant.
IInv ==
    /\ SeenInv
    /\ OneAttemptPerKey
    /\ CompletedWasVerified
    /\ ObjectsAccountedFor
    /\ TargetsAreAccountedFor
    /\ FailedHasCause
    /\ CompletedReplyHolds

\* It holds in every reachable state.
LEMMA Invariance == Spec => []IInv
<1>1. Init => IInv
  BY StructInit DEF Init, IInv, SeenInv, SeenMeans, InitiateSteps, Holding, Exists,
     OneAttemptPerKey, CompletedWasVerified, ObjectsAccountedFor,
     TargetsAreAccountedFor, FailedHasCause, CompletedReplyHolds
<1>2. IInv /\ [Next]_vars => IInv'
  BY StructStep, SeenStep, OneAttemptPerKeyStep, CompletedWasVerifiedStep, ObjectsStep,
     TargetsStep, FailedHasCauseStep, CompletedReplyStep DEF IInv, SeenInv
<1>3. QED
  BY <1>1, <1>2, PTL DEF Spec

\* A 200 from the completion handler stays true (completePersisted and the
\* complete route).
THEOREM CompletedReplyCorrect == Spec => []CompletedReplyHolds
<1>1. IInv => CompletedReplyHolds
  BY DEF IInv
<1>2. QED
  BY <1>1, Invariance, PTL

\* The object of a completed attempt matches unless a client overwrote it: no
\* interleaving of cleanups, updates and failures loses it (verifyCompletion).
THEOREM CompletedObjectCorrect == Spec => []CompletedObjectIntact
<1>1. IInv => CompletedObjectIntact
  BY DEF IInv, SeenInv, StructInv, RowsOfTheirCreator, CompletedWasVerified, Verified,
         ObjectsAccountedFor, CompletedObjectIntact
<1>2. QED
  BY <1>1, Invariance, PTL

\* Every live upload target belongs to a persisted attempt (createTarget is
\* given the persisted object key).
THEOREM TargetsCorrect == Spec => []TargetsAreAccountedFor
<1>1. IInv => TargetsAreAccountedFor
  BY DEF IInv
<1>2. QED
  BY <1>1, Invariance, PTL

\* An attempt fails only after a verification that did not succeed
\* (completePersisted's catch block is the only caller of attempts.fail).
THEOREM FailureCorrect == Spec => []FailedHasCause
<1>1. IInv => FailedHasCause
  BY DEF IInv
<1>2. QED
  BY <1>1, Invariance, PTL

-----------------------------------------------------------------------------
(* The protocol implements its contract.                                   *)

\* Only an inspection that finds a matching object verifies an attempt.
LEMMA VerifiedStep ==
    ASSUME SeenInv, [Next]_vars
    PROVE  \/ UNCHANGED Verified
           \/ \E r \in Requests :
                /\ Inspect(r)
                /\ Verified' = Verified \cup {call[r].attempt}
<1> USE DEF Verified
<1>0. \A r \in Requests : seen[r] # "unread" => seen'[r] = seen[r] /\ call'[r] = call[r]
  BY SeenKept
<1>1. CASE UNCHANGED seen
  BY <1>0, <1>1
<1>2. ASSUME NEW r \in Requests, Inspect(r)
      PROVE  UNCHANGED Verified \/ Verified' = Verified \cup {call[r].attempt}
  <2>1. /\ seen[r] = "unread" /\ UNCHANGED call
        /\ \A q \in Requests \ {r} : seen'[q] = seen[q]
    BY <1>2 DEF Inspect, SeenInv, SeenMeans, StructInv, TypeOK
  <2>2. QED
    BY <2>1
<1>3. ASSUME NEW r \in Requests, InspectThrows(r) PROVE UNCHANGED Verified
  <2>1. /\ seen[r] = "unread" /\ seen'[r] = "error" /\ UNCHANGED call
        /\ \A q \in Requests \ {r} : seen'[q] = seen[q]
    BY <1>3 DEF InspectThrows, SeenInv, SeenMeans, StructInv, TypeOK
  <2>2. QED
    BY <2>1
<1>4. QED
  BY <1>1, <1>2, <1>3 DEF Next, Handle, vars, Initiate, Complete, LookupKey, CreateOrGet,
     IssueTarget, FindAttempt, Cleanup, MarkFailed, MarkCompleted, RecordCompletion,
     RequestFails, ExpireTarget, PutObject

\* Every behaviour of the handlers is a behaviour of the ledger of attempts that
\* UploadContract describes: one attempt per idempotency key, decided once, and
\* completed on evidence (upload-service.ts, upload-attempt-repository.ts).
THEOREM Refinement == Spec => ImplementsContract
<1> USE DEF Contract!Opened
<1>1. Init => Contract!Init
  BY DEF Init, Contract!Init, Verified
<1>2. IInv /\ [Next]_vars => [Contract!Next]_<<attempts, Verified>>
  <2> SUFFICES ASSUME IInv, [Next]_vars, ~UNCHANGED <<attempts, Verified>>
               PROVE  Contract!Next
    OBVIOUS
  <2> USE DEF IInv, SeenInv, StructInv, TypeOK, HeldAttempt, Holding, Exists
  <2>1. ASSUME NEW r \in Requests, Inspect(r) PROVE Contract!Next
    <3>1. UNCHANGED attempts /\ Verified' = Verified \cup {call[r].attempt}
      <4>1. UNCHANGED attempts
        BY <2>1 DEF Inspect
      <4>2. ASSUME NEW q \in Requests, Inspect(q) PROVE q = r
        <5>1. seen'[r] = store[ObjectOf(r)] /\ seen[r] = "unread"
          BY <2>1 DEF Inspect, SeenMeans
        <5>2. q # r => seen'[r] = seen[r]
          BY <4>2 DEF Inspect
        <5>3. store[ObjectOf(r)] # "unread"
          BY <2>1 DEF Inspect, ObjectOf, Objects, RowsOfTheirCreator
        <5>4. QED
          BY <5>1, <5>2, <5>3
      <4>3. QED
        BY <4>1, <4>2, VerifiedStep
    <3>2. call[r].attempt \in Requests /\ Exists(call[r].attempt)
      BY <2>1 DEF Inspect
    <3>3. QED
      BY <3>1, <3>2 DEF Contract!Next, Contract!Verify
  <2>2. ASSUME NEW r \in Requests, CreateOrGet(r), UNCHANGED Verified PROVE Contract!Next
    <3>1. /\ RowsFor(call[r].key) = {}
          /\ attempts' = [attempts EXCEPT ![r] =
                [doc |-> call[r].doc, key |-> call[r].key,
                 objectKey |-> r, status |-> "initiated"]]
      BY <2>2 DEF CreateOrGet
    <3>2. call[r].doc \in Documents /\ call[r].key \in Keys /\ ~Exists(r)
      BY <2>2 DEF CreateOrGet, Call, RowsOfTheirCreator
    <3>3. Contract!Open(r, call[r].doc, call[r].key)
      BY <2>2, <3>1, <3>2 DEF Contract!Open, RowsFor
    <3>4. QED
      BY <3>2, <3>3 DEF Contract!Next
  <2>3. ASSUME NEW r \in Requests, MarkFailed(r), UNCHANGED Verified PROVE Contract!Next
    <3>1. call[r].attempt \in Requests /\ Exists(call[r].attempt)
      BY <2>3 DEF MarkFailed
    <3>2. Contract!Decide(call[r].attempt, "failed")
      BY <2>3, <3>1 DEF MarkFailed, Contract!Decide
    <3>3. QED
      BY <3>1, <3>2 DEF Contract!Next
  <2>4. ASSUME NEW r \in Requests, MarkCompleted(r), UNCHANGED Verified PROVE Contract!Next
    <3>1. call[r].attempt \in Requests /\ Exists(call[r].attempt)
      BY <2>4 DEF MarkCompleted
    <3>2. call[r].attempt \in Verified
      BY <2>4 DEF MarkCompleted, SeenMeans, Verified
    <3>3. Contract!Decide(call[r].attempt, "completed")
      BY <2>4, <3>1, <3>2 DEF MarkCompleted, Contract!Decide
    <3>4. QED
      BY <3>1, <3>3 DEF Contract!Next
  <2>5. QED
    <3>1. UNCHANGED Verified \/ \E r \in Requests : Inspect(r)
      BY VerifiedStep
    <3>2. \/ UNCHANGED attempts
          \/ \E r \in Requests : CreateOrGet(r) \/ MarkFailed(r) \/ MarkCompleted(r)
      BY DEF Next, Handle, vars, Initiate, Complete, LookupKey, IssueTarget, FindAttempt,
         Inspect, InspectThrows, Cleanup, RecordCompletion, RequestFails, ExpireTarget,
         PutObject
    <3>3. ASSUME NEW r \in Requests, Inspect(r) PROVE UNCHANGED attempts
      BY <3>3 DEF Inspect
    <3>4. QED
      BY <2>1, <2>2, <2>3, <2>4, <3>1, <3>2, <3>3
<1>3. QED
  BY <1>1, <1>2, Invariance, PTL DEF Spec, ImplementsContract, Contract!Spec
=============================================================================
