----------------------------- MODULE Workflows -----------------------------
(***************************************************************************)
(* The workflows of one organization: the POST and PATCH handlers of       *)
(* app.ts, PostgresWorkflowRepository, the mutation policy of              *)
(* workflows/policy.ts, and the tables workflows and                       *)
(* workflow_idempotency_keys.                                              *)
(*                                                                         *)
(* A request is a process; a step is one SQL statement or transaction.     *)
(* The id of a workflow is drawn by the transaction that inserts it and    *)
(* named by the request that runs it.  A payload stands for a name and a   *)
(* description after normalizedCreatePayload: requestHash is equal exactly *)
(* when payloads are.  Requests of users without workflow:create are       *)
(* refused before they read anything and are left out.                     *)
(***************************************************************************)
EXTENDS Integers, FiniteSets

CONSTANTS
    Requests,     \* HTTP requests that may ever arrive
    Users,        \* users with workflow:create
    Managers,     \* those with workflow:manage as well
    Keys,         \* values of the Idempotency-Key header
    Payloads,
    Edits,        \* the fields a PATCH may set
    MaxVersion,   \* bound: no update that expects this version arrives
    PoolSize,     \* max of the pool the repository is created with
    NoRow, Nobody

ASSUME ManagersAssumption == Managers \subseteq Users
ASSUME PoolAssumption == PoolSize \in Nat \ {0}
ASSUME VersionAssumption == MaxVersion \in Nat \ {0}
ASSUME NullAssumption == Nobody \notin Requests \cup Payloads \cup Keys

VARIABLES
    flows,      \* flows[w]: the row of workflow w, or NoRow
    keys,       \* keys[k]: the committed row of idempotency key k, or NoRow
    reserver,   \* reserver[k]: the open transaction that inserted k, or Nobody
    audit,      \* workflow.created and workflow.updated events
    pc, call, reply,
    existing,   \* the row each PATCH goes on with to its update
    written     \* the version of the row each request committed, 0 before

vars == <<flows, keys, reserver, audit, pc, call, reply, existing, written>>
tables == <<flows, keys, reserver>>

Status == {"draft", "active", "paused", "archived"}
ALLOWED_STATUS_TRANSITIONS ==
    [draft |-> {"active"}, active |-> {"paused", "archived"},
     paused |-> {"active", "archived"}, archived |-> {}]
CanTransition(current, next) ==
    current = next \/ next \in ALLOWED_STATUS_TRANSITIONS[current]

Workflow == [creator: Users, payload: Payloads, status: Status, version: 1..MaxVersion]
KeyRow == [payload: Payloads, flow: Requests]

\* What the request asks: a creation has a key, a PATCH the version it expects.
\* A field that is left out is Nobody; flow is the workflow the request is about.
Call == [user: Users, key: Keys \cup {Nobody}, payload: Payloads \cup {Nobody},
         flow: Requests, status: Status \cup {Nobody}, expectedVersion: 0..MaxVersion]
ASSUME RowAssumption == NoRow \notin Workflow \cup KeyRow \cup Call
Edit == [payload: Payloads \cup {Nobody}, status: Status \cup {Nobody}]
ASSUME EditsAssumption ==
    /\ Edits \subseteq Edit
    /\ \A e \in Edits : e.payload # Nobody \/ e.status # Nobody
Event == [request: Requests, flow: Requests, version: 1..MaxVersion]

Steps == {"connect", "reserve", "insert", "read", "update", "audit"}
Replies == {"none", "created", "replayed", "updated", "key_reused", "not_found",
            "forbidden", "conflict", "invalid_transition", "error"}

TypeOK ==
    /\ flows \in [Requests -> Workflow \cup {NoRow}]
    /\ keys \in [Keys -> KeyRow \cup {NoRow}]
    /\ reserver \in [Keys -> Requests \cup {Nobody}]
    /\ audit \in SUBSET Event
    /\ pc \in [Requests -> {"idle", "done"} \cup Steps]
    /\ call \in [Requests -> Call \cup {NoRow}]
    /\ reply \in [Requests -> Replies]
    /\ existing \in [Requests -> Workflow \cup {NoRow}]
    /\ written \in [Requests -> 0..MaxVersion]

Exists(w) == flows[w] # NoRow

\* A creation holds a client of the pool from connect to release; any other
\* query borrows one for its statement.  Audit events go to another pool.
HoldsClient(r) == pc[r] \in {"reserve", "insert"}
FreeClient == Cardinality({r \in Requests : HoldsClient(r)}) < PoolSize

Init ==
    /\ flows = [w \in Requests |-> NoRow]
    /\ keys = [k \in Keys |-> NoRow]
    /\ reserver = [k \in Keys |-> Nobody]
    /\ audit = {}
    /\ pc = [r \in Requests |-> "idle"]
    /\ call = [r \in Requests |-> NoRow]
    /\ reply = [r \in Requests |-> "none"]
    /\ existing = [r \in Requests |-> NoRow]
    /\ written = [r \in Requests |-> 0]

Goto(r, next) == pc' = [pc EXCEPT ![r] = next] /\ UNCHANGED reply
Answer(r, answer) ==
    /\ pc' = [pc EXCEPT ![r] = "done"]
    /\ reply' = [reply EXCEPT ![r] = answer]

Arrive(r, c, first) ==
    /\ pc[r] = "idle"
    /\ call' = [call EXCEPT ![r] = c]
    /\ Goto(r, first)
    /\ UNCHANGED <<tables, audit, existing, written>>

-----------------------------------------------------------------------------
(* POST /workflows: createIdempotent, one transaction.                     *)

CreateArrives(r, u, k, p) ==
    Arrive(r, [user |-> u, key |-> k, payload |-> p, flow |-> r,
               status |-> Nobody, expectedVersion |-> 0], "connect")

Connect(r) ==
    /\ pc[r] = "connect"
    /\ FreeClient
    /\ Goto(r, "reserve")
    /\ UNCHANGED <<tables, audit, call, existing, written>>

\* Fault: the key is looked up and then inserted, which waits for nobody.
Reserve_NoWait(r) ==
    LET k == call[r].key IN
    /\ pc[r] = "reserve"
    /\ keys[k] = NoRow
    /\ reserver' = [reserver EXCEPT ![k] = r]
    /\ Goto(r, "insert")
    /\ UNCHANGED <<flows, keys, audit, call, existing, written>>

\* INSERT ... ON CONFLICT DO NOTHING into the keys waits for an open transaction
\* that inserted the same key.  A key that is found has its workflow: both were
\* committed together, so the branch that creates it later is never taken.
Reserve(r) ==
    LET k == call[r].key IN
    /\ pc[r] = "reserve"
    /\ reserver[k] = Nobody
    /\ \/ /\ keys[k] = NoRow
          /\ reserver' = [reserver EXCEPT ![k] = r]
          /\ Goto(r, "insert")
          /\ UNCHANGED call
       \/ /\ keys[k] # NoRow
          /\ IF keys[k].payload = call[r].payload
             THEN /\ call' = [call EXCEPT ![r].flow = keys[k].flow]
                  /\ Answer(r, "replayed")
             ELSE Answer(r, "key_reused") /\ UNCHANGED call
          /\ UNCHANGED reserver
    /\ UNCHANGED <<flows, keys, audit, existing, written>>

\* Fault: the workflow is inserted by pool.query, not by the client.
CommitCreation_SecondClient(r) ==
    LET k == call[r].key IN
    /\ pc[r] = "insert"
    /\ FreeClient
    /\ flows' = [flows EXCEPT ![r] =
            [creator |-> call[r].user, payload |-> call[r].payload,
             status |-> "draft", version |-> 1]]
    /\ keys' = [keys EXCEPT ![k] = [payload |-> call[r].payload, flow |-> r]]
    /\ reserver' = [reserver EXCEPT ![k] = Nobody]
    /\ written' = [written EXCEPT ![r] = 1]
    /\ Goto(r, "audit")
    /\ UNCHANGED <<audit, call, existing>>

\* The workflow and its key are committed.
CommitCreation(r) ==
    LET k == call[r].key IN
    /\ pc[r] = "insert"
    /\ flows' = [flows EXCEPT ![r] =
            [creator |-> call[r].user, payload |-> call[r].payload,
             status |-> "draft", version |-> 1]]
    /\ keys' = [keys EXCEPT ![k] = [payload |-> call[r].payload, flow |-> r]]
    /\ reserver' = [reserver EXCEPT ![k] = Nobody]
    /\ written' = [written EXCEPT ![r] = 1]
    /\ Goto(r, "audit")
    /\ UNCHANGED <<audit, call, existing>>

-----------------------------------------------------------------------------
(* PATCH /workflows/:workflowId                                            *)

PatchArrives(r, u, w, version, e) ==
    Arrive(r, [user |-> u, key |-> Nobody, payload |-> e.payload, flow |-> w,
               status |-> e.status, expectedVersion |-> version], "read")

CanManage(u, row) == u \in Managers \/ row.creator = u

\* Fault: the update is made against the version that was read, unchecked.
ReadExisting_AdoptsVersion(r) ==
    LET row == flows[call[r].flow] IN
    /\ pc[r] = "read"
    /\ row # NoRow
    /\ CanManage(call[r].user, row)
    /\ row.version < MaxVersion
    /\ existing' = [existing EXCEPT ![r] = row]
    /\ call' = [call EXCEPT ![r].expectedVersion = row.version]
    /\ Goto(r, "update")
    /\ UNCHANGED <<tables, audit, written>>

\* getById and the checks on the row it returned.
ReadExisting(r) ==
    LET c == call[r]
        row == flows[c.flow]
    IN
    /\ pc[r] = "read"
    /\ FreeClient
    /\ \/ row = NoRow /\ Answer(r, "not_found") /\ UNCHANGED existing
       \/ /\ row # NoRow
          /\ IF ~CanManage(c.user, row)
             THEN Answer(r, "forbidden") /\ UNCHANGED existing
             ELSE IF row.version # c.expectedVersion
             THEN Answer(r, "conflict") /\ UNCHANGED existing
             ELSE IF c.status # Nobody /\ ~CanTransition(row.status, c.status)
             THEN Answer(r, "invalid_transition") /\ UNCHANGED existing
             ELSE existing' = [existing EXCEPT ![r] = row] /\ Goto(r, "update")
    /\ UNCHANGED <<tables, audit, call, written>>

\* Fault: a status that is left out is written as well.
Patched_AlwaysStatus(row, c) ==
    [creator |-> row.creator,
     payload |-> IF c.payload = Nobody THEN row.payload ELSE c.payload,
     status |-> c.status,
     version |-> row.version + 1]

Patched(row, c) ==
    [creator |-> row.creator,
     payload |-> IF c.payload = Nobody THEN row.payload ELSE c.payload,
     status |-> IF c.status = Nobody THEN row.status ELSE c.status,
     version |-> row.version + 1]

\* Fault: the update is not conditional on the version.
Update_NoVersion(r) ==
    LET c == call[r]
        row == flows[c.flow]
    IN
    /\ pc[r] = "update"
    /\ row.version < MaxVersion
    /\ flows' = [flows EXCEPT ![c.flow] = Patched(row, c)]
    /\ written' = [written EXCEPT ![r] = row.version + 1]
    /\ Goto(r, "audit")
    /\ UNCHANGED <<keys, reserver, audit, call, existing>>

\* update: compare-and-set on the version and, when the status is set, on the
\* status that was read.
Update(r) ==
    LET c == call[r]
        row == flows[c.flow]
    IN
    /\ pc[r] = "update"
    /\ FreeClient
    /\ IF row.version = c.expectedVersion
          /\ (c.status # Nobody => row.status = existing[r].status)
       THEN /\ flows' = [flows EXCEPT ![c.flow] = Patched(row, c)]
            /\ written' = [written EXCEPT ![r] = row.version + 1]
            /\ Goto(r, "audit")
       ELSE Answer(r, "conflict") /\ UNCHANGED <<flows, written>>
    /\ existing' = [existing EXCEPT ![r] = NoRow]
    /\ UNCHANGED <<keys, reserver, audit, call>>

-----------------------------------------------------------------------------

\* Fault: the event names the version the client expected, not the new one.
RecordAndAnswer_StaleVersion(r) ==
    /\ pc[r] = "audit"
    /\ audit' = audit \cup {[request |-> r, flow |-> call[r].flow,
                             version |-> call[r].expectedVersion]}
    /\ Answer(r, IF call[r].key # Nobody THEN "created" ELSE "updated")
    /\ UNCHANGED <<tables, call, existing, written>>

RecordAndAnswer(r) ==
    /\ pc[r] = "audit"
    /\ audit' = audit \cup {[request |-> r, flow |-> call[r].flow, version |-> written[r]]}
    /\ Answer(r, IF call[r].key # Nobody THEN "created" ELSE "updated")
    /\ UNCHANGED <<tables, call, existing, written>>

\* Fault: the connection goes back to the pool with its transaction open.
RequestFails_KeepsReservation(r) ==
    /\ pc[r] \in Steps
    /\ existing' = [existing EXCEPT ![r] = NoRow]
    /\ Answer(r, "error")
    /\ UNCHANGED <<tables, audit, call, written>>

\* A query fails or the process dies: an open transaction is rolled back, a
\* committed one stays.
RequestFails(r) ==
    /\ pc[r] \in Steps
    /\ reserver' = [k \in Keys |-> IF reserver[k] = r THEN Nobody ELSE reserver[k]]
    /\ existing' = [existing EXCEPT ![r] = NoRow]
    /\ Answer(r, "error")
    /\ UNCHANGED <<flows, keys, audit, call, written>>

Advance(r) ==
    \/ Connect(r) \/ Reserve(r) \/ CommitCreation(r) \/ ReadExisting(r) \/ Update(r)
    \/ RecordAndAnswer(r)

Next ==
    \E r \in Requests :
        \/ \E u \in Users, k \in Keys, p \in Payloads : CreateArrives(r, u, k, p)
        \/ \E u \in Users, w \in {q \in Requests : Exists(q)} \cup {r},
              v \in 1..(MaxVersion - 1), e \in Edits : PatchArrives(r, u, w, v, e)
        \/ Advance(r)
        \/ RequestFails(r)

Spec == Init /\ [][Next]_vars

\* Node and PostgreSQL go on with every statement that is not waiting for a
\* lock or a client; nothing has to fail and nothing has to arrive.
FairSpec == Spec /\ \A r \in Requests : WF_vars(Advance(r))

-----------------------------------------------------------------------------
(* Properties.                                                             *)

\* Retries and races of a creation open one workflow: every workflow belongs to
\* exactly one key, and the requests answered for a key got its workflow, only
\* one of them as its creator (createIdempotent).
OneFlowPerKey ==
    /\ \A w \in Requests : Exists(w) =>
        \E k \in Keys : \A j \in Keys : (keys[j] # NoRow /\ keys[j].flow = w) <=> j = k
    /\ \A r \in Requests : reply[r] \in {"created", "replayed"} =>
        /\ keys[call[r].key] = [payload |-> call[r].payload, flow |-> call[r].flow]
        /\ Exists(call[r].flow)
        /\ reply[r] = "created" <=> call[r].flow = r

\* No update is lost: the versions 1..n of a workflow are the versions its n
\* writers committed, one each, and each writer replaced the version its client
\* had seen (update's predicate on version).
Writers(w) == {r \in Requests : written[r] > 0 /\ call[r].flow = w}
NoLostUpdate ==
    \A w \in Requests :
        /\ Writers(w) # {} <=> Exists(w)
        /\ Exists(w) => /\ {written[r] : r \in Writers(w)} = 1..flows[w].version
                        /\ Cardinality(Writers(w)) = flows[w].version
        /\ \A r \in Writers(w) : written[r] = call[r].expectedVersion + 1

\* Workflows keep the promise of VersionedRows: one workflow per key, and each PATCH
\* replaces the version its client named, once, or nothing (createIdempotent; the
\* comparisons of expectedVersion in the handler and in update).
Basis(r) ==
    IF call[r] = NoRow \/ written[r] > 0 THEN NoRow
    ELSE IF call[r].key # Nobody THEN NoRow
    ELSE <<call[r].flow, call[r].expectedVersion>>
Promise == INSTANCE VersionedRows WITH
    Rows <- Requests, Worked <- {}, Nothing <- NoRow,
    rowsOf <- [k \in Keys |-> IF keys[k] = NoRow THEN {} ELSE {keys[k].flow}],
    version <- [w \in Requests |-> IF Exists(w) THEN flows[w].version ELSE 0],
    basis <- [r \in Requests |-> Basis(r)]
ImplementsPromise == Promise!Spec

\* A workflow moves only along ALLOWED_STATUS_TRANSITIONS from the status it has
\* at that moment, though the handler checked the transition on an earlier read,
\* and only by its creator or a manager; its creator never changes.
LegalHistory ==
    [][\A w \in Requests : Exists(w) /\ flows'[w] # flows[w] =>
        /\ CanTransition(flows[w].status, flows'[w].status)
        /\ flows'[w].creator = flows[w].creator
        /\ flows'[w].version = flows[w].version + 1
        /\ \E r \in Requests : written'[r] # written[r] /\ CanManage(call[r].user, flows[w])]_vars

\* A version without an audit event is the work of a request that is still
\* running or failed after its commit; no event is without its version.
AuditGapsAreFailures ==
    /\ \A r \in Requests : written[r] > 0 =>
        \/ \E e \in audit : e.request = r /\ e.flow = call[r].flow /\ e.version = written[r]
        \/ pc[r] = "audit" \/ reply[r] = "error"
    /\ \A e \in audit : Exists(e.flow) /\ e.version <= flows[e.flow].version
                        /\ written[e.request] = e.version

\* Every request that arrives is answered or fails: nobody waits for good for a
\* client of the pool whose holder waits for a key whose reserver waits for a client,
\* nor behind the reservation of a request that died.
EveryRequestAnswered == \A r \in Requests : pc[r] # "idle" ~> pc[r] = "done"
=============================================================================
