# Virexa backend: TLA+ models, checks and proofs

This directory holds formal models of the parts of the Virexa backend that keep
state: what the HTTP handlers, the repositories and the PostgreSQL tables under
them do when requests overlap, fail half way, are repeated, or race with a change
made elsewhere. The reference is the code in `src/`; every definition of a model is
tied in `PROJECT.json` ("map") to the lines it stands for.

Contents: [inventory](#inventory), [how the code is modelled](#how-the-code-is-modelled),
[modules](#modules), [runs](#runs), [findings](#findings), [proofs](#proofs),
[what is left out](#what-is-left-out), [plan](#plan), [running](#running).

## Inventory

The service is one Node process (Fastify) over PostgreSQL and, for document
binaries, an S3 bucket. There are no queues, workers or caches: every request is
handled in one `async` function that awaits SQL statements, S3 calls and the audit
insert one after the other. Requests interleave at each `await`, several processes
may run against one database, and a process may die at any `await`. All state
between requests is in tables and in the bucket.

| Component | State | Operations | What makes it correct |
| --- | --- | --- | --- |
| Persisted uploads (`documents/upload-service.ts`, `upload-attempt-repository.ts`, `s3-storage.ts`) | `document_upload_attempts`, objects of the bucket, signed URLs | initiate, complete | one attempt per idempotency key; an attempt is decided once; completed only when a matching object was seen; the service never deletes the object of a completed attempt that was uploaded correctly; signed URLs lead to persisted attempts |
| Accounts and sessions (`auth/repository.ts`, handlers of `app.ts`) | `organizations`, `users`, `sessions` | register, login, logout, revoke one, revoke others, getSession | never more than five active sessions; a login commits only for the account as it is then; nobody revokes another user's session; a revocation that was answered holds |
| Workflows (`workflows/repository.ts`, `policy.ts`, handlers of `app.ts`) | `workflows`, `workflow_idempotency_keys`, `audit_events` | idempotent create, PATCH, reads | one workflow per key; no lost update; status moves only along the allowed transitions; every version audited unless the request failed |
| Extractions (`extractions/`) | `document_extractions` | create by key, review, complete, list | one extraction per key and document; a review or completion applies to the version the client saw |
| Document intake (`documents/repository.ts`) | `documents` | create, read, list | no duplicate checksum or external reference; every document audited |
| Agents (`agents/repository.ts`) | `agents`, `agent_idempotency_keys` | as workflows; no route uses it yet | as workflows |
| Pagination (in four repositories) | none; opaque cursors held by clients | listPage | the pages of a quiescent table contain every row once |
| Audit (`audit/`) | `audit_events` | record, list | the last step of each handler that changes state |
| Organization hierarchy (`organization/`) | `branches`, `departments`, `personas` (read only) | read | tenant scope |
| Policies (`auth/context.ts`, `origin-guard.ts`, `cache-policy.ts`, `config/`, `storage-config.ts`) | none | pure checks | tables of permissions, constants of the configuration |
| Server lifecycle (`server.ts`, `app.ts`) | connection pools, a shutdown flag, signal handlers | start, shutdown on a signal | a configured process starts; a shutdown ends, answers the requests in flight whose clients wait, and leaves no pool open |
| Python core (`app/`, `alembic/`) | table models of an earlier stack | helpers with unit tests | nothing serves it |

How they interact: a handler first calls `requireAuthenticated` (one query of the
sessions), then `requirePermission`, then its repository, then `AuditService.record`
on a different connection. No transaction spans two of these calls. The upload
handlers also read the document first, and are the only ones that touch the bucket.

What is hard here:

- **Interleaving.** Decisions are taken on rows read by an earlier statement:
  the attempt's status before a HEAD request, the workflow before its PATCH, the
  password hash before the login's transaction.
- **Two stores.** The bucket and the attempts table are changed without a common
  transaction, and clients write to the bucket directly.
- **Crashes.** A change is committed before its audit event; a retry then takes
  another path than the first attempt did.
- **Time.** `now()` is the time of `BEGIN`; sessions are ordered by it, and cursors
  and concurrency tokens carry it with less precision than the table.
- **Pools and shutdown.** A handler makes its queries on up to three pools of limited
  size; a creation holds a connection while it waits for a lock; a shutdown ends the
  pools in two hooks while handlers whose clients are gone still run.

`PROJECT.json` ("hazards") lists each place with the properties that watch it.

## How the code is modelled

A request is a process with a program counter; one action is what the handler does
between two awaits: one SQL statement, one transaction, one call of the bucket.
A transaction is one action where other transactions can only see all of it or
nothing; where it holds a lock others wait for (`FOR UPDATE` in login, the unique
index in `createIdempotent`) it is several actions and the lock is a variable.
`READ COMMITTED` is PostgreSQL's default and the code never asks for another level:
an UPDATE that selects its rows by a sub-query is two actions, because a row may be
changed between the snapshot and the update of the row, which then rechecks the
conditions on that row.

Fresh random values (row ids, object keys, tokens) are named by the request that
draws them, so `Requests` is also the set of ids. Contents are abstracted to what
the code compares: an object is absent, matching, differing, or has no checksum
header; a password is equal or not; a payload hashes equal or not.

Every statement is scoped by `organization_id`, taken from the session, so one
organization is modelled; `Sessions` spans organizations because login does.

`RequestFails` can happen at every step of every request: a rejected query, a
refused connection, a crash of the process. What was committed stays, an open
transaction is rolled back, the client gets an error or nothing. A client's retry
is another request with the same parameters; the models let any request arrive at any
time, so retries need no action of their own.

Refusals that depend on the request alone (schema validation, origin, missing
permissions, a missing session outside `Sessions`) come before any state is read and
are left out. Each request arrives once, and a finished one does nothing any more:
the models may stop, which is why the runs say `CHECK_DEADLOCK FALSE`.

## Modules

### UploadAttempts, UploadContract

`UploadAttempts` follows `POST /documents/:id/uploads` (steps `lookup`, `create`,
`target`) and `POST .../complete` (`find`, `inspect`, `cleanup`, `fail`, `commit`,
`audit`).

| Variable | Code |
| --- | --- |
| `attempts` | rows of `document_upload_attempts` |
| `store`, `targets` | the bucket; object keys with an unexpired signed URL |
| `auditLog` | `document.upload_completed` events |
| `call`, `seen`, `pc`, `reply` | parameters and locals of each request, what `inspectObject` told it, where it is, its answer |
| `soiled` | history: keys that ever received bytes that do not match |

`PutObject` lets the holder of a signed URL write any content of `Contents`, any
number of times until `ExpireTarget`: the signature binds the headers, yet the HEAD
response is compared by the code and so can differ in the model.

`UploadContract` is the abstract view: a ledger of attempts in which an entry is
opened once per key, its identity never changes, and it is closed once, as completed
only if verified. `ImplementsContract` says that the protocol refines it, with
`attempts` as the ledger and the attempts some request saw matching as `verified`.

### Sessions

`register`, `login`, `getSession`, the three revocations and the handlers around them.
`lock` is the row lock of `SELECT ... FOR UPDATE OF u`; `began` the `now()` of a
transaction; `matched` the rows an UPDATE has selected and not yet changed. `clock`
advances on its own; a session is active for `Lifetime` ticks after its
`created_at`. `ChangeAccount` disables an account or changes a password, which
nothing in this repository does but the queries are written for
(`disabled_at IS NULL`, `password_hash = $2`).

### Workflows

`POST /workflows` (`reserve`, `insert`, `audit`) and `PATCH /workflows/:id` (`read`,
`update`, `audit`). `reserver` is the open transaction that inserted an idempotency
key, which another insert of the key waits for. `existing` is the row a PATCH read and
checked. `written` is the version a request committed. `Edits` are the fields a PATCH
may set: in the runs a new payload or any of the four statuses.

A creation takes a client of the pool (`connect`) and holds it to the end of its
transaction, the wait for a reserved key included; the single statements of a PATCH need
a free client. `PoolSize` is the `max` of the pool, ten in the code. Audit events go to
another pool, which waits for nothing of this one.

### VersionedRows

The abstract specification of rows that are created under an idempotency key and then
changed by optimistic concurrency: a key gives one row, and a request that was made for
a version of a row (`basis`) replaces that version, once, or does nothing. It has no requests in
steps, no transactions, locks, tokens or audit. `Workflows` implements it with its `version` column and
`expectedVersion`, `Extractions` with `updated_at` as a token that is coarser than what the
table keeps, with the worker as another writer (`Worked`). In both, `basis` is mapped to what the client
named when its request arrived, so that adopting a later version on the way is no step of
`VersionedRows`.

### Extractions

`POST /documents` (`receive`, `audit`), `POST .../extractions` (`find`, `insert`, `audit`), `PATCH .../review` and
`POST .../complete` (`write`, `explain`, `audit`). `Results` and `Patches` are what the worker
may deliver and what a review may set. A document is named by its checksum, which is unique; some are `Stored` from
the start, the others are received by intake requests. Each write of an extraction happens at a `now` later
than any before, within the same millisecond or not; `Token` cuts a timestamp to the
millisecond, as `toISOString` does, and a client sends the token of the version it was
shown (`saw`; for a creation, `saw` is 1 if its document and key had a row when it arrived). The answer `duplicate` is
the 500 of a violated unique constraint, told apart from other 500s for the properties only. `version` and `written` are history: which version of a row each request
wrote. The worker that fills the fields is not in the repository; the model takes from
the statuses and columns that it goes from `queued` over `processing` to
`review_required` or `failed`, and assumes that it stamps `updated_at`. A review looks at no
status, so it may change the values of a completed extraction; the
code has no rule against that and the model allows it.

### Pagination

One module for the lists of workflows, agents, documents and extractions, whose SQL
differs in names only. The table starts with any rows, and rows are inserted and change
status between pages; `created_at` of an inserted row is any time, because it is the time
of a `BEGIN`. `steady` are the rows that matched the query from the first page on.
The map spreads the four copies of the algorithm over the operators.

### Server

One process from `npm start` to its end. `Register` registers the groups of routes in the
order of `app.ts` and `server.ts` and creates their pools; `Declared` are the routes of each group,
`Created` its pools, `LazyPools` those that `app.ts` creates when a handler first needs them.
`Signal` runs the handlers installed by `process.once`; `Shutdown` is the function of that name;
`ServerClosed`, `ServerHookDone` and `AppHookDone` are the two `onClose` hooks. A
request is the list of pools its handler still queries (`Handler`, with `AppHandler`, `DocumentHandler` and
`ExtractionHandler` for the bodies of the handlers of each file);
it takes a client (`StartQuery`), gets its answer (`FinishQuery`) and goes on after its own client hung
up (`HangUp`). A query on a pool that is ending or ended is an error (`cut`).
A pool's limit on its clients and its queue are left out: handlers whose client is still there finish before any pool ends, and
what becomes of an abandoned one that is still in the queue of a pool when it ends is not modelled.

What the libraries do is external and assumed: Fastify refuses a method and path that are
declared twice; its `close` stops the HTTP server first, which waits for the connections that have a request, and then
runs the `onClose` hooks, the last one first, each awaited; `Pool.end` of pg ends idle clients at
once, waits for clients in use and refuses new ones. A pool that nobody ends keeps the process for
its idle timeout and no longer.

The code as it is never serves: its audit route is declared twice (finding 5).
`AuditPath` is therefore a constant. `server_start` gives it the value in the code; `server` gives the route a
path of its own, so that the shutdown, which works once that is repaired, can be checked.

### MC modules and configurations

`MCUploadAttempts`, `MCSessions`, `MCWorkflows`, `MCExtractions`, `MCPagination` and `MCServer` only give values to constants and
define the symmetry sets. Ids of requests and rows, documents, keys, users and
passwords are interchangeable in their models: no action or property orders or
names them. Ids in `Pagination` are ordered, and `server` checks liveness, so nothing is symmetric there.

## Runs

| Run | Configuration | Instance | Shows |
| --- | --- | --- | --- |
| `uploads` | `UploadAttempts.cfg` | 4 requests, 2 documents, 2 keys, matching and differing bytes | type invariant; `CompletedReplyHolds`, `CompletedObjectIntact`, `TargetsAreAccountedFor`, `FailedHasCause`; `ImplementsContract` |
| `upload_replay` | `UploadReplay.cfg` | | violation, finding 1 |
| `sessions` | `Sessions.cfg` | 3 requests, 2 users, one email, 2 passwords, cap 2, lifetime 2, clock to 2 | type invariant; `SessionCap`, `RevokeOthersComplete`, `AnsweredRevocationHolds`; `LoginRechecked`, `RevokedByOwner` |
| `session_login` | `SessionLogin.cfg` | | violation, finding 2 |
| `workflows` | `Workflows.cfg` | 3 requests, a manager and an operator, 2 keys, 2 payloads, versions to 3, a pool of 2 | type invariant; `OneFlowPerKey`, `NoLostUpdate`, `AuditGapsAreFailures`; `LegalHistory`; `ImplementsPromise` |
| `workflow_progress` | `WorkflowProgress.cfg` | 3 requests, 1 user, 1 key, a pool of 2 | `EveryRequestAnswered` under fairness |
| `extractions` | `Extractions.cfg` | 3 requests, 3 documents of which 1 stored, a reference, 2 keys, 2 fields, 2 ticks per millisecond, clock to 7 | type invariant; `ReceivedOnce`, `OneExtractionPerKey`, `DuplicateOnlyInRace`, `AppliedToVersionSeen`, `CorrectionsHold`, `AcceptedIsAudited`; `CompletedOnce`; `ImplementsPromise` |
| `extraction_token` | `ExtractionToken.cfg` | | violation, finding 3 |
| `pagination` | `Pagination.cfg` | 3 rows, 2 statuses, times to 4, 2 ticks per millisecond, limits 1 and 2 | type invariant; `NoRowTwice`, `OnlyCursorMillisecondSkipped`; `ListingEnds` under fairness |
| `pagination_rows` | `PaginationRows.cfg` | | violation, finding 4 |
| `server` | `Server.cfg` | 2 requests, routes of three groups, any configuration, both signals | type invariant; `OnlyAbandonedAreCut`, `PoolsAccountedFor`; `ShutdownEnds` under fairness |
| `server_start` | `ServerStart.cfg` | | violation, finding 5 |

Why the bounds are enough to be interesting:

- Uploads: four requests allow two initiations racing for a key and two completions of
  the attempt, one of which fails while the other succeeds, or an initiation by another
  document with the same key. Races of the protocol are between two completions or two
  initiations; the proofs cover any number.
- Sessions: with a cap of two, a registration and two logins already exceed the cap
  if they do not see each other, and a registration, a login and a revocation race.
  Two users with one email stand for two organizations. A session can expire between any two steps.
- Workflows: a creation and two PATCHes of the version it made, or three creations of a
  key. Three versions are enough for two successive transitions, to `archived` for example.
  Two creations of one key fill a pool of two, and the third request needs it as well.
- Extractions: two intakes of one reference, or an intake and two creations under one key, of the
  new document and the stored one; one creation and two clients who act on the version the worker delivered,
  or three creations. A clock of seven allows creation, both steps of the
  worker and two writes after them, with two writes in one millisecond.
- Pagination: three rows over two milliseconds allow a page to end inside a millisecond, before
  it or after it, and a last page after that.
- Server: the requests ask for a route of `app.ts`, whose three pools are created lazily, and two routes
  of `server.ts`, one of them with four queries on pools of which one exists only with storage. Two requests
  share a pool or do not, and either client may hang up; a third would wait for nothing else.

Fairness is used by three runs. `workflow_progress`: weak fairness of the steps of each
request (`FairSpec`), none of arrivals or failures. The event loop runs every
continuation and PostgreSQL answers every statement that does not wait for a lock;
weak fairness per request says no more. A request that waits for a reservation
is not enabled, so its progress depends on the holder committing or rolling back.
`pagination`: a client that got a `nextCursor` asks for the next page; nothing is assumed of
the rows, which may go on changing. `server`: weak fairness of the process's own steps and of
the steps of each handler, so that PostgreSQL answers; no signal has to come, no client to leave.

Every property has a mutant in `PROJECT.json`: a fault of the kind named in the comment
`Fault:` before it, which the run of the property detects.

What the checks show of the hazards:

- The compare-and-set updates are sound: attempts, and workflows under PATCH, change only from
  the state their writer saw, in spite of checks made on an older read.
- `CompletedObjectIntact` holds only for objects no client ever spoiled. Without that condition
  it fails: a completion that saw differing bytes deletes the object by key after
  another client replaced the bytes and another completion accepted them, and a retry
  of a completed attempt deletes an object that was replaced. The code re-verifies
  completed attempts on purpose, so the property states what the service itself
  guarantees.
- The user's row lock is what makes `SessionCap` true; `LoginRechecked` needs the
  second look at `password_hash` and `disabled_at` under that lock.
- Extractions, unlike workflows, record a replay as well, so a retry repairs a missing event
  (`AcceptedIsAudited`). The loser of a race for a key gets a 500 instead of a replay, because its
  INSERT has no `ON CONFLICT`. `DuplicateOnlyInRace` bounds that: the loser had arrived before the winner's row was
  there, and a retry sent after it is never refused so, whatever the worker and other clients have made of the row since.
- A version without an audit event exists only when its request failed between its
  commit and the audit insert. A retry of a creation is then a replay and does not
  write the event either.
- The pool of workflows cannot wait for itself, because a creation needs no second client while it
  holds its key: with one (`CommitCreation_SecondClient`) as many creations as the pool is wide block it for good.
- A shutdown cuts only handlers whose client hung up, at any query, so a change of theirs may stay
  without its audit event. Signals before `listen` or a second one of a kind end the process
  without it, and a pool of `app.ts` that such a handler creates late is not ended: `PoolsAccountedFor` excepts that pool.
- Some hazards are in the models and not excluded by any property, since nothing in the repository speaks against what the
  code does: the deletions of objects a client replaced, the provider error that closes an attempt, the second query that
  explains a failed update. `PROJECT.json` lists them without a property and says why.

## Findings

1. **The loser of an idempotency race is refused** (`upload_replay`).
   `upload-service.ts:79` says that a concurrent request may have won and that the
   persisted key is trusted, but `createOrGet` rejects every row whose object key is
   not the one the loser has just drawn (`upload-attempt-repository.ts:89`).
2. **A login may revoke its own session** (`session_login`). Sessions are ranked by
   `created_at`, the time of `BEGIN`, but admitted in the order of the row lock. A
   login overtaken by as many logins as the cap allows prunes its own session and
   still answers with its token. With the cap of five this takes five logins of one
   user in the window between a `BEGIN` and its `SELECT ... FOR UPDATE`; the property
   disregards ties of `created_at`.
3. **The token of the last GET does not match** (`extraction_token`).
   `contracts/extractions.ts:63` calls `expectedUpdatedAt` "an optimistic concurrency token from
   the last GET". The GET shows `updated_at` in milliseconds and the UPDATE compares it for equality
   with microseconds: a review or completion of an unchanged extraction is refused as a
   conflict unless the microseconds are zero. `AppliedToVersionSeen` shows that the
   comparison is at least safe, and its mutant that cutting both sides to
   milliseconds would lose updates.
4. **Rows between two pages** (`pagination_rows`). `tests/workflow-pagination.test.ts:53` expects
   the pages of three rows to hold all of them. A cursor keeps the milliseconds of the last row of
   its page, and the rest of that millisecond is skipped. `OnlyCursorMillisecondSkipped` says
   that nothing else is.
5. **The process does not start** (`server_start`). `server.ts:49` registers `auditRoutes`, which
   declares `GET /api/v1/audit/events`; `app.ts:64` has declared it before. Fastify throws
   `FST_ERR_DUPLICATED_ROUTE` and the top-level `await` ends the process, whatever its
   configuration. Each test builds an app with one of the two, so none meets it.

Two more remarks, which no run states. A provider error during a completion is a terminal failure: the comment at
`upload-service.ts:87` speaks of failed integrity checks, but the `catch` at line 113 also covers a
HEAD request that failed, and closes the attempt and its idempotency key for good
(`FailedHasCause` names this case). And `login` verifies the password against the first
account an email selects, in no order: whoever has accounts in two organizations under one email may be
refused with the right password of the other one. `LoginRechecked` says that no session of a
wrong account comes of it.

## Proofs

### Uploads

`UploadAttemptsProofs` proves, for every set of requests, documents, keys and contents,
the properties of the run `uploads`:

| Theorem | Statement |
| --- | --- |
| `TypeCorrect` | `Spec => []TypeOK` |
| `CompletedReplyCorrect` | `Spec => []CompletedReplyHolds` |
| `CompletedObjectCorrect` | `Spec => []CompletedObjectIntact` |
| `TargetsCorrect` | `Spec => []TargetsAreAccountedFor` |
| `FailureCorrect` | `Spec => []FailedHasCause` |
| `Refinement` | `Spec => ImplementsContract` |

Assumptions: those named in `UploadAttempts` (the null values are not members of the
sets they complete, and `Contents` are not "absent"). Nothing is assumed finite.

The argument is one inductive invariant, `IInv`. The properties are not inductive
alone: a reply holds because of what its request knew when it committed, and an object
stays because of what every request in `cleanup` has seen. `IInv` adds what relates the
place of a request to the table and the bucket: `HeldAttempt` (past its lookup a
request holds an existing row of its own document), `RowsOfTheirCreator` (a row's object
key is the one drawn by the request that inserted it), `SeenMeans` (a request that is
about to commit saw a matching object, one about to clean up a differing one, one about
to fail something wrong), `OneAttemptPerKey` (the unique index), `CompletedWasVerified`
and `ObjectsAccountedFor` (bytes that do not match come from a client, and what was seen to
match stays until a client overwrites it). The last one is what makes
`CompletedObjectIntact` provable: a request deletes only after it saw differing bytes, so
the key is one a client spoiled. There is one lemma per conjunct with a step for
each action that can disturb it; `RowsFrozen` (a row keeps its identity, and its status
once decided) and `SeenKept` are cited by most of them. `Refinement` maps each step to a
step of the ledger or to a stutter.

### Workflows

`WorkflowsProofs` proves the safety properties of the run `workflows`, for every set of
requests, users, keys and payloads, every bound on versions and every size of the pool:

| Theorem | Statement |
| --- | --- |
| `TypeCorrect` | `Spec => []TypeOK` |
| `OneFlow` | `Spec => []OneFlowPerKey` |
| `UpdatesKept` | `Spec => []NoLostUpdate` |
| `GapsAreFailures` | `Spec => []AuditGapsAreFailures` |
| `HistoryIsLegal` | `Spec => LegalHistory` |
| `PromiseKept` | `Spec => ImplementsPromise` |

Assumptions: `NullAssumption`, `RowAssumption`, `VersionAssumption` and `EditsAssumption` of
`Workflows` (the null values are not values of what they stand in for; `Edits` are edits).
The pool and the finiteness of any set play no part in safety.

The inductive invariant comes in parts, each proved on top of the first:

- `StructInv`: types, `PlaceMeans` (a request has written nothing until it reaches its audit
  event) and `RowsOfTheirCreator` (a workflow was created by the request that gave it its id,
  which is past its transaction).
- `KeysMatchFlows` makes `OneFlowPerKey` inductive: who is about to insert holds the
  reservation of its key and the key has no row yet, so a commit never overwrites a key.
- `VersionsHaveWriters`: every version from 1 to the last has a writer, two
  writers of a workflow never wrote the same version, and none wrote more than the last.
  An update writes the last version plus one, which therefore nobody wrote. The cardinality in
  `NoLostUpdate` follows from the bijection between writers and versions.
- `EventsMatchWrites`: an event names what its request, which is done, wrote.
- `ExistingChecked`: the row a PATCH carries to its update passed its checks and has the
  creator the workflow still has. The update compares the status as well, so the checks hold of the row it replaces.

`PromiseKept` maps the commit of a creation to `Create`, the arrival of a PATCH to `Ask`, an
update that finds its version to `Replace`, and every other step to a stutter. A replayed
creation changes its own call only, and is made for no version before and after.

### Extractions

`ExtractionsProofs` proves the safety properties of the run `extractions`, for every set of
requests, documents, references, keys, fields and patches, every number of ticks per millisecond and
every bound on the clock:

| Theorem | Statement |
| --- | --- |
| `TypeCorrect` | `Spec => []TypeOK` |
| `DocumentsReceivedOnce` | `Spec => []ReceivedOnce` |
| `OneExtraction` | `Spec => []OneExtractionPerKey` |
| `OnlyRacesFail` | `Spec => []DuplicateOnlyInRace` |
| `AcceptedAudited` | `Spec => []AcceptedIsAudited` |
| `SeenIsReplaced` | `Spec => []AppliedToVersionSeen` |
| `NoCorrectionReverted` | `Spec => []CorrectionsHold` |
| `CompletedOnceAndForAll` | `Spec => CompletedOnce` |
| `PromiseKept` | `Spec => ImplementsPromise` |

Assumptions: `StoredAssumption`, `TimeAssumption` (a millisecond has at least one tick),
`FieldsAssumption` (the worker's results and the patches are fields, and a patch sets at least one, as the
contract demands) and `NoRowAssumption` (the null values). Nothing is assumed finite.

Each action first gets a lemma that says what it does in the terms the invariants use (`Changes`,
`Updates`, `Refuses`, `Works`), so that the proofs about the invariants do not open the actions. The invariants:

- `StructInv`: types, `PlaceMeans` (what a request asks for at its place, and that it has written nothing
  before its audit event) and `RowsOfTheirCreator`.
- `KeysHaveOneRow`: one row of a document and key, and whoever is about to record or is answered for
  a creation has its row and, once answered, its event.
- `CreationsRace`: a creation whose key had a row when it arrived never gets to the INSERT, because rows, their documents
  and keys stay and the lookup finds them; one that fails on the unique constraint finds the row of another.
- `TokensDateVersions` is what makes a coarse token sound. Either the row still has the version its client
  was shown, or its `updated_at` is later than the token the client holds. A token is never after the time it was cut from, every write is
  later than any time before, and the UPDATE compares for equality, so a row that was written again is not matched,
  in the same millisecond or not. `WritesCounted` adds that a write makes the version after the one seen, and that
  no two requests wrote the same one; `AppliedToVersionSeen` follows from both.
- `ReviewedFieldsArePresent` makes `CorrectionsHold` inductive: before the worker delivers, a row has no
  fields and so no review was accepted; afterwards only a review changes a field.
- `CompletedByOne`: a completed row has the one request that completed it.
- `IntakesOfDocuments` and `ConflictsAreTrue`: a document has the reference of its one intake, and who was told of a conflict
  met a document that is still there.

`PromiseKept` maps a successful INSERT to `Create`, an arriving review or completion to `Ask`, an UPDATE
that finds its row to `Replace`, a write of the worker to `Work`, every other step to a stutter.

### Sessions

`SessionsProofs` proves the safety properties of the run `sessions`, for every set of requests, users, emails and
passwords, every cap and lifetime of a session and every bound on the clock:

| Theorem | Statement |
| --- | --- |
| `TypeCorrect` | `Spec => []TypeOK` |
| `SessionsAreBounded` | `Spec => []SessionCap` |
| `LoginsAreRechecked` | `Spec => LoginRechecked` |
| `OwnersRevoke` | `Spec => RevokedByOwner` |
| `RevocationsHold` | `Spec => []AnsweredRevocationHolds` |
| `OthersAreRevoked` | `Spec => []RevokeOthersComplete` |

Assumptions: `BoundsAssumption`, `NullAssumption` and `RowAssumption`. The set of requests may be infinite; that
only finitely many sessions exist at any time is part of `CapInv`.

- `StructInv`: types, the place of a request, and who owns what: a locked row belongs to a login between
  its recheck and its commit, and that login still has the account it checked, which nobody changes under the lock.
- `MatchedInv`: the rows an UPDATE has selected are of the user of its request, the new session of a login
  among them; sessions do not change hands, so they are still when it is applied. `RevokedByOwner` and, with `RevocationDone`, `AnsweredRevocationHolds` follow.
- `OthersInv`: of the other sessions of the user that were there when the request arrived, each is selected or
  inactive before the commit, and inactive after it; sessions that are inactive stay so.
- `CapInv`: `Left(r)`, the active sessions of the user and the new one without those selected to be revoked, are at most
  `MaxActive` when the login r is at its commit. This holds when it selects (`PruneLeaves`: what the ranking keeps is
  the new session and fewer than `MaxActive` others) and until it commits, because the row lock lets no other login
  of the user commit in between, and all other steps make the active sessions of a user fewer (`ActiveSteps`). The
  cardinalities are those of `FiniteSetTheorems`.

### Pagination

`PaginationProofs` proves the safety properties of the run `pagination`, for every finite set of ids, every grain
of the cursor, every limit and every bound on time:

| Theorem | Statement |
| --- | --- |
| `TypeCorrect` | `Spec => []TypeOK` |
| `PagesDescend` | `Spec => NoRowTwice` |
| `SkippedShareMillisecond` | `Spec => []OnlyCursorMillisecondSkipped` |

Assumptions: `BoundsAssumption` and `NoneAssumption`. `Ids` must be finite, as a table is: otherwise
an inserted row could have infinitely many rows before it, and a LIMIT would select nothing.

The lemmas are about the algorithm: `(created_at, id)` is a strict total order, a
non-empty selection has a first row, and a page of n rows is a prefix of what is selected, whose last row is below all others of the page
and above all that is not on it (`PageIsPrefix`, from `Ranks`). `OrderInv` says that what was listed is at the cursor or above, and
`CoverInv` that a row which matched all the time is listed, still below the cursor, or of
a millisecond in which a page ended: cutting the cursor to the millisecond moves it down by less than one.

### Server

`ServerProofs` proves the safety properties of the run `server`, for every set of requests, every set of
routes they may ask for and every path of the audit route, the one in the code included:

| Theorem | Statement |
| --- | --- |
| `TypeCorrect` | `Spec => []TypeOK` |
| `AbandonedAreCut` | `Spec => []OnlyAbandonedAreCut` |
| `PoolsAreAccountedFor` | `Spec => []PoolsAccountedFor` |

Assumption: `RoutesAssumption`. `LifeInv` ties the pools to the phase: a group that is registered has its pools, nothing ends a pool
before the server is closed, and a handler's queries go to pools there are. `AbandonedInv`
adds that after the close every handler in flight is one whose client hung up, and `LeftInv` that each hook leaves no pool of its list open
or ending, save one of `app.ts` that such a handler creates later.

### Not proved

Every safety invariant and action property of the passing runs has a theorem. What stays with TLC:

- Liveness: `EveryRequestAnswered`, `ListingEnds` and `ShutdownEnds` rest on fairness, whose proof needs ENABLED, which
  the installed provers do not treat.
- The five refuted properties: their counterexamples are runs of an instance.
- What is assumed of the environment stays assumed in the proofs too: PostgreSQL's locks and unique indexes, Fastify's
  order of closing and pg's end of a pool are part of the actions.

## What is left out

- Sizes, media types and digests beyond equal or different; rate limits; headers,
  cookies and envelopes; the listings.
- Isolation anomalies inside PostgreSQL beyond READ COMMITTED: its locks and unique
  indexes are taken to work as documented.
- Deadlocks between two UPDATEs of several session rows, which PostgreSQL
  breaks by failing one of them: an instance of `RequestFails`.
- Branches no reachable state takes, such as an idempotency record without a
  workflow: both are written by one transaction.
- In `Server`, a second process, the limit of connections of the database, and what a failing `Pool.end` does.
- The components marked `not_modelled` in `PROJECT.json`, with the reasons there.

## Plan

Done: `UploadAttempts` with `UploadContract`, `Sessions`, `Workflows` with its pool,
`Extractions` with document intake, `VersionedRows` and the two refinements, `Pagination`, `Server`, and the
proofs of the safety properties of all six.
Next, in this order:

1. `Agents` beside `Workflows`, when a route uses the repository: what its handlers check
   decides what its update may do.
2. What `VersionedRows` and `UploadContract` promise for every implementation, as theorems of these
   modules that the components inherit through their refinements.

## Running

```
tlc -workers 2 -config UploadAttempts.cfg MCUploadAttempts.tla
tlapm UploadAttemptsProofs.tla
tlapm WorkflowsProofs.tla
tlapm ExtractionsProofs.tla
tlapm SessionsProofs.tla
tlapm PaginationProofs.tla
tlapm ServerProofs.tla
```
and so on for each row of the table of runs.
