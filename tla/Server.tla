------------------------------- MODULE Server -------------------------------
(***************************************************************************)
(* One process of the API, from npm start to its end: server.ts, the parts *)
(* of app.ts it composes, and the configuration both read.                 *)
(*                                                                         *)
(* Starting, the process registers groups of routes one after the other    *)
(* and creates a connection pool for each repository of a group; the pools *)
(* of app.ts are created when first used.  Stopping, it lets Fastify close *)
(* the HTTP server and then ends the pools from two onClose hooks.  A      *)
(* handler is a sequence of queries, each on a pool; it goes on after its  *)
(* client has hung up.                                                     *)
(***************************************************************************)
EXTENDS Naturals, Sequences, FiniteSets

CONSTANTS
    Requests,     \* HTTP requests that may ever arrive
    AuditPath,    \* the path audit/routes.ts declares, "/audit/events" in the code
    Served,       \* the routes whose requests are considered
    Free          \* a request that has not arrived asks for this

Signals == {"SIGTERM", "SIGINT"}

\* What the environment says: whether DATABASE_URL is set, the variables of
\* runtime.ts and storage-config.ts are well formed.
Config == [runtime: {"valid", "invalid"}, database: {"set", "missing"},
           storage: {"absent", "invalid", "valid"}]

Groups == <<"app", "organization", "audit", "documents", "extractions">>
GroupNames == {"app", "organization", "audit", "documents", "extractions"}

Declared == [
    app |-> {<<"GET", "/health">>, <<"GET", "/ready">>, <<"GET", "/me">>,
             <<"POST", "/auth/register">>, <<"POST", "/auth/login">>,
             <<"POST", "/auth/logout">>, <<"GET", "/auth/session">>,
             <<"GET", "/auth/sessions">>, <<"DELETE", "/auth/sessions/:id">>,
             <<"POST", "/auth/sessions/revoke-others">>, <<"GET", "/audit/events">>,
             <<"GET", "/workflows">>, <<"POST", "/workflows">>,
             <<"GET", "/workflows/:id">>, <<"PATCH", "/workflows/:id">>},
    organization |-> {<<"GET", "/organization/hierarchy">>},
    audit |-> {<<"GET", AuditPath>>},
    documents |-> {<<"GET", "/documents">>, <<"GET", "/documents/:id">>,
                   <<"POST", "/documents">>, <<"POST", "/documents/:id/uploads">>,
                   <<"POST", "/documents/:id/uploads/:id/complete">>},
    extractions |-> {<<"GET", "/documents/:id/extractions">>,
                     <<"POST", "/documents/:id/extractions">>,
                     <<"PATCH", "/documents/:id/extractions/:id/review">>,
                     <<"POST", "/documents/:id/extractions/:id/complete">>}]
Routes == UNION {Declared[g] : g \in GroupNames}
ASSUME RoutesAssumption == Served \subseteq Routes /\ Free \notin Routes

Created == [
    app |-> {},
    organization |-> {"organizationAuth", "organization"},
    audit |-> {"auditAuth", "audit"},
    documents |-> {"documentAuth", "documentAudit", "document", "uploadAttempt"},
    extractions |-> {"extractionAuth", "extractionAudit", "extraction"}]
LazyPools == {"appAuth", "appAudit", "workflow"}
Pools == LazyPools \cup UNION {Created[g] : g \in GroupNames}

VARIABLES
    config,
    phase,        \* where the process is in its life
    group,        \* how many groups are registered
    handlers,     \* the signals whose handler is installed and has not run
    shuttingDown,
    pool,         \* pool[p]: "absent", "open", "ending" or "ended"
    pc, asks,     \* where each request is, and the route it asks for
    work,         \* the pools of the queries its handler still makes
    client        \* "there" or "gone"

vars == <<config, phase, group, handlers, shuttingDown, pool, pc, asks, work, client>>
requests == <<pc, asks, work, client>>
signalling == <<handlers, shuttingDown>>

Phases == {"starting", "listening", "serving", "draining", "endingServerPools",
           "endingAppPools", "closed", "exited", "failed", "killed"}
Alive == Phases \ {"exited", "failed", "killed"}
InFlight == {r \in Requests : pc[r] \in {"handler", "query"}}

TypeOK ==
    /\ config \in Config
    /\ phase \in Phases
    /\ group \in 0..Len(Groups)
    /\ handlers \subseteq Signals
    /\ shuttingDown \in BOOLEAN
    /\ pool \in [Pools -> {"absent", "open", "ending", "ended"}]
    /\ pc \in [Requests -> {"idle", "handler", "query", "answered", "cut", "failed"}]
    /\ asks \in [Requests -> Routes \cup {Free}]
    /\ work \in [Requests -> Seq(Pools)]
    /\ client \in [Requests -> {"there", "gone"}]
    /\ \A r \in Requests : pc[r] = "query" => work[r] # <<>>
    /\ config.storage # "valid" => pool["uploadAttempt"] = "absent"

Init ==
    /\ config \in Config
    /\ phase = "starting"
    /\ group = 0
    /\ handlers = {}
    /\ shuttingDown = FALSE
    /\ pool = [p \in Pools |-> "absent"]
    /\ pc = [r \in Requests |-> "idle"]
    /\ asks = [r \in Requests |-> Free]
    /\ work = [r \in Requests |-> <<>>]
    /\ client = [r \in Requests |-> "there"]

-----------------------------------------------------------------------------
(* Starting.  An error thrown on the way ends the process.                 *)

\* Fault: the pool of upload attempts is created without storage.
PoolsOf_Always(g) == Created[g]

\* documentStorageConfigFromEnv: no storage, no pool of upload attempts.
PoolsOf(g) ==
    IF config.storage = "absent" THEN Created[g] \ {"uploadAttempt"} ELSE Created[g]

Registered == UNION {Declared[Groups[i]] : i \in 1..group}

\* What a group finds wrong before its routes are registered.
Misconfigured(g) ==
    \/ g = "app" /\ config.runtime = "invalid"
    \/ g # "app" /\ config.database = "missing"
    \/ g = "documents" /\ config.storage = "invalid"

\* Fastify throws FST_ERR_DUPLICATED_ROUTE when a method and path are declared
\* twice.
Register ==
    LET g == Groups[group + 1] IN
    /\ phase = "starting" /\ group < Len(Groups)
    /\ IF Misconfigured(g)
       THEN phase' = "failed" /\ UNCHANGED <<group, pool>>
       ELSE /\ pool' = [p \in Pools |-> IF p \in PoolsOf(g) THEN "open" ELSE pool[p]]
            /\ IF Declared[g] \cap Registered # {}
               THEN phase' = "failed" /\ UNCHANGED group
               ELSE group' = group + 1 /\ UNCHANGED phase
    /\ UNCHANGED <<config, signalling, requests>>

Listen ==
    /\ phase = "starting" /\ group = Len(Groups)
    /\ phase' = "listening"
    /\ UNCHANGED <<config, group, signalling, pool, requests>>

\* The port is taken or may not be used.
ListenFails ==
    /\ phase = "starting" /\ group = Len(Groups)
    /\ phase' = "failed"
    /\ UNCHANGED <<config, group, signalling, pool, requests>>

\* process.once for both signals, after listen has been awaited.
InstallHandlers ==
    /\ phase = "listening"
    /\ phase' = "serving"
    /\ handlers' = Signals
    /\ UNCHANGED <<config, group, shuttingDown, pool, requests>>

-----------------------------------------------------------------------------
(* Serving.                                                                *)

Storage(route) == IF config.storage = "valid" THEN route ELSE <<>>

\* The pools a handler's queries go to, in order.  A refusal makes a prefix of them,
\* which RequestFails covers; a query that only finds the reason of a refusal is left out.
AppHandler(route) ==
    LET path == route[2] IN
    CASE path = "/health" -> <<>>
      [] path \in {"/ready", "/me", "/auth/session"} -> <<"appAuth">>
      [] path = "/auth/sessions" -> <<"appAuth", "appAuth">>
      [] path = "/auth/register" -> <<"appAuth", "appAudit">>
      [] path \in {"/auth/login", "/auth/logout", "/auth/sessions/:id",
                   "/auth/sessions/revoke-others"} -> <<"appAuth", "appAuth", "appAudit">>
      [] path = "/audit/events" -> <<"appAuth", "appAudit">>
      [] route = <<"POST", "/workflows">> -> <<"appAuth", "workflow", "appAudit">>
      [] route = <<"PATCH", "/workflows/:id">> ->
            <<"appAuth", "workflow", "workflow", "appAudit">>
      [] OTHER -> <<"appAuth", "workflow">>

DocumentHandler(route) ==
    LET path == route[2] IN
    CASE route = <<"POST", "/documents">> -> <<"documentAuth", "document", "documentAudit">>
      [] path = "/documents/:id/uploads" ->
            <<"documentAuth">> \o Storage(<<"document", "uploadAttempt", "uploadAttempt">>)
      [] path = "/documents/:id/uploads/:id/complete" ->
            <<"documentAuth">> \o
            Storage(<<"document", "uploadAttempt", "uploadAttempt", "documentAudit">>)
      [] OTHER -> <<"documentAuth", "document">>

ExtractionHandler(route) ==
    IF route[1] = "GET" THEN <<"extractionAuth", "extraction">>
    ELSE <<"extractionAuth", "extraction", "extractionAudit">>

\* The three queries that the hierarchy makes at once are one.
Handler(route) ==
    CASE route \in Declared.app -> AppHandler(route)
      [] route \in Declared.documents -> DocumentHandler(route)
      [] route \in Declared.extractions -> ExtractionHandler(route)
      [] route \in Declared.organization -> <<"organizationAuth", "organization">>
      [] OTHER -> <<"auditAuth", "audit">>

Accept(r, route) ==
    /\ phase \in {"listening", "serving"}
    /\ pc[r] = "idle"
    /\ asks' = [asks EXCEPT ![r] = route]
    /\ work' = [work EXCEPT ![r] = Handler(route)]
    /\ pc' = [pc EXCEPT ![r] = "handler"]
    /\ UNCHANGED <<config, phase, group, signalling, pool, client>>

\* The handler takes a client of a pool, which it may have to create, or is told
\* that the pool was ended.
StartQuery(r) ==
    /\ phase \in Alive
    /\ pc[r] = "handler" /\ work[r] # <<>>
    /\ LET p == Head(work[r]) IN
       IF pool[p] \in {"ending", "ended"}
       THEN pc' = [pc EXCEPT ![r] = "cut"] /\ UNCHANGED pool
       ELSE /\ pc' = [pc EXCEPT ![r] = "query"]
            /\ pool' = [pool EXCEPT ![p] = "open"]
    /\ UNCHANGED <<config, phase, group, signalling, asks, work, client>>

\* The client is back in its pool; the last one ends a pool that was told to end.
InUse(p) == {r \in Requests : pc[r] = "query" /\ Head(work[r]) = p}
Release(r) ==
    LET p == Head(work[r]) IN
    pool' = [pool EXCEPT ![p] = IF pool[p] = "ending" /\ InUse(p) = {r} THEN "ended" ELSE pool[p]]

FinishQuery(r) ==
    /\ phase \in Alive
    /\ pc[r] = "query"
    /\ Release(r)
    /\ work' = [work EXCEPT ![r] = Tail(work[r])]
    /\ pc' = [pc EXCEPT ![r] = "handler"]
    /\ UNCHANGED <<config, phase, group, signalling, asks, client>>

Answer(r) ==
    /\ phase \in Alive
    /\ pc[r] = "handler" /\ work[r] = <<>>
    /\ pc' = [pc EXCEPT ![r] = "answered"]
    /\ UNCHANGED <<config, phase, group, signalling, pool, asks, work, client>>

\* A query is rejected, or the handler refuses the request after it.
RequestFails(r) ==
    /\ phase \in Alive
    /\ pc[r] = "query"
    /\ Release(r)
    /\ pc' = [pc EXCEPT ![r] = "failed"]
    /\ UNCHANGED <<config, phase, group, signalling, asks, work, client>>

HangUp(r) ==
    /\ r \in InFlight /\ client[r] = "there"
    /\ client' = [client EXCEPT ![r] = "gone"]
    /\ UNCHANGED <<config, phase, group, signalling, pool, pc, asks, work>>

-----------------------------------------------------------------------------
(* Stopping.                                                               *)

\* pool.end(): clients in use are waited for, there is nothing else to wait for.
End(ps) ==
    pool' = [p \in Pools |-> IF p \notin ps \/ pool[p] # "open" THEN pool[p]
                             ELSE IF InUse(p) = {} THEN "ended" ELSE "ending"]

\* Fault: shuttingDown is set before it is tested.
Shutdown_TooLate ==
    /\ shuttingDown' = TRUE
    /\ UNCHANGED <<phase, pool>>

\* Fault: shutdown ends the pools of server.ts before it closes the server.
Shutdown_PoolsFirst ==
    /\ shuttingDown' = TRUE
    /\ IF shuttingDown THEN UNCHANGED <<phase, pool>>
       ELSE phase' = "draining" /\ End(Pools \ LazyPools)

\* shutdown: the first call closes the app, another one returns at once.
Shutdown ==
    /\ shuttingDown' = TRUE
    /\ phase' = IF shuttingDown THEN phase ELSE "draining"
    /\ UNCHANGED pool

\* A handler installed by once is gone when it has run; a signal without a handler
\* ends the process.
Signal(s) ==
    /\ phase \in Alive
    /\ IF s \in handlers
       THEN handlers' = handlers \ {s} /\ Shutdown
       ELSE phase' = "killed" /\ UNCHANGED <<signalling, pool>>
    /\ UNCHANGED <<config, group, requests>>

\* Fault: the hook forgets a pool.
ServerPools_Forgotten == Pools \ (LazyPools \cup {"extractionAudit"})
\* The pools the onClose hook of server.ts ends, and those of app.ts.
ServerPools == {"organizationAuth", "organization", "auditAuth", "audit", "documentAuth",
                "documentAudit", "document", "uploadAttempt", "extractionAuth",
                "extractionAudit", "extraction"}
AppPools == {"appAuth", "appAudit", "workflow"}

\* Fastify runs onClose hooks, the last one first, when the server is closed:
\* when no connection with a request is left.
ServerClosed ==
    /\ phase = "draining"
    /\ \A r \in InFlight : client[r] = "gone"
    /\ phase' = "endingServerPools"
    /\ End(ServerPools)
    /\ UNCHANGED <<config, group, signalling, requests>>

ServerHookDone ==
    /\ phase = "endingServerPools"
    /\ \A p \in ServerPools : pool[p] # "ending"
    /\ phase' = "endingAppPools"
    /\ End(AppPools)
    /\ UNCHANGED <<config, group, signalling, requests>>

AppHookDone ==
    /\ phase = "endingAppPools"
    /\ \A p \in AppPools : pool[p] # "ending"
    /\ phase' = "closed"
    /\ UNCHANGED <<config, group, signalling, pool, requests>>

\* Nothing is left to wait for; pg drops the idle clients of a pool nobody ended
\* after idleTimeoutMillis.
Exit ==
    /\ phase = "closed" /\ InFlight = {}
    /\ phase' = "exited"
    /\ UNCHANGED <<config, group, signalling, pool, requests>>

-----------------------------------------------------------------------------

ProcessStep ==
    \/ Register \/ Listen \/ InstallHandlers
    \/ ServerClosed \/ ServerHookDone \/ AppHookDone \/ Exit
HandlerStep(r) == StartQuery(r) \/ FinishQuery(r) \/ Answer(r)

Next ==
    \/ ProcessStep \/ ListenFails
    \/ \E s \in Signals : Signal(s)
    \/ \E r \in Requests :
        \/ \E route \in Served : Accept(r, route)
        \/ HandlerStep(r) \/ RequestFails(r) \/ HangUp(r)

Spec == Init /\ [][Next]_vars

\* The event loop runs what is ready and PostgreSQL answers; no signal has to
\* arrive, no client has to come or go.
FairSpec ==
    /\ Spec
    /\ WF_vars(ProcessStep)
    /\ \A r \in Requests : WF_vars(HandlerStep(r))

-----------------------------------------------------------------------------
(* Properties.                                                             *)

\* A graceful shutdown takes the pools away only from handlers whose client has
\* hung up: whoever still waits for an answer gets it, and no change is left
\* without its audit event that its client was not told of (the hooks run after
\* the server is closed).
OnlyAbandonedAreCut == \A r \in Requests : pc[r] = "cut" => client[r] = "gone"

\* When the server is closed no pool is left open, in use or still ending, save a
\* pool of app.ts that an abandoned handler created after the hook had looked for it
\* (the two lists of the hooks; `repository?.close` of what does not exist yet).
LateCreators(p) ==
    {r \in Requests : client[r] = "gone" /\ asks[r] # Free
        /\ \E i \in DOMAIN Handler(asks[r]) : Handler(asks[r])[i] = p}
PoolsAccountedFor ==
    phase \in {"closed", "exited"} =>
        \A p \in Pools :
            \/ pool[p] \in {"absent", "ended"}
            \/ pool[p] = "open" /\ p \in LazyPools /\ LateCreators(p) # {}

\* A shutdown that began comes to its end: the hooks wait for pools, pools for
\* handlers, handlers for pools, and none of them for each other.
ShutdownEnds == shuttingDown ~> phase \in {"exited", "killed"}

\* server.ts: "Audit reads use an independent repository/service composition."
\* A process that is configured and gets its port comes to serve them: it does not
\* fail while it registers its routes.
StartsWhenConfigured ==
    phase = "failed" =>
        \/ group = Len(Groups)
        \/ config.runtime = "invalid" \/ config.database = "missing"
        \/ config.storage = "invalid"
=============================================================================
