----------------------------- MODULE ServerProofs -----------------------------
(***************************************************************************)
(* Proofs about Server, for every set of requests and of routes they may   *)
(* ask for, and every path under which the audit routes are declared.      *)
(***************************************************************************)
EXTENDS Server, SequenceTheorems, TLAPS

-----------------------------------------------------------------------------
(* Groups of routes, pools and handlers.                                   *)

\* There are five groups, the documents are the fourth.
LEMMA GroupsAre ==
    /\ Len(Groups) = 5 /\ \A i \in 1..5 : Groups[i] \in GroupNames
    /\ Groups[1] = "app" /\ Groups[2] = "organization" /\ Groups[3] = "audit"
    /\ Groups[4] = "documents" /\ Groups[5] = "extractions"
BY DEF Groups, GroupNames

\* The pools are those that the two hooks end.
LEMMA PoolsAre ==
    /\ Pools = AppPools \cup ServerPools /\ LazyPools = AppPools
    /\ \A p \in AppPools : p \notin ServerPools /\ p # "uploadAttempt"
    /\ "uploadAttempt" \in Pools
<1>1. UNION {Created[g] : g \in GroupNames} =
          Created.app \cup Created.organization \cup Created.audit \cup Created.documents
            \cup Created.extractions
  BY DEF GroupNames
<1>2. UNION {Created[g] : g \in GroupNames} = ServerPools
  BY <1>1 DEF Created, ServerPools
<1>3. LazyPools = AppPools
  BY DEF LazyPools, AppPools
<1>4. QED
  BY <1>2, <1>3 DEF Pools, AppPools, ServerPools

\* A group creates pools of server.ts, and the documents create the one of attempts if
\* there is storage.
LEMMA GroupPools ==
    /\ \A g \in GroupNames : PoolsOf(g) \subseteq ServerPools
    /\ \A g \in GroupNames : "uploadAttempt" \in PoolsOf(g) =>
          g = "documents" /\ config.storage # "absent"
    /\ \A p \in ServerPools : (p = "uploadAttempt" => config.storage # "absent") =>
          \E i \in 1..5 : p \in PoolsOf(Groups[i])
<1>1. /\ \A g \in GroupNames : Created[g] \subseteq ServerPools
      /\ \A g \in GroupNames : "uploadAttempt" \in Created[g] => g = "documents"
  BY DEF Created, ServerPools, GroupNames
<1>2. \A p \in ServerPools : \E i \in 1..5 : p \in Created[Groups[i]]
  <2>1. /\ Created[Groups[2]] = {"organizationAuth", "organization"}
        /\ Created[Groups[3]] = {"auditAuth", "audit"}
        /\ Created[Groups[4]] = {"documentAuth", "documentAudit", "document", "uploadAttempt"}
        /\ Created[Groups[5]] = {"extractionAuth", "extractionAudit", "extraction"}
    BY GroupsAre DEF Created
  <2>2. ServerPools = Created[Groups[2]] \cup Created[Groups[3]] \cup Created[Groups[4]]
                        \cup Created[Groups[5]]
    BY <2>1 DEF ServerPools
  <2>3. 2 \in 1..5 /\ 3 \in 1..5 /\ 4 \in 1..5 /\ 5 \in 1..5
    OBVIOUS
  <2>4. QED
    BY <2>2, <2>3
<1>3. QED
  BY <1>1, <1>2 DEF PoolsOf

\* A handler's queries go to pools there are, to that of attempts only if there is storage.
LEMMA HandlerMeans ==
    ASSUME NEW route
    PROVE  /\ Handler(route) \in Seq(Pools)
           /\ config.storage # "valid" =>
                 \A i \in DOMAIN Handler(route) : Handler(route)[i] # "uploadAttempt"
<1> DEFINE Safe(s) == s \in Seq(Pools) /\ \A i \in DOMAIN s : s[i] # "uploadAttempt"
           Begin == <<"document", "uploadAttempt", "uploadAttempt">>
           Complete == <<"document", "uploadAttempt", "uploadAttempt", "documentAudit">>
<1>1. Pools = {"appAuth", "appAudit", "workflow", "organizationAuth", "organization",
               "auditAuth", "audit", "documentAuth", "documentAudit", "document",
               "uploadAttempt", "extractionAuth", "extractionAudit", "extraction"}
  BY PoolsAre DEF AppPools, ServerPools
<1>2. \A a, b, c, d \in Pools \ {"uploadAttempt"} :
          Safe(<<a>>) /\ Safe(<<a, b>>) /\ Safe(<<a, b, c>>) /\ Safe(<<a, b, c, d>>)
  OBVIOUS
<1>3. \A path \in {Begin, Complete} :
          <<"documentAuth">> \o Storage(path) \in Seq(Pools)
          /\ (config.storage # "valid" => Safe(<<"documentAuth">> \o Storage(path)))
  <2>1. Begin \in Seq(Pools) /\ Complete \in Seq(Pools) /\ <<"documentAuth">> \in Seq(Pools)
    BY <1>1
  <2>2. Safe(<<"documentAuth">>) /\ <<"documentAuth">> \o <<>> = <<"documentAuth">>
    BY <1>1, <1>2
  <2>3. ASSUME NEW path \in {Begin, Complete} PROVE <<"documentAuth">> \o path \in Seq(Pools)
    BY <2>1, ConcatProperties
  <2>4. ASSUME NEW path \in {Begin, Complete}
        PROVE  Storage(path) = path \/ (Storage(path) = <<>> /\ config.storage # "valid")
    BY DEF Storage
  <2>5. QED
    BY <2>1, <2>2, <2>3, <2>4 DEF Storage
<1> HIDE DEF Safe, Begin, Complete
<1> DEFINE P == Pools \ {"uploadAttempt"}
           Short == {<<>>, <<"appAuth">>, <<"appAuth", "appAuth">>, <<"appAuth", "appAudit">>,
                     <<"appAuth", "appAuth", "appAudit">>, <<"appAuth", "workflow">>,
                     <<"appAuth", "workflow", "appAudit">>,
                     <<"appAuth", "workflow", "workflow", "appAudit">>,
                     <<"organizationAuth", "organization">>, <<"documentAuth", "document">>,
                     <<"documentAuth", "document", "documentAudit">>,
                     <<"extractionAuth", "extraction">>,
                     <<"extractionAuth", "extraction", "extractionAudit">>,
                     <<"auditAuth", "audit">>}
<1>4. \/ Handler(route) \in Short
      \/ Handler(route) = <<"documentAuth">> \o Storage(Begin)
      \/ Handler(route) = <<"documentAuth">> \o Storage(Complete)
  <2>1. AppHandler(route) \in Short
    BY DEF AppHandler
  <2>2. \/ DocumentHandler(route) \in Short
        \/ DocumentHandler(route) = <<"documentAuth">> \o Storage(Begin)
        \/ DocumentHandler(route) = <<"documentAuth">> \o Storage(Complete)
    BY DEF DocumentHandler, Begin, Complete
  <2>3. ExtractionHandler(route) \in Short
    BY DEF ExtractionHandler
  <2>4. <<"organizationAuth", "organization">> \in Short /\ <<"auditAuth", "audit">> \in Short
    OBVIOUS
  <2> HIDE DEF Short
  <2>5. QED
    BY <2>1, <2>2, <2>3, <2>4 DEF Handler
<1>5. \A path \in Short : Safe(path)
  <2>1. /\ "appAuth" \in P /\ "appAudit" \in P /\ "workflow" \in P /\ "organizationAuth" \in P
        /\ "organization" \in P /\ "auditAuth" \in P /\ "audit" \in P /\ "documentAuth" \in P
        /\ "documentAudit" \in P /\ "document" \in P /\ "extractionAuth" \in P
        /\ "extractionAudit" \in P /\ "extraction" \in P
    BY <1>1
  <2>2. \A a, b, c, d \in P :
            Safe(<<a>>) /\ Safe(<<a, b>>) /\ Safe(<<a, b, c>>) /\ Safe(<<a, b, c, d>>)
    BY <1>2
  <2> HIDE DEF P
  <2>3. Safe(<<>>)
    BY DEF Safe
  <2>4. /\ Safe(<<"appAuth">>) /\ Safe(<<"appAuth", "appAuth">>)
        /\ Safe(<<"appAuth", "appAudit">>) /\ Safe(<<"appAuth", "workflow">>)
        /\ Safe(<<"organizationAuth", "organization">>) /\ Safe(<<"documentAuth", "document">>)
        /\ Safe(<<"extractionAuth", "extraction">>) /\ Safe(<<"auditAuth", "audit">>)
    BY <2>1, <2>2, Zenon
  <2>5. /\ Safe(<<"appAuth", "appAuth", "appAudit">>)
        /\ Safe(<<"appAuth", "workflow", "appAudit">>)
        /\ Safe(<<"appAuth", "workflow", "workflow", "appAudit">>)
        /\ Safe(<<"documentAuth", "document", "documentAudit">>)
        /\ Safe(<<"extractionAuth", "extraction", "extractionAudit">>)
    BY <2>1, <2>2, Zenon
  <2>6. QED
    BY <2>3, <2>4, <2>5, Zenon
<1>6. QED
  BY <1>3, <1>4, <1>5 DEF Safe

-----------------------------------------------------------------------------
(* What is true of every state.                                            *)

\* From the moment the server is closed, and from the moment the process listens.
Closing == {"endingServerPools", "endingAppPools", "closed", "exited"}
Stopping == Closing \cup {"draining"}
Settled == Stopping \cup {"listening", "serving"}

\* The pools a request's handler uses, in all and from now on.
Uses(path) == {path[i] : i \in DOMAIN path}

Typed ==
    /\ config \in Config /\ phase \in Phases /\ group \in 0..5
    /\ handlers \subseteq Signals /\ shuttingDown \in BOOLEAN
    /\ pool \in [Pools -> {"absent", "open", "ending", "ended"}]
    /\ pc \in [Requests -> {"idle", "handler", "query", "answered", "cut", "failed"}]
    /\ asks \in [Requests -> Routes \cup {Free}]
    /\ work \in [Requests -> Seq(Pools)]
    /\ client \in [Requests -> {"there", "gone"}]

\* A request that has arrived works on what it asks for.
RequestMeans(r) ==
    /\ pc[r] # "idle" => asks[r] \in Routes /\ Uses(work[r]) \subseteq Uses(Handler(asks[r]))
    /\ pc[r] = "query" => work[r] # <<>>

\* Handlers are installed when all groups are registered, and only then can the process
\* be told to stop; a group that is registered has its pools.
LifeInv ==
    /\ Typed /\ \A r \in Requests : RequestMeans(r)
    /\ phase \in {"starting", "listening"} => handlers = {}
    /\ phase \in Settled => group = 5
    /\ phase \in Stopping => shuttingDown
    /\ \A i \in 1..group : \A p \in PoolsOf(Groups[i]) : pool[p] # "absent"
    /\ group >= 4 => config.storage # "invalid"
    /\ config.storage # "valid" => pool["uploadAttempt"] = "absent"
    /\ \A p \in Pools : pool[p] \in {"ending", "ended"} => phase \in Closing \cup {"killed"}

\* With nothing registered it holds.
LEMMA LifeInit == Init => LifeInv
<1> SUFFICES ASSUME Init PROVE LifeInv
  OBVIOUS
<1>1. Typed
  <2>1. <<>> \in Seq(Pools)
    OBVIOUS
  <2>2. work \in [Requests -> Seq(Pools)]
    BY <2>1 DEF Init
  <2>3. /\ pool \in [Pools -> {"absent", "open", "ending", "ended"}]
        /\ pc \in [Requests -> {"idle", "handler", "query", "answered", "cut", "failed"}]
        /\ asks \in [Requests -> Routes \cup {Free}]
        /\ client \in [Requests -> {"there", "gone"}]
    BY DEF Init
  <2>4. config \in Config /\ phase \in Phases /\ group \in 0..5 /\ handlers \subseteq Signals
    BY DEF Init, Phases
  <2>5. shuttingDown \in BOOLEAN
    BY Zenon DEF Init
  <2>6. QED
    BY <2>2, <2>3, <2>4, <2>5 DEF Typed
<1>2. \A r \in Requests : RequestMeans(r)
  BY DEF Init, RequestMeans
<1>3. \A p \in Pools : pool[p] = "absent"
  BY DEF Init
<1>4. phase = "starting" /\ group = 0 /\ handlers = {}
  BY DEF Init
<1>5. QED
  BY <1>1, <1>2, <1>3, <1>4, PoolsAre DEF LifeInv, Settled, Stopping, Closing

LEMMA LifeTypes == LifeInv => TypeOK
BY GroupsAre DEF LifeInv, Typed, RequestMeans, TypeOK

-----------------------------------------------------------------------------
(* What the steps of a request do.                                         *)

\* No other request moves, nor does the process.
Moves(r) ==
    /\ UNCHANGED <<config, phase, group, handlers, shuttingDown>>
    /\ \A q \in Requests \ {r} :
          pc'[q] = pc[q] /\ asks'[q] = asks[q] /\ work'[q] = work[q] /\ client'[q] = client[q]

LEMMA AcceptMeans ==
    ASSUME LifeInv, NEW r \in Requests, NEW route \in Served, Accept(r, route)
    PROVE  /\ Typed' /\ Moves(r) /\ UNCHANGED pool
           /\ phase \in {"listening", "serving"} /\ pc[r] = "idle" /\ pc'[r] = "handler"
           /\ asks'[r] \in Routes /\ work'[r] = Handler(asks'[r]) /\ client'[r] = client[r]
<1>1. Handler(route) \in Seq(Pools)
  BY HandlerMeans
<1>2. route \in Routes
  BY RoutesAssumption
<1>3. QED
  BY <1>1, <1>2 DEF LifeInv, Typed, Moves, Accept, signalling

\* A query starts on a pool it opens if it has to; a pool that was ended cuts the request.
LEMMA StartMeans ==
    ASSUME LifeInv, NEW r \in Requests, StartQuery(r)
    PROVE  /\ Typed' /\ Moves(r) /\ UNCHANGED <<asks, work, client>>
           /\ phase \in Alive /\ pc[r] = "handler" /\ work[r] # <<>>
           /\ \/ /\ pc'[r] = "cut" /\ UNCHANGED pool
                 /\ \E p \in Pools : pool[p] \in {"ending", "ended"}
              \/ /\ pc'[r] = "query"
                 /\ \E p \in Pools : /\ p \in Uses(work[r]) /\ pool[p] \in {"absent", "open"}
                                     /\ pool'[p] = "open"
                                     /\ \A q \in Pools \ {p} : pool'[q] = pool[q]
<1>1. work[r] \in Seq(Pools) /\ work[r] # <<>> /\ phase \in Alive /\ pc[r] = "handler"
  BY DEF LifeInv, Typed, StartQuery
<1>2. PICK p \in Pools : p = Head(work[r]) /\ p \in Uses(work[r])
  BY <1>1 DEF Uses
<1>3. UNCHANGED <<config, phase, group, handlers, shuttingDown, asks, work, client>>
  BY DEF StartQuery, signalling
<1>4. CASE pool[p] \in {"ending", "ended"}
  <2>1. pc' = [pc EXCEPT ![r] = "cut"] /\ UNCHANGED pool
    BY <1>2, <1>4 DEF StartQuery
  <2>2. QED
    BY <1>1, <1>3, <1>4, <2>1 DEF LifeInv, Typed, Moves
<1>5. CASE pool[p] \notin {"ending", "ended"}
  <2>1. pc' = [pc EXCEPT ![r] = "query"] /\ pool' = [pool EXCEPT ![p] = "open"]
    BY <1>2, <1>5 DEF StartQuery
  <2>2. pool[p] \in {"absent", "open"}
    BY <1>5 DEF LifeInv, Typed
  <2>3. Typed' /\ Moves(r) /\ pc'[r] = "query" /\ pool'[p] = "open"
        /\ \A q \in Pools \ {p} : pool'[q] = pool[q]
    BY <1>3, <2>1 DEF LifeInv, Typed, Moves
  <2>4. QED
    BY <1>1, <1>2, <1>3, <2>2, <2>3
<1>6. QED
  BY <1>4, <1>5

\* A pool that is waited for may end.
Releases ==
    \A p \in Pools : pool'[p] = pool[p] \/ (pool[p] = "ending" /\ pool'[p] = "ended")
LEMMA ReleaseMeans ==
    ASSUME LifeInv, NEW r \in Requests, pc[r] = "query", Release(r)
    PROVE  Releases /\ pool' \in [Pools -> {"absent", "open", "ending", "ended"}]
<1>1. Head(work[r]) \in Pools
  BY DEF LifeInv, Typed, RequestMeans
<1>2. QED
  BY <1>1 DEF LifeInv, Typed, Release, Releases

LEMMA FinishMeans ==
    ASSUME LifeInv, NEW r \in Requests, FinishQuery(r)
    PROVE  /\ Typed' /\ Moves(r) /\ UNCHANGED <<asks, client>> /\ Releases
           /\ pc[r] = "query" /\ pc'[r] = "handler" /\ Uses(work'[r]) \subseteq Uses(work[r])
<1>1. /\ pc[r] = "query" /\ work[r] # <<>> /\ work[r] \in Seq(Pools)
      /\ UNCHANGED <<config, phase, group, handlers, shuttingDown, asks, client>>
      /\ work' = [work EXCEPT ![r] = Tail(work[r])] /\ pc' = [pc EXCEPT ![r] = "handler"]
  BY DEF FinishQuery, LifeInv, Typed, RequestMeans, signalling
<1>2. Releases /\ pool' \in [Pools -> {"absent", "open", "ending", "ended"}]
  BY <1>1, ReleaseMeans DEF FinishQuery
<1>3. Tail(work[r]) \in Seq(Pools) /\ Uses(Tail(work[r])) \subseteq Uses(work[r])
  BY <1>1 DEF Uses
<1>4. work' \in [Requests -> Seq(Pools)] /\ work'[r] = Tail(work[r])
      /\ \A q \in Requests \ {r} : work'[q] = work[q]
  BY <1>1, <1>3 DEF LifeInv, Typed
<1>5. QED
  BY <1>1, <1>2, <1>3, <1>4 DEF LifeInv, Typed, Moves

LEMMA AnswerMeans ==
    ASSUME LifeInv, NEW r \in Requests, Answer(r)
    PROVE  /\ Typed' /\ Moves(r) /\ UNCHANGED <<pool, asks, work, client>>
           /\ pc[r] = "handler" /\ pc'[r] = "answered"
BY DEF LifeInv, Typed, Moves, Answer, signalling

LEMMA FailMeans ==
    ASSUME LifeInv, NEW r \in Requests, RequestFails(r)
    PROVE  /\ Typed' /\ Moves(r) /\ UNCHANGED <<asks, work, client>> /\ Releases
           /\ pc[r] = "query" /\ pc'[r] = "failed"
<1>1. /\ pc[r] = "query" /\ pc' = [pc EXCEPT ![r] = "failed"]
      /\ UNCHANGED <<config, phase, group, handlers, shuttingDown, asks, work, client>>
  BY DEF RequestFails, signalling
<1>2. Releases /\ pool' \in [Pools -> {"absent", "open", "ending", "ended"}]
  BY <1>1, ReleaseMeans DEF RequestFails
<1>3. QED
  BY <1>1, <1>2 DEF LifeInv, Typed, Moves

LEMMA HangUpMeans ==
    ASSUME LifeInv, NEW r \in Requests, HangUp(r)
    PROVE  /\ Typed' /\ Moves(r) /\ UNCHANGED <<pool, pc, asks, work>>
           /\ pc[r] \in {"handler", "query"} /\ client'[r] = "gone"
BY DEF LifeInv, Typed, Moves, HangUp, InFlight, signalling

-----------------------------------------------------------------------------
(* What the steps of the process do.                                       *)

\* A group is registered with its pools, or the process fails before or after it has
\* created them.
LEMMA RegisterMeans ==
    ASSUME LifeInv, Register
    PROVE  /\ Typed' /\ UNCHANGED <<config, handlers, shuttingDown, pc, asks, work, client>>
           /\ phase = "starting" /\ group \in 0..4
           /\ LET g == Groups[group + 1] IN
              \/ phase' = "failed" /\ UNCHANGED <<group, pool>>
              \/ /\ ~Misconfigured(g) /\ g \in GroupNames
                 /\ \A p \in Pools : pool'[p] = IF p \in PoolsOf(g) THEN "open" ELSE pool[p]
                 /\ \/ phase' = "failed" /\ UNCHANGED group
                    \/ phase' = "starting" /\ group' = group + 1
<1> DEFINE g == Groups[group + 1]
<1>1. /\ phase = "starting" /\ group \in 0..4 /\ g \in GroupNames
      /\ UNCHANGED <<config, handlers, shuttingDown, pc, asks, work, client>>
  BY GroupsAre DEF Register, LifeInv, Typed, signalling, requests
<1>2. "failed" \in Phases /\ "starting" \in Phases
  BY DEF Phases
<1>3. CASE Misconfigured(g)
  <2>1. phase' = "failed" /\ UNCHANGED <<group, pool>>
    BY <1>3 DEF Register
  <2>2. QED
    BY <1>1, <1>2, <2>1 DEF LifeInv, Typed
<1>4. CASE ~Misconfigured(g)
  <2>1. /\ pool' = [p \in Pools |-> IF p \in PoolsOf(g) THEN "open" ELSE pool[p]]
        /\ \/ phase' = "failed" /\ UNCHANGED group
           \/ phase' = "starting" /\ group' = group + 1
    BY <1>1, <1>4 DEF Register
  <2>2. /\ pool' \in [Pools -> {"absent", "open", "ending", "ended"}]
        /\ \A p \in Pools : pool'[p] = IF p \in PoolsOf(g) THEN "open" ELSE pool[p]
    BY <2>1 DEF LifeInv, Typed
  <2>3. QED
    BY <1>1, <1>2, <1>4, <2>1, <2>2 DEF LifeInv, Typed
<1>5. QED
  BY <1>3, <1>4

\* With all groups registered the process gets its port or fails.
LEMMA ListenMeans ==
    ASSUME LifeInv, Listen \/ ListenFails \/ InstallHandlers
    PROVE  /\ Typed' /\ UNCHANGED <<config, group, shuttingDown, pool, pc, asks, work, client>>
           /\ \/ /\ phase = "starting" /\ group = 5 /\ phase' \in {"listening", "failed"}
                 /\ UNCHANGED handlers
              \/ phase = "listening" /\ phase' = "serving"
BY GroupsAre
   DEF LifeInv, Typed, Listen, ListenFails, InstallHandlers, signalling, requests, Phases

\* A signal starts the shutdown, finds it begun, or kills the process.
LEMMA SignalMeans ==
    ASSUME LifeInv, NEW s \in Signals, Signal(s)
    PROVE  /\ Typed' /\ UNCHANGED <<config, group, pool, pc, asks, work, client>>
           /\ \/ phase' = "killed"
              \/ /\ shuttingDown' = TRUE
                 /\ \/ phase' = phase /\ phase \notin {"starting", "listening"}
                    \/ phase = "serving" /\ phase' = "draining"
<1>1. UNCHANGED <<config, group, pool, pc, asks, work, client>> /\ phase \in Alive
  BY DEF Signal, Shutdown, requests
<1>2. CASE s \notin handlers
  BY <1>1, <1>2 DEF LifeInv, Typed, Signal, signalling, Phases
<1>3. CASE s \in handlers
  <2>1. /\ handlers' \subseteq Signals /\ shuttingDown' = TRUE
        /\ phase \notin {"starting", "listening"}
        /\ phase' = IF shuttingDown THEN phase ELSE "draining"
    BY <1>3 DEF LifeInv, Typed, Signal, Shutdown
  <2>2. CASE shuttingDown
    BY <1>1, <2>1, <2>2 DEF LifeInv, Typed
  <2>3. CASE ~shuttingDown
    <3>1. phase = "serving"
      BY <1>1, <2>1, <2>3 DEF LifeInv, Typed, Alive, Phases, Stopping, Closing
    <3>2. QED
      BY <1>1, <2>1, <2>3, <3>1 DEF LifeInv, Typed, Phases
  <2>4. QED
    BY <2>2, <2>3
<1>4. QED
  BY <1>2, <1>3

\* pool.end() ends a pool that is open, or begins to.
Ends(ps) ==
    \A p \in Pools : IF p \in ps /\ pool[p] = "open" THEN pool'[p] \in {"ending", "ended"}
                     ELSE pool'[p] = pool[p]
LEMMA EndMeans ==
    ASSUME LifeInv, NEW ps, End(ps)
    PROVE  Ends(ps) /\ pool' \in [Pools -> {"absent", "open", "ending", "ended"}]
BY DEF LifeInv, Typed, End, Ends

LEMMA ClosedMeans ==
    ASSUME LifeInv, ServerClosed
    PROVE  /\ Typed' /\ UNCHANGED <<config, group, handlers, shuttingDown, pc, asks, work, client>>
           /\ phase = "draining" /\ phase' = "endingServerPools" /\ Ends(ServerPools)
           /\ \A r \in InFlight : client[r] = "gone"
BY EndMeans DEF LifeInv, Typed, ServerClosed, signalling, requests, Phases
LEMMA ServerHookMeans ==
    ASSUME LifeInv, ServerHookDone
    PROVE  /\ Typed' /\ UNCHANGED <<config, group, handlers, shuttingDown, pc, asks, work, client>>
           /\ phase = "endingServerPools" /\ phase' = "endingAppPools" /\ Ends(AppPools)
           /\ \A p \in ServerPools : pool[p] # "ending"
BY EndMeans DEF LifeInv, Typed, ServerHookDone, signalling, requests, Phases
LEMMA AppHookMeans ==
    ASSUME LifeInv, AppHookDone
    PROVE  /\ Typed' /\ phase = "endingAppPools" /\ phase' = "closed"
           /\ UNCHANGED <<config, group, handlers, shuttingDown, pool, pc, asks, work, client>>
           /\ \A p \in AppPools : pool[p] # "ending"
BY DEF LifeInv, Typed, AppHookDone, signalling, requests, Phases
LEMMA ExitMeans ==
    ASSUME LifeInv, Exit
    PROVE  /\ Typed' /\ phase = "closed" /\ phase' = "exited"
           /\ UNCHANGED <<config, group, handlers, shuttingDown, pool, pc, asks, work, client>>
BY DEF LifeInv, Typed, Exit, signalling, requests, Phases

-----------------------------------------------------------------------------
(* What a step does to the process, a request or a pool.                   *)

RequestStep(r) ==
    \/ \E route \in Served : Accept(r, route)
    \/ StartQuery(r) \/ FinishQuery(r) \/ Answer(r) \/ RequestFails(r) \/ HangUp(r)
LEMMA NextMeans ==
    ASSUME [Next]_vars
    PROVE  \/ \E r \in Requests : RequestStep(r)
           \/ Register \/ Listen \/ ListenFails \/ InstallHandlers
           \/ \E s \in Signals : Signal(s)
           \/ ServerClosed \/ ServerHookDone \/ AppHookDone \/ Exit
           \/ UNCHANGED vars
BY DEF Next, ProcessStep, HandlerStep, RequestStep

LEMMA RequestStepMeans ==
    ASSUME LifeInv, NEW r \in Requests, RequestStep(r)
    PROVE  Moves(r) /\ Typed'
BY AcceptMeans, StartMeans, FinishMeans, AnswerMeans, FailMeans, HangUpMeans DEF RequestStep

\* A request stays where it is, or it is the one that moves.
Stays(r) == pc'[r] = pc[r] /\ asks'[r] = asks[r] /\ work'[r] = work[r] /\ client'[r] = client[r]
LEMMA RequestSteps ==
    ASSUME LifeInv, [Next]_vars, NEW r \in Requests
    PROVE  Stays(r) \/ RequestStep(r)
<1>1. ASSUME NEW q \in Requests, RequestStep(q), q # r PROVE Stays(r)
  BY <1>1, RequestStepMeans DEF Moves, Stays
<1>2. CASE \/ Register \/ Listen \/ ListenFails \/ InstallHandlers
           \/ \E s \in Signals : Signal(s)
  BY <1>2, RegisterMeans, ListenMeans, SignalMeans DEF Stays
<1>3. CASE ServerClosed \/ ServerHookDone \/ AppHookDone \/ Exit \/ UNCHANGED vars
  BY <1>3, ClosedMeans, ServerHookMeans, AppHookMeans, ExitMeans DEF Stays, vars
<1>4. QED
  BY <1>1, <1>2, <1>3, NextMeans

\* The process goes from one place in its life to the next, or ends early.
LEMMA PhaseSteps ==
    ASSUME LifeInv, [Next]_vars
    PROVE  /\ UNCHANGED config
           /\ \/ phase' = phase /\ UNCHANGED <<group, handlers, shuttingDown>>
              \/ phase' = phase /\ phase \notin {"starting", "listening"} /\ UNCHANGED group
                 /\ shuttingDown' = TRUE
              \/ Register
              \/ phase' = "killed" /\ UNCHANGED group
              \/ phase = "starting" /\ phase' = "failed" /\ UNCHANGED group
              \/ /\ phase = "starting" /\ group = 5 /\ phase' = "listening"
                 /\ UNCHANGED <<group, handlers, shuttingDown>>
              \/ phase = "listening" /\ phase' = "serving" /\ UNCHANGED <<group, shuttingDown>>
              \/ phase = "serving" /\ phase' = "draining" /\ shuttingDown' = TRUE /\ UNCHANGED group
              \/ /\ UNCHANGED <<group, handlers, shuttingDown>>
                 /\ \/ ServerClosed /\ phase = "draining" /\ phase' = "endingServerPools"
                    \/ ServerHookDone /\ phase = "endingServerPools" /\ phase' = "endingAppPools"
                    \/ AppHookDone /\ phase = "endingAppPools" /\ phase' = "closed"
                    \/ Exit /\ phase = "closed" /\ phase' = "exited"
<1>1. ASSUME NEW r \in Requests, RequestStep(r)
      PROVE  UNCHANGED <<config, phase, group, handlers, shuttingDown>>
  BY <1>1, RequestStepMeans DEF Moves
<1>2. CASE Register
  BY <1>2, RegisterMeans
<1>3. CASE Listen \/ ListenFails \/ InstallHandlers
  BY <1>3, ListenMeans
<1>4. ASSUME NEW s \in Signals, Signal(s)
      PROVE  /\ UNCHANGED <<config, group>>
             /\ \/ phase' = "killed"
                \/ /\ shuttingDown' = TRUE
                   /\ \/ phase' = phase /\ phase \notin {"starting", "listening"}
                      \/ phase = "serving" /\ phase' = "draining"
  BY <1>4, SignalMeans
<1>5. CASE ServerClosed \/ ServerHookDone \/ AppHookDone \/ Exit
  BY <1>5, ClosedMeans, ServerHookMeans, AppHookMeans, ExitMeans
<1>6. CASE UNCHANGED vars
  BY <1>6 DEF vars
<1>7. QED
  BY <1>1, <1>2, <1>3, <1>4, <1>5, <1>6, NextMeans

\* A pool is created with its group or by need, told to end by the hook that knows it, and
\* ends when it is waited for no more.
LEMMA PoolSteps ==
    ASSUME LifeInv, [Next]_vars, NEW p \in Pools
    PROVE  \/ pool'[p] = pool[p]
           \/ /\ Register /\ pool'[p] = "open"
              /\ p \in PoolsOf(Groups[group + 1]) /\ ~Misconfigured(Groups[group + 1])
           \/ \E r \in Requests : /\ StartQuery(r) /\ p \in Uses(work[r])
                                  /\ pool[p] \in {"absent", "open"} /\ pool'[p] = "open"
           \/ pool[p] = "ending" /\ pool'[p] = "ended"
           \/ /\ ServerClosed /\ p \in ServerPools
              /\ pool[p] = "open" /\ pool'[p] \in {"ending", "ended"}
           \/ /\ ServerHookDone /\ p \in AppPools
              /\ pool[p] = "open" /\ pool'[p] \in {"ending", "ended"}
<1>1. ASSUME NEW r \in Requests, RequestStep(r)
      PROVE  \/ pool'[p] = pool[p] \/ (pool[p] = "ending" /\ pool'[p] = "ended")
             \/ /\ StartQuery(r) /\ p \in Uses(work[r])
                /\ pool[p] \in {"absent", "open"} /\ pool'[p] = "open"
  <2>1. CASE StartQuery(r)
    BY <2>1, StartMeans
  <2>2. CASE FinishQuery(r) \/ RequestFails(r)
    BY <2>2, FinishMeans, FailMeans DEF Releases
  <2>3. CASE (\E route \in Served : Accept(r, route)) \/ Answer(r) \/ HangUp(r)
    BY <2>3, AcceptMeans, AnswerMeans, HangUpMeans
  <2>4. QED
    BY <1>1, <2>1, <2>2, <2>3 DEF RequestStep
<1>2. CASE Register
  BY <1>2, RegisterMeans
<1>3. CASE Listen \/ ListenFails \/ InstallHandlers \/ \E s \in Signals : Signal(s)
  BY <1>3, ListenMeans, SignalMeans
<1>4. CASE ServerClosed
  BY <1>4, ClosedMeans DEF Ends
<1>5. CASE ServerHookDone
  BY <1>5, ServerHookMeans DEF Ends
<1>6. CASE AppHookDone \/ Exit \/ UNCHANGED vars
  BY <1>6, AppHookMeans, ExitMeans DEF vars
<1>7. QED
  BY <1>1, <1>2, <1>3, <1>4, <1>5, <1>6, NextMeans

\* What a handler does depends on the configuration, which stays.
LEMMA HandlerStays == ASSUME UNCHANGED config PROVE \A route : Handler(route)' = Handler(route)
BY DEF Handler, AppHandler, DocumentHandler, ExtractionHandler, Storage

-----------------------------------------------------------------------------
(* Types and the life of the process.                                      *)

LEMMA TypedStep == LifeInv /\ [Next]_vars => Typed'
<1> SUFFICES ASSUME LifeInv, [Next]_vars PROVE Typed'
  OBVIOUS
<1>1. CASE UNCHANGED vars
  BY <1>1 DEF vars, LifeInv, Typed
<1>2. CASE \/ \E r \in Requests : RequestStep(r)
           \/ Register \/ Listen \/ ListenFails \/ InstallHandlers
  BY <1>2, RequestStepMeans, RegisterMeans, ListenMeans
<1>3. CASE \/ \E s \in Signals : Signal(s)
           \/ ServerClosed \/ ServerHookDone \/ AppHookDone \/ Exit
  BY <1>3, SignalMeans, ClosedMeans, ServerHookMeans, AppHookMeans, ExitMeans
<1>4. QED
  BY <1>1, <1>2, <1>3, NextMeans

LEMMA RequestMeansStep ==
    ASSUME LifeInv, [Next]_vars, NEW r \in Requests
    PROVE  RequestMeans(r)'
<1>1. RequestMeans(r) /\ \A route : Handler(route)' = Handler(route)
  BY PhaseSteps, HandlerStays DEF LifeInv
<1>2. Handler(asks[r])' = Handler(asks'[r])
  BY <1>1
<1>3. CASE Stays(r)
  BY <1>1, <1>2, <1>3 DEF Stays, RequestMeans, Uses
<1>4. CASE \E route \in Served : Accept(r, route)
  <2>1. pc'[r] = "handler" /\ asks'[r] \in Routes /\ work'[r] = Handler(asks'[r])
    BY <1>1, <1>4, AcceptMeans
  <2>2. Uses(work[r])' = Uses(Handler(asks[r]))'
    BY <1>2, <2>1 DEF Uses
  <2>3. QED
    BY <2>1, <2>2 DEF RequestMeans
<1>5. CASE StartQuery(r) \/ Answer(r) \/ RequestFails(r) \/ HangUp(r)
  <2>1. /\ asks'[r] = asks[r] /\ work'[r] = work[r] /\ pc[r] # "idle"
        /\ pc'[r] = "query" => work[r] # <<>>
    BY <1>1, <1>5, StartMeans, AnswerMeans, FailMeans, HangUpMeans DEF RequestMeans
  <2>2. Uses(work[r])' = Uses(work[r]) /\ Uses(Handler(asks[r]))' = Uses(Handler(asks[r]))
    BY <1>1, <1>2, <2>1 DEF Uses
  <2>3. QED
    BY <1>1, <2>1, <2>2 DEF RequestMeans
<1>6. CASE FinishQuery(r)
  <2>1. /\ asks'[r] = asks[r] /\ Uses(work'[r]) \subseteq Uses(work[r])
        /\ pc[r] = "query" /\ pc'[r] = "handler"
    BY <1>6, FinishMeans
  <2>2. Uses(Handler(asks[r]))' = Uses(Handler(asks[r]))
    BY <1>1, <1>2, <2>1 DEF Uses
  <2>3. Uses(work[r])' = Uses(work'[r])
    BY DEF Uses
  <2>4. QED
    BY <1>1, <2>1, <2>2, <2>3 DEF RequestMeans
<1>7. QED
  BY <1>3, <1>4, <1>5, <1>6, RequestSteps DEF RequestStep

LEMMA LifeStep == LifeInv /\ [Next]_vars => LifeInv'
<1> SUFFICES ASSUME LifeInv, [Next]_vars PROVE LifeInv'
  OBVIOUS
<1>1. Typed /\ Typed' /\ UNCHANGED config /\ \A r \in Requests : RequestMeans(r)'
  BY TypedStep, RequestMeansStep, PhaseSteps DEF LifeInv
<1>2. /\ phase' \in {"starting", "listening"} => handlers' = {}
      /\ phase' \in Settled => group' = 5
      /\ phase' \in Stopping => shuttingDown'
  <2>1. CASE Register
    BY <2>1, RegisterMeans DEF LifeInv, Settled, Stopping, Closing
  <2>2. CASE ~Register
    BY <2>2, PhaseSteps DEF LifeInv, Settled, Stopping, Closing
  <2>3. QED
    BY <2>1, <2>2
<1>3. ASSUME NEW p \in Pools, pool[p] # "absent" PROVE pool'[p] # "absent"
  BY <1>3, PoolSteps
<1>4. \A i \in 1..5 : PoolsOf(Groups[i]) \subseteq Pools /\ PoolsOf(Groups[i])' = PoolsOf(Groups[i])
  BY <1>1, GroupsAre, GroupPools, PoolsAre DEF PoolsOf
<1>5. /\ \A i \in 1..group' : \A p \in PoolsOf(Groups[i])' : pool'[p] # "absent"
      /\ group' >= 4 => config.storage # "invalid"
  <2>1. CASE group' = group
    BY <1>1, <1>3, <1>4, <2>1 DEF LifeInv, Typed
  <2>2. CASE group' # group
    <3>1. Register
      BY <2>2, PhaseSteps
    <3>2. /\ group \in 0..4 /\ group' = group + 1 /\ ~Misconfigured(Groups[group + 1])
          /\ \A p \in Pools : p \in PoolsOf(Groups[group + 1]) => pool'[p] = "open"
      BY <2>2, <3>1, RegisterMeans
    <3>3. group' = 4 => config.storage # "invalid"
      BY <3>2, GroupsAre DEF Misconfigured
    <3>4. group' > 4 => group >= 4
      BY <3>2
    <3>5. \A p \in PoolsOf(Groups[group + 1]) : pool'[p] # "absent"
      BY <1>4, <3>2
    <3>6. \A i \in 1..group' : i \in 1..group \/ i = group + 1
      BY <3>2
    <3>7. \A i \in 1..group' : \A p \in PoolsOf(Groups[i]) : pool'[p] # "absent"
      BY <1>3, <1>4, <3>2, <3>5, <3>6 DEF LifeInv
    <3>8. QED
      BY <1>4, <3>2, <3>3, <3>4, <3>7 DEF LifeInv
  <2>3. QED
    BY <2>1, <2>2
<1>6. config.storage # "valid" => pool'["uploadAttempt"] = "absent"
  <2> SUFFICES ASSUME config.storage # "valid", pool'["uploadAttempt"] # "absent" PROVE FALSE
    OBVIOUS
  <2>1. pool["uploadAttempt"] = "absent" /\ "uploadAttempt" \in Pools
        /\ "uploadAttempt" \notin ServerPools \cap AppPools
    BY PoolsAre DEF LifeInv
  <2>2. CASE \E r \in Requests : StartQuery(r) /\ "uploadAttempt" \in Uses(work[r])
    <3>1. PICK r \in Requests : StartQuery(r) /\ "uploadAttempt" \in Uses(work[r])
      BY <2>2
    <3>2. "uploadAttempt" \in Uses(Handler(asks[r]))
      BY <3>1, StartMeans DEF LifeInv, RequestMeans
    <3>3. QED
      BY <3>2, HandlerMeans DEF Uses
  <2>3. CASE /\ Register /\ "uploadAttempt" \in PoolsOf(Groups[group + 1])
             /\ ~Misconfigured(Groups[group + 1])
    <3>1. Groups[group + 1] = "documents" /\ config.storage # "absent"
      BY <2>3, RegisterMeans, GroupsAre, GroupPools
    <3>2. config.storage = "invalid"
      BY <1>1, <3>1 DEF Typed, Config
    <3>3. QED
      BY <2>3, <3>1, <3>2 DEF Misconfigured
  <2>4. QED
    BY <2>1, <2>2, <2>3, PoolSteps
<1>7. ASSUME NEW p \in Pools, pool'[p] \in {"ending", "ended"}
      PROVE  phase' \in Closing \cup {"killed"}
  <2>1. CASE pool[p] \in {"ending", "ended"}
    <3>1. phase \in Closing \cup {"killed"}
      BY <2>1 DEF LifeInv
    <3>2. ~Register
      BY <3>1, RegisterMeans DEF Closing
    <3>3. QED
      BY <3>1, <3>2, PhaseSteps DEF Closing
  <2>2. CASE pool[p] \notin {"ending", "ended"}
    <3>1. ServerClosed \/ ServerHookDone
      BY <1>7, <2>2, PoolSteps
    <3>2. QED
      BY <3>1, ClosedMeans, ServerHookMeans DEF Closing
  <2>3. QED
    BY <2>1, <2>2
<1>8. QED
  BY <1>1, <1>2, <1>5, <1>6, <1>7 DEF LifeInv

LEMMA LifeInvariant == Spec => []LifeInv
BY LifeInit, LifeStep, PTL DEF Spec

\* Every reachable state is well typed, and without storage there is no pool of upload
\* attempts (the composition in server.ts and the configuration it reads).
THEOREM TypeCorrect == Spec => []TypeOK
BY LifeInvariant, LifeTypes, PTL

-----------------------------------------------------------------------------
(* Whom the shutdown leaves without an answer.                             *)

\* When the server is closed, the clients of the requests that go on have hung up.
AbandonedInv ==
    /\ LifeInv /\ OnlyAbandonedAreCut
    /\ phase \in Closing => \A r \in InFlight : client[r] = "gone"

\* The server closes with such requests only and takes no new ones; a pool that was ended
\* is met after that.
LEMMA AbandonedStep == AbandonedInv /\ [Next]_vars => AbandonedInv'
<1> SUFFICES ASSUME AbandonedInv, [Next]_vars, NEW r \in Requests
             PROVE  /\ pc'[r] = "cut" => client'[r] = "gone"
                    /\ phase' \in Closing /\ pc'[r] \in {"handler", "query"} => client'[r] = "gone"
  BY LifeStep DEF AbandonedInv, OnlyAbandonedAreCut, InFlight
<1>1. /\ LifeInv /\ client[r] \in {"there", "gone"}
      /\ pc[r] = "cut" => client[r] = "gone"
      /\ phase \in Closing /\ pc[r] \in {"handler", "query"} => client[r] = "gone"
  BY DEF AbandonedInv, OnlyAbandonedAreCut, InFlight, LifeInv, Typed
<1>2. CASE Stays(r)
  <2>1. CASE ServerClosed
    BY <1>1, <1>2, <2>1, ClosedMeans DEF Stays, InFlight
  <2>2. CASE ~ServerClosed
    <3>1. phase' \in Closing => phase \in Closing
      BY <1>1, <2>2, PhaseSteps, RegisterMeans DEF Closing
    <3>2. QED
      BY <1>1, <1>2, <3>1 DEF Stays
  <2>3. QED
    BY <2>1, <2>2
<1>3. CASE RequestStep(r)
  <2>1. phase' = phase
    BY <1>1, <1>3, RequestStepMeans DEF Moves
  <2>2. CASE \E route \in Served : Accept(r, route)
    BY <1>1, <2>1, <2>2, AcceptMeans DEF Closing
  <2>3. CASE StartQuery(r)
    <3>1. /\ client'[r] = client[r] /\ pc[r] = "handler" /\ pc'[r] \in {"cut", "query"}
          /\ pc'[r] = "cut" => \E p \in Pools : pool[p] \in {"ending", "ended"}
          /\ phase \in Alive
      BY <1>1, <2>3, StartMeans
    <3>2. pc'[r] = "cut" => phase \in Closing
      BY <1>1, <3>1 DEF LifeInv, Alive
    <3>3. QED
      BY <1>1, <2>1, <3>1, <3>2
  <2>4. CASE FinishQuery(r) \/ Answer(r) \/ RequestFails(r) \/ HangUp(r)
    BY <1>1, <2>1, <2>4, FinishMeans, AnswerMeans, FailMeans, HangUpMeans
  <2>5. QED
    BY <1>3, <2>2, <2>3, <2>4 DEF RequestStep
<1>4. QED
  BY <1>1, <1>2, <1>3, RequestSteps

LEMMA AbandonedInit == Init => AbandonedInv
BY LifeInit DEF Init, AbandonedInv, OnlyAbandonedAreCut, Closing

\* A graceful shutdown takes the pools away only from handlers whose client has hung up
\* (shutdown, and the order in which Fastify closes the server and runs the hooks).
THEOREM AbandonedAreCut == Spec => []OnlyAbandonedAreCut
<1>1. AbandonedInv => OnlyAbandonedAreCut
  BY DEF AbandonedInv
<1>2. QED
  BY <1>1, AbandonedInit, AbandonedStep, PTL DEF Spec

-----------------------------------------------------------------------------
(* What is left of the pools.                                              *)

\* When the process has listened, the only pool of server.ts it may not have is that of
\* attempts, and then no handler uses it.
LEMMA AbsentPools ==
    ASSUME LifeInv, phase \in Settled, NEW p \in ServerPools, pool[p] = "absent",
           NEW r \in Requests, pc[r] # "idle"
    PROVE  p \notin Uses(work[r])
<1>1. group = 5 /\ config.storage # "invalid" /\ config \in Config
  BY DEF LifeInv, Typed
<1>2. \A i \in 1..5 : p \notin PoolsOf(Groups[i])
  BY <1>1 DEF LifeInv
<1>3. p = "uploadAttempt" /\ config.storage = "absent"
  BY <1>2, GroupPools
<1>4. Uses(work[r]) \subseteq Uses(Handler(asks[r]))
  BY DEF LifeInv, RequestMeans
<1>5. QED
  BY <1>3, <1>4, HandlerMeans DEF Uses

\* Those who may have created a pool after the hook are those whose handlers use it.
LEMMA LateMeans ==
    ASSUME NEW p
    PROVE  LateCreators(p) = {r \in Requests : client[r] = "gone" /\ asks[r] # Free
                                               /\ p \in Uses(Handler(asks[r]))}
BY DEF LateCreators, Uses

\* The hook of server.ts leaves nothing open, that of app.ts what is created later.
Afterwards == {"endingAppPools", "closed", "exited"}
LeftInv ==
    /\ AbandonedInv
    /\ phase \in Closing => \A p \in ServerPools : pool[p] # "open"
    /\ phase \in Afterwards => /\ \A p \in ServerPools : pool[p] # "ending"
                               /\ \A p \in AppPools : pool[p] = "open" => LateCreators(p) # {}
    /\ phase \in {"closed", "exited"} => \A p \in AppPools : pool[p] # "ending"

\* One who may have created a pool stays one.
LEMMA LateStays ==
    ASSUME LifeInv, [Next]_vars, phase \in Closing, NEW p, LateCreators(p) # {}
    PROVE  LateCreators(p)' # {}
<1>1. PICK r \in Requests : client[r] = "gone" /\ asks[r] # Free /\ p \in Uses(Handler(asks[r]))
  BY LateMeans
<1>2. client'[r] = "gone" /\ asks'[r] = asks[r]
  <2>1. CASE Stays(r)
    BY <1>1, <2>1 DEF Stays
  <2>2. ~ \E route \in Served : Accept(r, route)
    BY AcceptMeans DEF Closing
  <2>3. CASE StartQuery(r) \/ FinishQuery(r) \/ Answer(r) \/ RequestFails(r) \/ HangUp(r)
    BY <1>1, <2>3, StartMeans, FinishMeans, AnswerMeans, FailMeans, HangUpMeans
  <2>4. QED
    BY <2>1, <2>2, <2>3, RequestSteps DEF RequestStep
<1>3. Handler(asks[r])' = Handler(asks[r])
  BY <1>2, PhaseSteps, HandlerStays
<1>4. p \in Uses(Handler(asks[r]))'
  BY <1>1, <1>3 DEF Uses
<1>5. r \in LateCreators(p)'
  BY <1>2, <1>1, <1>4 DEF LateCreators, Uses
<1>6. QED
  BY <1>5

\* After its hook a pool of app.ts is opened by a handler that uses it and was abandoned.
LEMMA LateOpening ==
    ASSUME AbandonedInv, [Next]_vars, phase \in Closing, NEW p \in Pools,
           NEW r \in Requests, StartQuery(r), p \in Uses(work[r])
    PROVE  LateCreators(p) # {}
<1>1. LifeInv /\ pc[r] = "handler"
  BY StartMeans DEF AbandonedInv
<1>2. client[r] = "gone"
  BY <1>1 DEF AbandonedInv, InFlight
<1>3. asks[r] # Free /\ p \in Uses(Handler(asks[r]))
  BY <1>1, RoutesAssumption DEF LifeInv, RequestMeans
<1>4. QED
  BY <1>2, <1>3, LateMeans

LEMMA LeftStep == LeftInv /\ [Next]_vars => LeftInv'
<1> SUFFICES ASSUME LeftInv, [Next]_vars PROVE LeftInv'
  OBVIOUS
<1>1. LifeInv /\ AbandonedInv /\ AbandonedInv'
  BY AbandonedStep DEF LeftInv, AbandonedInv
<1>2. ASSUME NEW p \in ServerPools, phase' \in Closing PROVE pool'[p] # "open"
  <2>1. p \in Pools /\ p \notin AppPools
    BY PoolsAre
  <2>2. CASE ServerClosed
    BY <1>1, <2>1, <2>2, ClosedMeans DEF Ends
  <2>3. CASE ~ServerClosed
    <3>1. phase \in Closing /\ phase \in Settled /\ ~Register
      BY <1>1, <1>2, <2>3, PhaseSteps, RegisterMeans DEF Closing, Settled, Stopping
    <3>2. pool[p] # "open"
      BY <3>1 DEF LeftInv
    <3>3. ASSUME NEW r \in Requests, StartQuery(r), p \in Uses(work[r]),
                 pool[p] \in {"absent", "open"}
          PROVE  FALSE
      <4>1. pc[r] = "handler" /\ pool[p] = "absent"
        BY <1>1, <3>2, <3>3, StartMeans
      <4>2. QED
        BY <1>1, <3>1, <3>3, <4>1, AbsentPools
    <3>4. QED
      BY <1>1, <2>1, <2>3, <3>1, <3>2, <3>3, PoolSteps
  <2>4. QED
    BY <2>2, <2>3
<1>3. ASSUME NEW p \in ServerPools, phase' \in Afterwards PROVE pool'[p] # "ending"
  <2>1. p \in Pools /\ p \notin AppPools
    BY PoolsAre
  <2>2. pool[p] # "ending" /\ ~ServerClosed
    <3>1. CASE ServerHookDone
      BY <1>1, <3>1, ServerHookMeans, ClosedMeans
    <3>2. CASE ~ServerHookDone
      <4>1. phase \in Afterwards
        BY <1>1, <1>3, <3>2, PhaseSteps, RegisterMeans DEF Afterwards
      <4>2. QED
        BY <1>1, <4>1, ClosedMeans DEF LeftInv, Afterwards
    <3>3. QED
      BY <3>1, <3>2
  <2>3. QED
    BY <1>1, <2>1, <2>2, PoolSteps
<1>4. ASSUME NEW p \in AppPools, phase' \in Afterwards, pool'[p] = "open"
      PROVE  LateCreators(p)' # {}
  <2>1. p \in Pools
    BY PoolsAre
  <2>2. ~ServerHookDone
    <3>1. SUFFICES ASSUME ServerHookDone PROVE FALSE
      OBVIOUS
    <3>2. Ends(AppPools)
      BY <1>1, <3>1, ServerHookMeans
    <3>3. pool[p] # "open"
      BY <1>4, <2>1, <3>2 DEF Ends
    <3>4. pool'[p] = pool[p]
      BY <2>1, <3>2, <3>3 DEF Ends
    <3>5. QED
      BY <1>4, <3>3, <3>4
  <2>3. phase \in Afterwards /\ phase \in Closing /\ ~Register
    BY <1>1, <1>4, <2>2, PhaseSteps, RegisterMeans DEF Afterwards, Closing
  <2>4. LateCreators(p) # {}
    <3>1. CASE pool[p] = "open"
      BY <2>3, <3>1 DEF LeftInv
    <3>2. CASE \E r \in Requests : StartQuery(r) /\ p \in Uses(work[r])
      BY <1>1, <2>1, <2>3, <3>2, LateOpening
    <3>3. QED
      BY <1>1, <1>4, <2>1, <2>3, <3>1, <3>2, PoolSteps
  <2>5. QED
    BY <1>1, <2>3, <2>4, LateStays
<1>5. ASSUME NEW p \in AppPools, phase' \in {"closed", "exited"} PROVE pool'[p] # "ending"
  <2>1. p \in Pools
    BY PoolsAre
  <2>2. pool[p] # "ending" /\ ~ServerClosed /\ ~ServerHookDone
    <3>1. CASE AppHookDone
      BY <1>1, <3>1, AppHookMeans, ClosedMeans, ServerHookMeans
    <3>2. CASE ~AppHookDone
      <4>1. phase \in {"closed", "exited"}
        BY <1>1, <1>5, <3>2, PhaseSteps, RegisterMeans
      <4>2. QED
        BY <1>1, <4>1, ClosedMeans, ServerHookMeans DEF LeftInv
    <3>3. QED
      BY <3>1, <3>2
  <2>3. QED
    BY <1>1, <2>1, <2>2, PoolSteps
<1>6. QED
  BY <1>1, <1>2, <1>3, <1>4, <1>5 DEF LeftInv

\* When the server is closed no pool is left open, in use or still ending, save a pool of
\* app.ts that an abandoned handler created after the hook had looked for it (the lists
\* of the two onClose hooks).
THEOREM PoolsAreAccountedFor == Spec => []PoolsAccountedFor
<1>1. Init => LeftInv
  BY AbandonedInit DEF Init, LeftInv, Closing, Afterwards
<1>2. LeftInv => PoolsAccountedFor
  <2> SUFFICES ASSUME LeftInv, phase \in {"closed", "exited"}, NEW p \in Pools,
                      pool[p] \notin {"absent", "ended"}
               PROVE  pool[p] = "open" /\ p \in LazyPools /\ LateCreators(p) # {}
    BY DEF PoolsAccountedFor
  <2>1. pool[p] \in {"open", "ending"} /\ phase \in Closing /\ phase \in Afterwards
    BY DEF LeftInv, AbandonedInv, LifeInv, Typed, Closing, Afterwards
  <2>2. p \in AppPools /\ p \in LazyPools
    BY <2>1, PoolsAre DEF LeftInv
  <2>3. QED
    BY <2>1, <2>2 DEF LeftInv
<1>3. QED
  BY <1>1, <1>2, LeftStep, PTL DEF Spec
=============================================================================
