-------------------------- MODULE WorkflowsProofs ---------------------------
(***************************************************************************)
(* Proofs about Workflows, for every set of requests, users, keys,         *)
(* payloads and edits, every bound on versions and every size of the pool. *)
(***************************************************************************)
EXTENDS Workflows, FunctionTheorems, FiniteSetTheorems, TLAPS

USE NullAssumption, RowAssumption, VersionAssumption

\* The values that stand for nothing are not values of what they stand in for.
LEMMA Nulls == /\ Nobody \notin Requests /\ Nobody \notin Payloads /\ Nobody \notin Keys
               /\ NoRow \notin Workflow /\ NoRow \notin KeyRow /\ NoRow \notin Call
OBVIOUS

-----------------------------------------------------------------------------
(* What the place of a request says.                                       *)

Creating == {"connect", "reserve", "insert"}
Patching == {"read", "update"}

\* A request has written nothing until it reaches its audit event, and a PATCH that
\* goes on to its update names a row that is there.
PlaceMeans ==
    \A r \in Requests :
        /\ pc[r] = "idle" => call[r] = NoRow /\ written[r] = 0
        /\ pc[r] # "idle" => call[r] \in Call
        /\ pc[r] # "done" => reply[r] = "none"
        /\ pc[r] \in Creating =>
              /\ call[r].key \in Keys /\ call[r].payload \in Payloads
              /\ call[r].flow = r /\ call[r].expectedVersion = 0
              /\ written[r] = 0
        /\ pc[r] \in Patching =>
              /\ call[r].key = Nobody
              /\ call[r].expectedVersion \in 1..(MaxVersion - 1)
              /\ written[r] = 0
        /\ pc[r] = "update" => Exists(call[r].flow)
        /\ pc[r] = "audit" => written[r] > 0

\* A row was created by the request that names it, which is past its transaction.
RowsOfTheirCreator ==
    \A w \in Requests : Exists(w) =>
        /\ pc[w] \in {"audit", "done"}
        /\ call[w].key \in Keys /\ call[w].flow = w
        /\ written[w] = 1

StructInv == TypeOK /\ PlaceMeans /\ RowsOfTheirCreator

\* With no request and no row it holds.
LEMMA StructInit == Init => StructInv
BY DEF Init, StructInv, TypeOK, PlaceMeans, RowsOfTheirCreator, Exists, Creating, Patching,
       Steps, Replies

\* No step of a handler breaks it.
LEMMA StructStep == StructInv /\ [Next]_vars => StructInv'
<1> SUFFICES ASSUME StructInv, [Next]_vars PROVE StructInv'
  OBVIOUS
<1> USE DEF StructInv, TypeOK, PlaceMeans, RowsOfTheirCreator, Exists, Creating, Patching,
            Steps, Replies
<1>1. ASSUME NEW r \in Requests, NEW u \in Users, NEW k \in Keys, NEW p \in Payloads,
             CreateArrives(r, u, k, p)
      PROVE  StructInv'
  BY <1>1 DEF CreateArrives, Arrive, Goto, Call, tables
<1>2. ASSUME NEW r \in Requests, NEW u \in Users, NEW w \in Requests,
             NEW v \in 1..(MaxVersion - 1), NEW e \in Edits, PatchArrives(r, u, w, v, e)
      PROVE  StructInv'
  <2>1. e \in Edit
    BY EditsAssumption
  <2>2. QED
    BY <1>2, <2>1 DEF PatchArrives, Arrive, Goto, Call, tables, Edit
<1>3. ASSUME NEW r \in Requests, Connect(r) PROVE StructInv'
  BY <1>3 DEF Connect, Goto, tables
<1>4. ASSUME NEW r \in Requests, Reserve(r) PROVE StructInv'
  <2> DEFINE k == call[r].key
  <2>1. CASE /\ reserver' = [reserver EXCEPT ![k] = r]
             /\ Goto(r, "insert") /\ UNCHANGED call
    BY <1>4, <2>1 DEF Reserve, Goto
  <2>2. CASE /\ keys[k] # NoRow /\ call' = [call EXCEPT ![r].flow = keys[k].flow]
             /\ Answer(r, "replayed") /\ UNCHANGED reserver
    <3>1. keys[k].flow \in Requests
      BY <1>4, <2>2 DEF Reserve, KeyRow
    <3>2. call'[r] \in Call /\ \A q \in Requests \ {r} : call'[q] = call[q]
      BY <1>4, <2>2, <3>1 DEF Reserve, Call
    <3>3. ~Exists(r)
      BY <1>4 DEF Reserve
    <3>4. call' \in [Requests -> Call \cup {NoRow}]
      BY <1>4, <2>2, <3>2
    <3>5. /\ UNCHANGED <<flows, keys, reserver, audit, existing, written>>
          /\ pc[r] = "reserve" /\ pc' = [pc EXCEPT ![r] = "done"]
          /\ reply' = [reply EXCEPT ![r] = "replayed"]
      BY <1>4, <2>2 DEF Reserve, Answer
    <3>6. TypeOK'
      BY <3>4, <3>5
    <3>7. PlaceMeans'
      BY <3>2, <3>5
    <3>8. RowsOfTheirCreator'
      BY <3>2, <3>3, <3>5
    <3>9. QED
      BY <3>6, <3>7, <3>8
  <2>3. CASE Answer(r, "key_reused") /\ UNCHANGED <<call, reserver>>
    BY <1>4, <2>3 DEF Reserve, Answer
  <2>4. QED
    BY <1>4, <2>1, <2>2, <2>3 DEF Reserve
<1>5. ASSUME NEW r \in Requests, CommitCreation(r) PROVE StructInv'
  <2>1. call[r] \in Call /\ call[r].key \in Keys /\ call[r].payload \in Payloads
    BY <1>5 DEF CommitCreation
  <2>2. flows'[r] \in Workflow /\ \A q \in Requests \ {r} : flows'[q] = flows[q]
    BY <1>5, <2>1 DEF CommitCreation, Workflow, Status, Call
  <2>3. keys' \in [Keys -> KeyRow \cup {NoRow}]
    BY <1>5, <2>1 DEF CommitCreation, KeyRow
  <2>4. flows' \in [Requests -> Workflow \cup {NoRow}]
    BY <1>5, <2>2 DEF CommitCreation
  <2>5. QED
    BY <1>5, <2>1, <2>2, <2>3, <2>4 DEF CommitCreation, Goto
<1>6. ASSUME NEW r \in Requests, ReadExisting(r) PROVE StructInv'
  <2> DEFINE w == call[r].flow
  <2>1. w \in Requests
    BY <1>6 DEF ReadExisting, Call
  <2>2. CASE Exists(w) /\ existing' = [existing EXCEPT ![r] = flows[w]] /\ Goto(r, "update")
    BY <1>6, <2>1, <2>2 DEF ReadExisting, Goto, tables
  <2>3. CASE /\ UNCHANGED existing
             /\ \E a \in {"not_found", "forbidden", "conflict", "invalid_transition"} :
                    Answer(r, a)
    BY <1>6, <2>3 DEF ReadExisting, Answer, tables
  <2>4. QED
    BY <1>6, <2>2, <2>3 DEF ReadExisting
<1>7. ASSUME NEW r \in Requests, Update(r) PROVE StructInv'
  <2> DEFINE c == call[r]
             row == flows[c.flow]
  <2>1. c \in Call /\ c.flow \in Requests /\ row \in Workflow
    BY <1>7 DEF Update, Call
  <2>2. CASE /\ row.version = c.expectedVersion
             /\ flows' = [flows EXCEPT ![c.flow] = Patched(row, c)]
             /\ written' = [written EXCEPT ![r] = row.version + 1]
             /\ Goto(r, "audit")
    <3>1. row.version + 1 \in 1..MaxVersion
      BY <1>7, <2>2 DEF Update
    <3>2. Patched(row, c) \in Workflow
      BY <2>1, <3>1 DEF Patched, Workflow, Call
    <3>3. /\ flows' \in [Requests -> Workflow \cup {NoRow}]
          /\ \A q \in Requests : Exists(q)' <=> Exists(q)
      BY <2>1, <2>2, <3>2
    <3>4. ~Exists(r)
      BY <1>7 DEF Update
    <3>5. QED
      BY <1>7, <2>2, <3>1, <3>3, <3>4 DEF Update, Goto
  <2>3. CASE Answer(r, "conflict") /\ UNCHANGED <<flows, written>>
    BY <1>7, <2>3 DEF Update, Answer
  <2>4. QED
    BY <1>7, <2>2, <2>3 DEF Update
<1>8. ASSUME NEW r \in Requests, RecordAndAnswer(r) PROVE StructInv'
  <2>1. [request |-> r, flow |-> call[r].flow, version |-> written[r]] \in Event
    BY <1>8 DEF RecordAndAnswer, Event, Call
  <2>2. /\ UNCHANGED <<flows, keys, reserver, call, existing, written>>
        /\ pc[r] = "audit" /\ pc' = [pc EXCEPT ![r] = "done"]
        /\ \E answer \in Replies : reply' = [reply EXCEPT ![r] = answer]
    BY <1>8 DEF RecordAndAnswer, Answer, tables
  <2>3. audit' \subseteq Event
    BY <1>8, <2>1 DEF RecordAndAnswer
  <2>4. TypeOK'
    BY <2>2, <2>3
  <2>5. PlaceMeans' /\ RowsOfTheirCreator'
    BY <2>2
  <2>6. QED
    BY <2>4, <2>5
<1>9. ASSUME NEW r \in Requests, RequestFails(r) PROVE StructInv'
  BY <1>9 DEF RequestFails, Answer
<1>10. CASE UNCHANGED vars
  BY <1>10 DEF vars
<1> HIDE DEF StructInv, TypeOK, PlaceMeans, RowsOfTheirCreator, Exists, Creating, Patching,
             Steps, Replies
<1>11. QED
  BY <1>1, <1>2, <1>3, <1>4, <1>5, <1>6, <1>7, <1>8, <1>9, <1>10 DEF Next, Advance

\* What an update does: it replaces the version its client expects, or nothing.
LEMMA UpdateMeans ==
    ASSUME StructInv, NEW r \in Requests, Update(r)
    PROVE  LET w == call[r].flow IN
           /\ pc[r] = "update" /\ call[r].key = Nobody
           /\ w \in Requests /\ Exists(w) /\ written[r] = 0
           /\ UNCHANGED <<keys, reserver, audit, call>>
           /\ \A q \in Requests \ {r} :
                 pc'[q] = pc[q] /\ reply'[q] = reply[q] /\ written'[q] = written[q]
           /\ \/ /\ flows[w].version = call[r].expectedVersion
                 /\ call[r].status # Nobody => flows[w].status = existing[r].status
                 /\ Patched(flows[w], call[r]) \in Workflow
                 /\ flows'[w] = Patched(flows[w], call[r])
                 /\ \A x \in Requests \ {w} : flows'[x] = flows[x]
                 /\ written'[r] = flows[w].version + 1
                 /\ pc'[r] = "audit" /\ reply'[r] = "none"
              \/ /\ UNCHANGED <<flows, written>>
                 /\ pc'[r] = "done" /\ reply'[r] = "conflict"
<1> USE DEF StructInv, TypeOK, PlaceMeans, Exists, Creating, Patching
<1> DEFINE w == call[r].flow
<1>1. /\ call[r] \in Call /\ w \in Requests /\ flows[w] \in Workflow
      /\ pc[r] = "update" /\ reply[r] = "none"
  BY DEF Update, Call
<1>2. CASE /\ flows[w].version = call[r].expectedVersion
           /\ (call[r].status # Nobody => flows[w].status = existing[r].status)
           /\ flows' = [flows EXCEPT ![w] = Patched(flows[w], call[r])]
           /\ written' = [written EXCEPT ![r] = flows[w].version + 1]
           /\ Goto(r, "audit")
  <2>1. flows[w].version + 1 \in 1..MaxVersion
    BY <1>1, <1>2
  <2>2. Patched(flows[w], call[r]) \in Workflow
    BY <1>1, <2>1 DEF Patched, Workflow, Call
  <2>3. QED
    BY <1>1, <1>2, <2>2 DEF Update, Goto
<1>3. CASE Answer(r, "conflict") /\ UNCHANGED <<flows, written>>
  BY <1>1, <1>3 DEF Update, Answer
<1>4. QED
  BY <1>2, <1>3 DEF Update

\* What is known of the places of the requests is so in every reachable state.
LEMMA StructInvariant == Spec => []StructInv
BY StructInit, StructStep, PTL DEF Spec

\* Every reachable state is well typed (the columns of workflows and
\* workflow_idempotency_keys, and the steps of their handlers).
THEOREM TypeCorrect == Spec => []TypeOK
<1>1. StructInv => TypeOK
  BY DEF StructInv
<1>2. QED
  BY <1>1, StructInvariant, PTL

-----------------------------------------------------------------------------
(* Keys and the workflows created under them.                              *)

\* A key and its workflow name each other; who inserts holds its key alone; and
\* what was answered for a key is what the key has.
KeysMatchFlows ==
    /\ \A k \in Keys : keys[k] # NoRow =>
          Exists(keys[k].flow) /\ call[keys[k].flow].key = k
    /\ \A w \in Requests : Exists(w) =>
          /\ keys[call[w].key] # NoRow
          /\ keys[call[w].key] = [payload |-> call[w].payload, flow |-> w]
    /\ \A r \in Requests :
          /\ pc[r] = "insert" => reserver[call[r].key] = r /\ keys[call[r].key] = NoRow
          /\ pc[r] = "audit" /\ call[r].key # Nobody => Exists(r)
          /\ reply[r] \in {"created", "replayed"} =>
                /\ call[r].key \in Keys /\ keys[call[r].key] # NoRow
                /\ keys[call[r].key] = [payload |-> call[r].payload, flow |-> call[r].flow]
                /\ reply[r] = "created" <=> call[r].flow = r

KeysInv == StructInv /\ KeysMatchFlows

\* Who inserts holds the reservation of its key, which nobody has yet.
LEMMA InsertersHoldKeys ==
    ASSUME KeysInv, NEW r \in Requests, pc[r] = "insert"
    PROVE  /\ call[r].key \in Keys /\ reserver[call[r].key] = r
           /\ keys[call[r].key] = NoRow
BY DEF KeysInv, KeysMatchFlows, StructInv, PlaceMeans, Creating

\* A workflow is named by the key it was created under.
LEMMA WorkflowsHaveKeys ==
    ASSUME KeysInv, NEW w \in Requests, Exists(w)
    PROVE  /\ call[w].key \in Keys /\ keys[call[w].key] # NoRow
           /\ keys[call[w].key].flow = w
<1>1. /\ call[w].key \in Keys /\ keys[call[w].key] # NoRow
      /\ keys[call[w].key] = [payload |-> call[w].payload, flow |-> w]
  BY DEF KeysInv, KeysMatchFlows, StructInv, RowsOfTheirCreator
<1>2. QED
  BY <1>1

\* Who records a creation has created its workflow.
LEMMA CreatorsHaveRows ==
    ASSUME KeysInv, NEW r \in Requests, pc[r] = "audit", call[r].key # Nobody
    PROVE  Exists(r)
BY DEF KeysInv, KeysMatchFlows

\* The transaction of a creation is the only step that touches a key, and it takes
\* one that nobody has (createIdempotent).
LEMMA KeysStep == KeysInv /\ [Next]_vars => KeysMatchFlows'
<1> SUFFICES ASSUME KeysInv, [Next]_vars PROVE KeysMatchFlows'
  OBVIOUS
<1> USE DEF KeysInv, StructInv, TypeOK, PlaceMeans, RowsOfTheirCreator, Exists, Creating,
            Patching, KeysMatchFlows
<1>1. ASSUME NEW r \in Requests, NEW u \in Users, NEW k \in Keys, NEW p \in Payloads,
             CreateArrives(r, u, k, p)
      PROVE  KeysMatchFlows'
  BY <1>1 DEF CreateArrives, Arrive, Goto, tables, KeyRow
<1>2. ASSUME NEW r \in Requests, NEW u \in Users, NEW w \in Requests,
             NEW v \in 1..(MaxVersion - 1), NEW e \in Edits, PatchArrives(r, u, w, v, e)
      PROVE  KeysMatchFlows'
  BY <1>2 DEF PatchArrives, Arrive, Goto, tables, KeyRow
<1>3. ASSUME NEW r \in Requests, Connect(r) PROVE KeysMatchFlows'
  BY <1>3 DEF Connect, Goto, tables, KeyRow
<1>4. ASSUME NEW r \in Requests, Reserve(r) PROVE KeysMatchFlows'
  <2> DEFINE k == call[r].key
  <2>0. k \in Keys /\ ~Exists(r) /\ pc[r] = "reserve"
    BY <1>4 DEF Reserve
  <2>1. CASE /\ keys[k] = NoRow /\ reserver' = [reserver EXCEPT ![k] = r]
             /\ Goto(r, "insert") /\ UNCHANGED call
    <3>1. \A q \in Requests : pc[q] = "insert" => call[q].key # k
      <4>1. reserver[k] = Nobody
        BY <1>4, <2>1 DEF Reserve
      <4>2. QED
        BY <4>1, InsertersHoldKeys, Nulls
    <3>2. QED
      BY <1>4, <2>0, <2>1, <3>1 DEF Reserve, Goto, KeyRow
  <2>2. CASE /\ keys[k] # NoRow /\ keys[k].payload = call[r].payload
             /\ call' = [call EXCEPT ![r].flow = keys[k].flow]
             /\ Answer(r, "replayed") /\ UNCHANGED reserver
    <3>1. /\ call'[r].key = k /\ call'[r].payload = call[r].payload
          /\ call'[r].flow = keys[k].flow
          /\ \A q \in Requests \ {r} : call'[q] = call[q]
      <4>1. call[r] \in Call
        BY <2>0
      <4>2. QED
        BY <2>2, <4>1 DEF Call
    <3>2. keys[k] \in KeyRow /\ keys[k].flow # r
      BY <2>0, <2>2
    <3>3. keys[k] = [payload |-> keys[k].payload, flow |-> keys[k].flow]
      BY <3>2 DEF KeyRow
    <3>4. /\ UNCHANGED <<flows, keys, reserver>>
          /\ pc'[r] = "done" /\ reply'[r] = "replayed"
          /\ \A q \in Requests \ {r} : pc'[q] = pc[q] /\ reply'[q] = reply[q]
      BY <1>4, <2>2 DEF Reserve, Answer
    <3>5. /\ KeysMatchFlows
          /\ \A x \in Keys : keys[x] # NoRow => keys[x].flow \in Requests
          /\ \A q \in Requests : Exists(q)' <=> Exists(q)
      BY <3>4 DEF KeyRow
    <3> HIDE DEF KeysInv, StructInv, TypeOK, PlaceMeans, RowsOfTheirCreator, KeysMatchFlows,
                 Exists, Creating, Patching
    <3>6. \A w \in Requests : Exists(w)' => w # r /\ Exists(w) /\ call'[w] = call[w]
      BY <2>0, <3>1, <3>5
    <3>7. ASSUME NEW x \in Keys, keys'[x] # NoRow
          PROVE  flows'[keys'[x].flow] # NoRow /\ call'[keys'[x].flow].key = x
      <4> DEFINE w == keys[x].flow
      <4>1. w \in Requests /\ Exists(w) /\ call[w].key = x
        BY <3>4, <3>5, <3>7 DEF KeysMatchFlows
      <4>2. flows' = flows /\ keys' = keys /\ call'[w] = call[w]
        BY <2>0, <3>1, <3>4, <4>1
      <4>3. QED
        BY <4>1, <4>2 DEF Exists
    <3>8. \A w \in Requests : Exists(w)' =>
              /\ keys'[call'[w].key] # NoRow
              /\ keys'[call'[w].key] = [payload |-> call'[w].payload, flow |-> w]
      BY <3>4, <3>5, <3>6 DEF KeysMatchFlows
    <3>9. ASSUME NEW q \in Requests
          PROVE  /\ pc'[q] = "insert" =>
                       reserver'[call'[q].key] = q /\ keys'[call'[q].key] = NoRow
                 /\ pc'[q] = "audit" /\ call'[q].key # Nobody => Exists(q)'
                 /\ reply'[q] \in {"created", "replayed"} =>
                       /\ call'[q].key \in Keys /\ keys'[call'[q].key] # NoRow
                       /\ keys'[call'[q].key] = [payload |-> call'[q].payload,
                                                flow |-> call'[q].flow]
                       /\ reply'[q] = "created" <=> call'[q].flow = q
      <4>1. CASE q = r
        BY <2>0, <2>2, <3>1, <3>2, <3>3, <3>4, <4>1
      <4>2. CASE q # r
        BY <3>1, <3>4, <3>5, <4>2 DEF KeysMatchFlows
      <4>3. QED
        BY <4>1, <4>2
    <3>10. QED
      BY <3>7, <3>8, <3>9 DEF KeysMatchFlows, Exists
  <2>3. CASE Answer(r, "key_reused") /\ UNCHANGED <<call, reserver>>
    BY <1>4, <2>3 DEF Reserve, Answer, KeyRow
  <2>4. QED
    BY <1>4, <2>1, <2>2, <2>3 DEF Reserve
<1>5. ASSUME NEW r \in Requests, CommitCreation(r) PROVE KeysMatchFlows'
  <2> DEFINE k == call[r].key
  <2>1. /\ k \in Keys /\ call[r].flow = r /\ keys[k] = NoRow /\ reserver[k] = r
        /\ ~Exists(r) /\ pc[r] = "insert" /\ reply[r] = "none"
        /\ call[r] \in Call /\ call[r].payload \in Payloads
    BY <1>5 DEF CommitCreation
  <2>2. /\ Exists(r)' /\ \A q \in Requests \ {r} : flows'[q] = flows[q]
        /\ keys'[k] = [payload |-> call[r].payload, flow |-> r]
        /\ \A j \in Keys \ {k} : keys'[j] = keys[j] /\ reserver'[j] = reserver[j]
        /\ UNCHANGED <<call, reply>>
        /\ pc'[r] = "audit" /\ \A q \in Requests \ {r} : pc'[q] = pc[q]
    <3>1. [creator |-> call[r].user, payload |-> call[r].payload,
           status |-> "draft", version |-> 1] \in Workflow
      BY <2>1 DEF Workflow, Status, Call
    <3>2. Exists(r)' /\ \A q \in Requests \ {r} : flows'[q] = flows[q]
      BY <1>5, <3>1 DEF CommitCreation
    <3>3. /\ keys'[k] = [payload |-> call[r].payload, flow |-> r]
          /\ \A j \in Keys \ {k} : keys'[j] = keys[j] /\ reserver'[j] = reserver[j]
      BY <1>5, <2>1 DEF CommitCreation
    <3>4. QED
      BY <1>5, <3>2, <3>3 DEF CommitCreation, Goto
  <2>3. \A q \in Requests \ {r} : pc[q] = "insert" => call[q].key # k
    BY <2>1, InsertersHoldKeys
  <2>4. \A j \in Keys : keys[j] # NoRow => keys[j] \in KeyRow /\ j # k
    BY <2>1
  <2>5. keys'[k] # NoRow /\ keys'[k].flow = r
    <3>1. keys'[k] \in KeyRow
      BY <2>1, <2>2 DEF KeyRow
    <3>2. QED
      BY <2>2, <3>1, Nulls
  <2>6. \A j \in Keys : keys'[j] # NoRow =>
            Exists(keys[j].flow)' /\ call'[keys'[j].flow].key = j
    <3>1. \A j \in Keys \ {k} : keys[j] # NoRow => keys[j].flow \in Requests \ {r}
      BY <2>1, <2>4 DEF KeyRow
    <3>2. QED
      BY <2>1, <2>2, <2>5, <3>1
  <2>7. \A w \in Requests : Exists(w)' =>
          /\ keys'[call'[w].key] # NoRow
          /\ keys'[call'[w].key] = [payload |-> call'[w].payload, flow |-> w]
    <3>1. \A w \in Requests \ {r} : Exists(w) => call[w].key # k
      BY <2>1
    <3>2. QED
      BY <2>1, <2>2, <2>5, <3>1
  <2>8. \A q \in Requests :
          /\ pc'[q] = "insert" => reserver'[call'[q].key] = q /\ keys'[call'[q].key] = NoRow
          /\ pc'[q] = "audit" /\ call'[q].key # Nobody => Exists(q)'
    <3>1. \A q \in Requests \ {r} : pc[q] = "insert" =>
            /\ call[q].key \in Keys \ {k} /\ reserver[call[q].key] = q
            /\ keys[call[q].key] = NoRow
      BY <2>3, InsertersHoldKeys
    <3>2. \A q \in Requests : pc'[q] = "insert" =>
            reserver'[call'[q].key] = q /\ keys'[call'[q].key] = NoRow
      BY <2>2, <3>1
    <3>3. \A q \in Requests : pc'[q] = "audit" /\ call'[q].key # Nobody => Exists(q)'
      BY <2>2, CreatorsHaveRows
    <3>4. QED
      BY <3>2, <3>3
  <2>9. \A q \in Requests : reply'[q] \in {"created", "replayed"} =>
          /\ call'[q].key \in Keys /\ keys'[call'[q].key] # NoRow
          /\ keys'[call'[q].key] = [payload |-> call'[q].payload, flow |-> call'[q].flow]
          /\ reply'[q] = "created" <=> call'[q].flow = q
    <3>1. \A q \in Requests : reply[q] \in {"created", "replayed"} => call[q].key # k
      BY <2>1
    <3>2. QED
      BY <2>1, <2>2, <3>1
  <2>10. QED
    BY <2>6, <2>7, <2>8, <2>9
<1>6. ASSUME NEW r \in Requests, ReadExisting(r) PROVE KeysMatchFlows'
  <2>1. \/ Goto(r, "update")
        \/ \E a \in {"not_found", "forbidden", "conflict", "invalid_transition"} : Answer(r, a)
    BY <1>6 DEF ReadExisting
  <2>2. UNCHANGED <<flows, keys, reserver, call>> /\ pc[r] = "read"
    BY <1>6 DEF ReadExisting, tables
  <2>3. QED
    BY <2>1, <2>2 DEF Goto, Answer, KeyRow
<1>7. ASSUME NEW r \in Requests, Update(r) PROVE KeysMatchFlows'
  <2>1. /\ UNCHANGED <<keys, reserver, call>> /\ call[r].key = Nobody /\ pc[r] = "update"
        /\ \A q \in Requests : Exists(q)' <=> Exists(q)
        /\ pc'[r] \in {"audit", "done"} /\ reply'[r] \in {"none", "conflict"}
        /\ \A q \in Requests \ {r} : pc'[q] = pc[q] /\ reply'[q] = reply[q]
    BY <1>7, UpdateMeans
  <2>2. QED
    BY <2>1 DEF KeyRow
<1>8. ASSUME NEW r \in Requests, RecordAndAnswer(r) PROVE KeysMatchFlows'
  BY <1>8 DEF RecordAndAnswer, Answer, tables, KeyRow
<1>9. ASSUME NEW r \in Requests, RequestFails(r) PROVE KeysMatchFlows'
  BY <1>9 DEF RequestFails, Answer, KeyRow
<1>10. CASE UNCHANGED vars
  BY <1>10 DEF vars
<1> HIDE DEF KeysInv, StructInv, TypeOK, PlaceMeans, RowsOfTheirCreator, Exists, Creating,
             Patching, KeysMatchFlows
<1>11. QED
  BY <1>1, <1>2, <1>3, <1>4, <1>5, <1>6, <1>7, <1>8, <1>9, <1>10 DEF Next, Advance

\* Keys and workflows name each other in every reachable state.
LEMMA KeysInvariant == Spec => []KeysInv
<1>1. Init => KeysInv
  <2>1. Init => StructInv
    BY StructInit
  <2>2. Init => KeysMatchFlows
    BY DEF Init, KeysMatchFlows, Exists
  <2>3. QED
    BY <2>1, <2>2 DEF KeysInv
<1>2. KeysInv /\ [Next]_vars => KeysInv'
  BY StructStep, KeysStep DEF KeysInv
<1>3. QED
  BY <1>1, <1>2, PTL DEF Spec

\* Retries and races of a creation open one workflow, and every request answered for a
\* key got the workflow of that key (createIdempotent).
THEOREM OneFlow == Spec => []OneFlowPerKey
<1>1. KeysInv => OneFlowPerKey
  <2> SUFFICES ASSUME KeysInv PROVE OneFlowPerKey
    OBVIOUS
  <2> USE DEF KeysInv, KeysMatchFlows, StructInv, TypeOK, PlaceMeans, RowsOfTheirCreator
  <2>1. ASSUME NEW w \in Requests, Exists(w)
        PROVE  \E k \in Keys : \A j \in Keys : (keys[j] # NoRow /\ keys[j].flow = w) <=> j = k
    <3>1. call[w].key \in Keys /\ keys[call[w].key] # NoRow /\ keys[call[w].key].flow = w
      BY <2>1, WorkflowsHaveKeys
    <3>2. \A j \in Keys : keys[j] # NoRow /\ keys[j].flow = w => j = call[w].key
      BY <2>1
    <3>3. QED
      BY <3>1, <3>2
  <2>2. ASSUME NEW r \in Requests, reply[r] \in {"created", "replayed"}
        PROVE  /\ keys[call[r].key] = [payload |-> call[r].payload, flow |-> call[r].flow]
               /\ Exists(call[r].flow)
               /\ reply[r] = "created" <=> call[r].flow = r
    <3>1. /\ call[r].key \in Keys /\ keys[call[r].key] # NoRow
          /\ keys[call[r].key] = [payload |-> call[r].payload, flow |-> call[r].flow]
          /\ reply[r] = "created" <=> call[r].flow = r
      BY <2>2
    <3>2. Exists(call[r].flow)
      BY <3>1
    <3>3. QED
      BY <3>1, <3>2
  <2>3. QED
    BY <2>1, <2>2 DEF OneFlowPerKey
<1>2. QED
  BY <1>1, KeysInvariant, PTL

-----------------------------------------------------------------------------
(* The versions of a workflow and the requests that wrote them.            *)

\* Every version of a workflow was written by one request, which had been made for
\* the version before.
VersionsHaveWriters ==
    /\ \A r \in Requests : written[r] > 0 =>
          /\ Exists(call[r].flow)
          /\ written[r] <= flows[call[r].flow].version
          /\ written[r] = call[r].expectedVersion + 1
    /\ \A r, q \in Requests :
          written[r] > 0 /\ written[q] = written[r] /\ call[q].flow = call[r].flow => q = r
    /\ \A w \in Requests : Exists(w) =>
          \A v \in 1..flows[w].version : \E r \in Requests : written[r] = v /\ call[r].flow = w

\* A step that writes no workflow leaves them as they are; a request may yet learn the
\* workflow it is about, as it has written nothing.
LEMMA VersionsFrame ==
    ASSUME StructInv, VersionsHaveWriters, UNCHANGED <<flows, written>>,
           \A q \in Requests : written[q] > 0 => call'[q] = call[q]
    PROVE  VersionsHaveWriters'
<1> USE DEF VersionsHaveWriters, Exists, StructInv, TypeOK
<1>1. \A r \in Requests : written'[r] > 0 =>
          /\ Exists(call[r].flow)'
          /\ written'[r] <= flows'[call'[r].flow].version
          /\ written'[r] = call'[r].expectedVersion + 1
  OBVIOUS
<1>2. \A r, q \in Requests :
          written'[r] > 0 /\ written'[q] = written'[r] /\ call'[q].flow = call'[r].flow => q = r
  OBVIOUS
<1>3. ASSUME NEW w \in Requests, Exists(w)', NEW v \in 1..flows'[w].version
      PROVE  \E r \in Requests : written'[r] = v /\ call'[r].flow = w
  <2>1. PICK r \in Requests : written[r] = v /\ call[r].flow = w
    BY <1>3
  <2>2. v > 0
    <3>1. flows[w] \in Workflow
      BY <1>3
    <3>2. QED
      BY <1>3, <3>1 DEF Workflow
  <2>3. QED
    BY <2>1, <2>2
<1>4. QED
  BY <1>1, <1>2, <1>3

\* The request that writes a workflow writes the version after the last.
LEMMA VersionsStep == StructInv /\ VersionsHaveWriters /\ [Next]_vars => VersionsHaveWriters'
<1> SUFFICES ASSUME StructInv, VersionsHaveWriters, [Next]_vars PROVE VersionsHaveWriters'
  OBVIOUS
<1> USE DEF StructInv, TypeOK, PlaceMeans, RowsOfTheirCreator, Exists, Creating, Patching
<1>1. ASSUME NEW r \in Requests, NEW u \in Users, NEW k \in Keys, NEW p \in Payloads,
             CreateArrives(r, u, k, p)
      PROVE  VersionsHaveWriters'
  BY <1>1, VersionsFrame DEF CreateArrives, Arrive, Goto, tables
<1>2. ASSUME NEW r \in Requests, NEW u \in Users, NEW w \in Requests,
             NEW v \in 1..(MaxVersion - 1), NEW e \in Edits, PatchArrives(r, u, w, v, e)
      PROVE  VersionsHaveWriters'
  BY <1>2, VersionsFrame DEF PatchArrives, Arrive, Goto, tables
<1>3. ASSUME NEW r \in Requests, Connect(r) PROVE VersionsHaveWriters'
  BY <1>3, VersionsFrame DEF Connect, tables
<1>4. ASSUME NEW r \in Requests, Reserve(r) PROVE VersionsHaveWriters'
  BY <1>4, VersionsFrame DEF Reserve
<1>6. ASSUME NEW r \in Requests, ReadExisting(r) PROVE VersionsHaveWriters'
  BY <1>6, VersionsFrame DEF ReadExisting, tables
<1>8. ASSUME NEW r \in Requests, RecordAndAnswer(r) PROVE VersionsHaveWriters'
  BY <1>8, VersionsFrame DEF RecordAndAnswer, tables
<1>9. ASSUME NEW r \in Requests, RequestFails(r) PROVE VersionsHaveWriters'
  BY <1>9, VersionsFrame DEF RequestFails
<1>10. CASE UNCHANGED vars
  BY <1>10, VersionsFrame DEF vars
<1>5. ASSUME NEW r \in Requests, CommitCreation(r) PROVE VersionsHaveWriters'
  <2>1. /\ call[r] \in Call /\ call[r].flow = r /\ call[r].expectedVersion = 0
        /\ ~Exists(r) /\ written[r] = 0
    BY <1>5 DEF CommitCreation
  <2>2. /\ flows'[r] \in Workflow /\ flows'[r].version = 1
        /\ \A w \in Requests \ {r} : flows'[w] = flows[w]
        /\ written'[r] = 1 /\ \A q \in Requests \ {r} : written'[q] = written[q]
        /\ UNCHANGED call
    BY <1>5, <2>1 DEF CommitCreation, Workflow, Status, Call
  <2>3. \A q \in Requests : written[q] > 0 => call[q].flow # r
    BY <2>1 DEF VersionsHaveWriters
  <2>4. \A q \in Requests : written'[q] > 0 =>
          /\ Exists(call[q].flow)'
          /\ written'[q] <= flows'[call'[q].flow].version
          /\ written'[q] = call'[q].expectedVersion + 1
    <3>1. \A q \in Requests \ {r} : call[q] \in Call /\ written[q] > 0 =>
            call[q].flow \in Requests \ {r}
      BY <2>3 DEF Call
    <3>2. \A q \in Requests \ {r} : written[q] > 0 => call[q] \in Call
      OBVIOUS
    <3>3. QED
      BY <2>1, <2>2, <3>1, <3>2 DEF VersionsHaveWriters
  <2>5. ASSUME NEW q1 \in Requests, NEW q2 \in Requests, written'[q1] > 0,
               written'[q2] = written'[q1], call'[q2].flow = call'[q1].flow
        PROVE  q2 = q1
    BY <2>1, <2>2, <2>3, <2>5 DEF VersionsHaveWriters
  <2>6. ASSUME NEW w \in Requests, Exists(w)', NEW v \in 1..flows'[w].version
        PROVE  \E q \in Requests : written'[q] = v /\ call'[q].flow = w
    <3>1. CASE w = r
      BY <2>1, <2>2, <2>6, <3>1
    <3>2. CASE w # r
      <4>1. flows'[w] = flows[w] /\ Exists(w) /\ flows[w] \in Workflow
        BY <2>2, <2>6, <3>2
      <4>2. PICK q \in Requests : written[q] = v /\ call[q].flow = w
        BY <2>6, <4>1 DEF VersionsHaveWriters
      <4>3. q # r
        BY <2>1, <3>2, <4>2
      <4>4. QED
        BY <2>2, <4>2, <4>3
    <3>3. QED
      BY <3>1, <3>2
  <2>7. QED
    BY <2>4, <2>5, <2>6 DEF VersionsHaveWriters
<1>7. ASSUME NEW r \in Requests, Update(r) PROVE VersionsHaveWriters'
  <2> DEFINE w == call[r].flow
             n == flows[w].version + 1
  <2>1. /\ w \in Requests /\ Exists(w) /\ written[r] = 0 /\ UNCHANGED call
        /\ flows[w] \in Workflow
    BY <1>7, UpdateMeans
  <2>2. CASE UNCHANGED <<flows, written>>
    BY <2>1, <2>2, VersionsFrame
  <2>3. CASE /\ flows[w].version = call[r].expectedVersion
             /\ Patched(flows[w], call[r]) \in Workflow
             /\ flows'[w] = Patched(flows[w], call[r])
             /\ \A x \in Requests \ {w} : flows'[x] = flows[x]
             /\ written'[r] = n
             /\ \A q \in Requests \ {r} : written'[q] = written[q]
    <3>1. flows[w].version \in Nat \ {0} /\ flows'[w].version = n /\ n > 0
      BY <2>1, <2>3 DEF Workflow, Patched
    <3>2. \A x \in Requests : Exists(x)' <=> Exists(x)
      BY <2>1, <2>3
    <3>3. \A q \in Requests : written[q] > 0 /\ call[q].flow = w => written[q] < n
      BY <2>1, <3>1 DEF VersionsHaveWriters
    <3>4. \A q \in Requests : written'[q] > 0 =>
            /\ Exists(call[q].flow)'
            /\ written'[q] <= flows'[call'[q].flow].version
            /\ written'[q] = call'[q].expectedVersion + 1
      <4>1. \A q \in Requests \ {r} : written[q] > 0 => call[q].flow \in Requests
        BY DEF Call
      <4>2. QED
        BY <2>1, <2>3, <3>1, <3>2, <3>3, <4>1 DEF VersionsHaveWriters
    <3>5. ASSUME NEW q1 \in Requests, NEW q2 \in Requests, written'[q1] > 0,
                 written'[q2] = written'[q1], call'[q2].flow = call'[q1].flow
          PROVE  q2 = q1
      BY <2>1, <2>3, <3>1, <3>3, <3>5 DEF VersionsHaveWriters
    <3>6. ASSUME NEW x \in Requests, Exists(x)', NEW v \in 1..flows'[x].version
          PROVE  \E q \in Requests : written'[q] = v /\ call'[q].flow = x
      <4>1. CASE x = w /\ v = n
        BY <2>1, <2>3, <4>1
      <4>2. CASE ~(x = w /\ v = n)
        <5>1. Exists(x) /\ flows[x] \in Workflow /\ v \in 1..flows[x].version
          BY <2>1, <2>3, <3>1, <3>2, <3>6, <4>2 DEF Workflow
        <5>2. PICK q \in Requests : written[q] = v /\ call[q].flow = x
          BY <5>1 DEF VersionsHaveWriters
        <5>3. q # r
          BY <2>1, <5>1, <5>2 DEF Workflow
        <5>4. QED
          BY <2>1, <2>3, <5>2, <5>3
      <4>3. QED
        BY <4>1, <4>2
    <3>7. QED
      BY <3>4, <3>5, <3>6 DEF VersionsHaveWriters
  <2>4. QED
    BY <1>7, <2>2, <2>3, UpdateMeans
<1> HIDE DEF StructInv, TypeOK, PlaceMeans, RowsOfTheirCreator, Exists, Creating, Patching
<1>11. QED
  BY <1>1, <1>2, <1>3, <1>4, <1>5, <1>6, <1>7, <1>8, <1>9, <1>10 DEF Next, Advance

\* So it is in every reachable state.
LEMMA VersionsInvariant == Spec => [](StructInv /\ VersionsHaveWriters)
<1>1. Init => StructInv /\ VersionsHaveWriters
  <2>1. Init => VersionsHaveWriters
    BY DEF Init, VersionsHaveWriters, Exists
  <2>2. QED
    BY <2>1, StructInit
<1>2. /\ StructInv /\ VersionsHaveWriters
      /\ [Next]_vars
      => (StructInv /\ VersionsHaveWriters)'
  BY StructStep, VersionsStep
<1>3. QED
  BY <1>1, <1>2, PTL DEF Spec

\* The writers of a workflow are as many as its versions, one for each.
LEMMA OneWriterPerVersion ==
    ASSUME StructInv, VersionsHaveWriters, NEW w \in Requests, Exists(w)
    PROVE  /\ {written[r] : r \in Writers(w)} = 1..flows[w].version
           /\ Cardinality(Writers(w)) = flows[w].version
<1> DEFINE n == flows[w].version
           W == Writers(w)
           f == [r \in W |-> written[r]]
<1>1. n \in Nat \ {0}
  BY DEF StructInv, TypeOK, Exists, Workflow
<1>2. \A r \in W : written[r] \in 1..n
  BY <1>1 DEF Writers, VersionsHaveWriters, StructInv, TypeOK
<1>3. \A v \in 1..n : \E r \in W : written[r] = v
  <2>1. SUFFICES ASSUME NEW v \in 1..n PROVE \E r \in W : written[r] = v
    OBVIOUS
  <2>2. PICK r \in Requests : written[r] = v /\ call[r].flow = w
    BY DEF VersionsHaveWriters
  <2>3. v > 0
    BY <1>1
  <2>4. QED
    BY <2>2, <2>3 DEF Writers
<1>4. \A r, q \in W : written[r] = written[q] => r = q
  BY DEF Writers, VersionsHaveWriters
<1>5. {written[r] : r \in W} = 1..n
  BY <1>2, <1>3
<1>6. f \in Bijection(W, 1..n)
  <2>1. f \in [W -> 1..n]
    BY <1>2
  <2>2. \A r, q \in W : f[r] = f[q] => r = q
    BY <1>4
  <2>3. \A v \in 1..n : \E r \in W : f[r] = v
    BY <1>3
  <2>4. QED
    BY <2>1, <2>2, <2>3, Fun_IsBij
<1>7. ExistsBijection(1..n, W)
  BY <1>6, Fun_ExistsBijSymmetric DEF ExistsBijection
<1>8. Cardinality(W) = n
  BY <1>1, <1>7, FS_CountingElements
<1>9. QED
  BY <1>5, <1>8

\* No update is lost: every writer of a workflow replaced the version its client had
\* seen, and each version has one writer (update's predicate on version).
THEOREM UpdatesKept == Spec => []NoLostUpdate
<1>1. StructInv /\ VersionsHaveWriters => NoLostUpdate
  <2> SUFFICES ASSUME StructInv, VersionsHaveWriters, NEW w \in Requests
               PROVE  /\ Writers(w) # {} <=> Exists(w)
                      /\ Exists(w) => /\ {written[r] : r \in Writers(w)} = 1..flows[w].version
                                      /\ Cardinality(Writers(w)) = flows[w].version
                      /\ \A r \in Writers(w) : written[r] = call[r].expectedVersion + 1
    BY DEF NoLostUpdate
  <2>1. Writers(w) # {} => Exists(w)
    BY DEF Writers, VersionsHaveWriters
  <2>2. Exists(w) => Writers(w) # {}
    BY DEF Writers, StructInv, RowsOfTheirCreator
  <2>3. \A r \in Writers(w) : written[r] = call[r].expectedVersion + 1
    BY DEF Writers, VersionsHaveWriters
  <2>4. QED
    BY <2>1, <2>2, <2>3, OneWriterPerVersion
<1>2. QED
  BY <1>1, VersionsInvariant, PTL

-----------------------------------------------------------------------------
(* Audit events and the versions they name.                                *)

\* An event names what its request, which is done, has written; and a request that
\* has written is recorded, is about to be, or failed.
EventsMatchWrites ==
    /\ \A e \in audit : pc[e.request] = "done" /\ written[e.request] = e.version
                        /\ call[e.request].flow = e.flow
    /\ \A r \in Requests : written[r] > 0 =>
        \/ \E e \in audit : e.request = r /\ e.flow = call[r].flow /\ e.version = written[r]
        \/ pc[r] = "audit" \/ reply[r] = "error"

\* A request that has not written yet has no event, so the steps before the commit
\* leave the events as true as they were.
LEMMA EventsFrame ==
    ASSUME StructInv, EventsMatchWrites, UNCHANGED audit, NEW r \in Requests,
           pc[r] \in {"idle"} \cup Steps,
           \A q \in Requests \ {r} : pc'[q] = pc[q] /\ call'[q] = call[q]
                                     /\ written'[q] = written[q] /\ reply'[q] = reply[q],
           written'[r] = 0 \/ pc'[r] = "audit" \/ reply'[r] = "error"
    PROVE  EventsMatchWrites'
<1>1. \A e \in audit : e.request \in Requests \ {r}
  BY DEF EventsMatchWrites, StructInv, TypeOK, Event, Steps
<1>2. \A e \in audit : /\ pc'[e.request] = "done" /\ written'[e.request] = e.version
                       /\ call'[e.request].flow = e.flow
  BY <1>1 DEF EventsMatchWrites
<1>3. ASSUME NEW q \in Requests, written'[q] > 0
      PROVE  \/ \E e \in audit' : e.request = q /\ e.flow = call'[q].flow /\ e.version = written'[q]
             \/ pc'[q] = "audit" \/ reply'[q] = "error"
  BY <1>3 DEF EventsMatchWrites
<1>4. QED
  BY <1>2, <1>3 DEF EventsMatchWrites

\* An event is written of a commit that has happened (record, after create and update).
LEMMA EventsStep == StructInv /\ EventsMatchWrites /\ [Next]_vars => EventsMatchWrites'
<1> SUFFICES ASSUME StructInv, EventsMatchWrites, [Next]_vars PROVE EventsMatchWrites'
  OBVIOUS
<1> USE DEF StructInv, TypeOK, PlaceMeans, RowsOfTheirCreator, Exists, Creating, Patching,
            Steps
<1>1. ASSUME NEW r \in Requests, NEW u \in Users, NEW k \in Keys, NEW p \in Payloads,
             CreateArrives(r, u, k, p)
      PROVE  EventsMatchWrites'
  BY <1>1, EventsFrame DEF CreateArrives, Arrive, Goto
<1>2. ASSUME NEW r \in Requests, NEW u \in Users, NEW w \in Requests,
             NEW v \in 1..(MaxVersion - 1), NEW e \in Edits, PatchArrives(r, u, w, v, e)
      PROVE  EventsMatchWrites'
  BY <1>2, EventsFrame DEF PatchArrives, Arrive, Goto
<1>3. ASSUME NEW r \in Requests, Connect(r) PROVE EventsMatchWrites'
  BY <1>3, EventsFrame DEF Connect, Goto
<1>4. ASSUME NEW r \in Requests, Reserve(r) PROVE EventsMatchWrites'
  BY <1>4, EventsFrame DEF Reserve, Goto, Answer
<1>5. ASSUME NEW r \in Requests, CommitCreation(r) PROVE EventsMatchWrites'
  BY <1>5, EventsFrame DEF CommitCreation, Goto
<1>6. ASSUME NEW r \in Requests, ReadExisting(r) PROVE EventsMatchWrites'
  BY <1>6, EventsFrame DEF ReadExisting, Goto, Answer
<1>7. ASSUME NEW r \in Requests, Update(r) PROVE EventsMatchWrites'
  BY <1>7, UpdateMeans, EventsFrame
<1>8. ASSUME NEW r \in Requests, RecordAndAnswer(r) PROVE EventsMatchWrites'
  <2> DEFINE event == [request |-> r, flow |-> call[r].flow, version |-> written[r]]
  <2>1. /\ pc[r] = "audit" /\ audit' = audit \cup {event} /\ pc'[r] = "done"
        /\ UNCHANGED <<written, call>>
        /\ \A q \in Requests \ {r} : pc'[q] = pc[q] /\ reply'[q] = reply[q]
    BY <1>8 DEF RecordAndAnswer, Answer
  <2>2. \A e \in audit : e.request \in Requests \ {r}
    BY <2>1 DEF EventsMatchWrites, Event
  <2>3. ASSUME NEW e \in audit'
        PROVE  /\ pc'[e.request] = "done" /\ written'[e.request] = e.version
               /\ call'[e.request].flow = e.flow
    BY <2>1, <2>2 DEF EventsMatchWrites
  <2>4. ASSUME NEW q \in Requests, written'[q] > 0
        PROVE  \/ \E e \in audit' : e.request = q /\ e.flow = call'[q].flow
                                    /\ e.version = written'[q]
               \/ pc'[q] = "audit" \/ reply'[q] = "error"
    <3>1. CASE q = r
      <4>1. /\ event \in audit' /\ event.request = q /\ event.flow = call'[q].flow
            /\ event.version = written'[q]
        BY <2>1, <3>1
      <4>2. QED
        BY <4>1
    <3>2. CASE q # r
      BY <2>1, <2>4, <3>2 DEF EventsMatchWrites
    <3>3. QED
      BY <3>1, <3>2
  <2>5. QED
    BY <2>3, <2>4 DEF EventsMatchWrites
<1>9. ASSUME NEW r \in Requests, RequestFails(r) PROVE EventsMatchWrites'
  BY <1>9, EventsFrame DEF RequestFails, Answer
<1>10. CASE UNCHANGED vars
  BY <1>10 DEF vars, EventsMatchWrites
<1> HIDE DEF StructInv, TypeOK, PlaceMeans, RowsOfTheirCreator, Exists, Creating, Patching,
             Steps
<1>11. QED
  BY <1>1, <1>2, <1>3, <1>4, <1>5, <1>6, <1>7, <1>8, <1>9, <1>10 DEF Next, Advance

\* A version without an event is the work of a request that runs or failed, and no
\* event is without its version (the record that follows create and update).
THEOREM GapsAreFailures == Spec => []AuditGapsAreFailures
<1> DEFINE Inv == StructInv /\ VersionsHaveWriters /\ EventsMatchWrites
<1>1. Init => EventsMatchWrites
  BY DEF Init, EventsMatchWrites
<1>2. StructInv /\ EventsMatchWrites /\ [Next]_vars => EventsMatchWrites'
  BY EventsStep
<1>3. StructInv /\ VersionsHaveWriters /\ EventsMatchWrites => AuditGapsAreFailures
  BY DEF StructInv, TypeOK, Event, VersionsHaveWriters, EventsMatchWrites,
         AuditGapsAreFailures
<1>4. QED
  BY <1>1, <1>2, <1>3, VersionsInvariant, PTL DEF Spec

-----------------------------------------------------------------------------
(* The history of a workflow.                                              *)

\* The row a PATCH goes on with passed its checks, and its creator is the workflow's.
ExistingChecked ==
    \A r \in Requests : pc[r] = "update" =>
        /\ existing[r] \in Workflow
        /\ CanManage(call[r].user, existing[r])
        /\ existing[r].creator = flows[call[r].flow].creator
        /\ call[r].status # Nobody => CanTransition(existing[r].status, call[r].status)

\* No step gives a workflow another creator.
LEMMA CreatorStays ==
    ASSUME StructInv, [Next]_vars, NEW w \in Requests, Exists(w)
    PROVE  flows'[w].creator = flows[w].creator
<1> USE DEF StructInv, TypeOK
<1>1. CASE UNCHANGED flows
  BY <1>1
<1>2. ASSUME NEW r \in Requests, CommitCreation(r) PROVE flows'[w].creator = flows[w].creator
  BY <1>2 DEF CommitCreation, RowsOfTheirCreator
<1>3. ASSUME NEW r \in Requests, Update(r) PROVE flows'[w].creator = flows[w].creator
  <2> DEFINE x == call[r].flow
  <2>1. \/ flows' = flows
        \/ flows'[x] = Patched(flows[x], call[r]) /\ \A y \in Requests \ {x} : flows'[y] = flows[y]
    BY <1>3, UpdateMeans
  <2>2. CASE w = x /\ flows'[x] = Patched(flows[x], call[r])
    BY <2>2 DEF Patched
  <2>3. QED
    BY <2>1, <2>2
<1>4. QED
  BY <1>1, <1>2, <1>3 DEF Next, Advance, vars, CreateArrives, PatchArrives, Arrive, tables,
     Connect, Reserve, ReadExisting, RecordAndAnswer, RequestFails

\* A PATCH goes on to its update with the row and the call it has.
Carries(q) == pc[q] = "update" /\ existing'[q] = existing[q] /\ call'[q] = call[q]

\* A request is about to update because it has read the row just now, or it was already.
LEMMA UpdatersCarry ==
    ASSUME StructInv, [Next]_vars, NEW q \in Requests, pc'[q] = "update"
    PROVE  ReadExisting(q) \/ Carries(q)
<1> USE DEF StructInv, TypeOK, PlaceMeans, Goto, Answer, Arrive, Steps, Carries
<1>arrival. ASSUME NEW r \in Requests,
                   \/ \E u \in Users, k \in Keys, p \in Payloads : CreateArrives(r, u, k, p)
                   \/ \E u \in Users, w \in Requests, v \in 1..(MaxVersion - 1), e \in Edits :
                          PatchArrives(r, u, w, v, e)
            PROVE  Carries(q)
  BY <1>arrival DEF CreateArrives, PatchArrives
<1>creation. ASSUME NEW r \in Requests, Connect(r) \/ Reserve(r) \/ CommitCreation(r)
             PROVE  Carries(q)
  <2>1. CASE Connect(r)
    BY <2>1 DEF Connect
  <2>2. CASE Reserve(r)
    BY <2>2 DEF Reserve
  <2>3. QED
    BY <1>creation, <2>1, <2>2 DEF CommitCreation
<1>patch. ASSUME NEW r \in Requests, Update(r) \/ (ReadExisting(r) /\ q # r)
          PROVE  Carries(q)
  <2>1. CASE Update(r)
    BY <2>1 DEF Update
  <2>2. QED
    BY <1>patch, <2>1 DEF ReadExisting
<1>end. ASSUME NEW r \in Requests, RecordAndAnswer(r) \/ RequestFails(r)
        PROVE  Carries(q)
  BY <1>end DEF RecordAndAnswer, RequestFails
<1>stutter. UNCHANGED vars => Carries(q)
  BY DEF vars
<1> HIDE DEF StructInv, TypeOK, PlaceMeans, Goto, Answer, Arrive, Steps, Carries
<1> QED
  BY <1>arrival, <1>creation, <1>patch, <1>end, <1>stutter DEF Next, Advance

\* What was checked stays true of the row that was read, whatever happens in between.
LEMMA ExistingStep == StructInv /\ ExistingChecked /\ [Next]_vars => ExistingChecked'
<1> SUFFICES ASSUME StructInv, ExistingChecked, [Next]_vars,
                    NEW q \in Requests, pc'[q] = "update"
             PROVE  /\ existing'[q] \in Workflow
                    /\ CanManage(call'[q].user, existing'[q])
                    /\ existing'[q].creator = flows'[call'[q].flow].creator
                    /\ call'[q].status # Nobody =>
                          CanTransition(existing'[q].status, call'[q].status)
  BY DEF ExistingChecked, CanManage, CanTransition
<1> USE DEF StructInv, TypeOK, PlaceMeans
<1>1. CASE Carries(q)
  <2>1. call[q].flow \in Requests /\ Exists(call[q].flow)
    BY <1>1 DEF Carries, Call
  <2>2. flows'[call[q].flow].creator = flows[call[q].flow].creator
    BY <2>1, CreatorStays
  <2>3. QED
    BY <1>1, <2>2 DEF Carries, ExistingChecked
<1>2. CASE ReadExisting(q)
  <2>1. /\ call[q] \in Call /\ flows[call[q].flow] # NoRow /\ existing'[q] = flows[call[q].flow]
        /\ CanManage(call[q].user, flows[call[q].flow])
        /\ call[q].status # Nobody => CanTransition(flows[call[q].flow].status, call[q].status)
        /\ UNCHANGED <<flows, call>>
    BY <1>2 DEF ReadExisting, tables, Answer
  <2>2. flows[call[q].flow] \in Workflow
    BY <2>1 DEF Call
  <2>3. QED
    BY <2>1, <2>2
<1>3. QED
  BY <1>1, <1>2, UpdatersCarry

\* A workflow moves only along ALLOWED_STATUS_TRANSITIONS, from the status it has at
\* that moment, by its creator or a manager, one version at a time (the policy checks of
\* the handler, and update's predicate on the status that was read).
THEOREM HistoryIsLegal == Spec => LegalHistory
<1> DEFINE Legal(w) ==
        /\ CanTransition(flows[w].status, flows'[w].status)
        /\ flows'[w].creator = flows[w].creator
        /\ flows'[w].version = flows[w].version + 1
        /\ \E r \in Requests : written'[r] # written[r] /\ CanManage(call[r].user, flows[w])
<1>1. Init => ExistingChecked
  BY DEF Init, ExistingChecked
<1>2. StructInv /\ ExistingChecked /\ [Next]_vars => ExistingChecked'
  BY ExistingStep
<1>3. StructInv /\ ExistingChecked /\ [Next]_vars =>
        \A w \in Requests : Exists(w) /\ flows'[w] # flows[w] => Legal(w)
  <2> SUFFICES ASSUME StructInv, ExistingChecked, [Next]_vars,
                      NEW w \in Requests, Exists(w), flows'[w] # flows[w]
               PROVE  Legal(w)
    OBVIOUS
  <2>1. PICK r \in Requests : Update(r)
    <3>1. ASSUME NEW r \in Requests, CommitCreation(r) PROVE flows'[w] = flows[w]
      BY <3>1 DEF CommitCreation, StructInv, TypeOK, RowsOfTheirCreator
    <3>2. QED
      BY <3>1 DEF Next, Advance, vars, CreateArrives, PatchArrives, Arrive, tables, Connect,
         Reserve, ReadExisting, RecordAndAnswer, RequestFails
  <2>2. /\ w = call[r].flow /\ pc[r] = "update" /\ written[r] = 0
        /\ call[r].status # Nobody => flows[w].status = existing[r].status
        /\ flows'[w] = Patched(flows[w], call[r])
        /\ written'[r] = flows[w].version + 1
    BY <2>1, UpdateMeans
  <2>3. flows[w] \in Workflow
    BY DEF StructInv, TypeOK, Exists
  <2>4. CanTransition(flows[w].status, flows'[w].status)
    BY <2>2 DEF Patched, ExistingChecked, CanTransition
  <2>5. flows'[w].creator = flows[w].creator /\ flows'[w].version = flows[w].version + 1
    BY <2>2 DEF Patched
  <2>6. CanManage(call[r].user, flows[w])
    BY <2>2 DEF ExistingChecked, CanManage
  <2>7. written'[r] # written[r]
    BY <2>2, <2>3 DEF Workflow
  <2>8. QED
    BY <2>4, <2>5, <2>6, <2>7
<1>4. QED
  BY <1>1, <1>2, <1>3, StructInvariant, PTL DEF Spec, LegalHistory

-----------------------------------------------------------------------------
(* Workflows implement VersionedRows.                                      *)

\* The state of VersionedRows that a state of the tables and the requests stands for.
PromisedRows == [k \in Keys |-> IF keys[k] = NoRow THEN {} ELSE {keys[k].flow}]
PromisedVersion == [w \in Requests |-> IF Exists(w) THEN flows[w].version ELSE 0]
PromisedBasis == [r \in Requests |-> Basis(r)]
Promised == <<PromisedRows, PromisedVersion, PromisedBasis>>

\* A creation is made for no version, before and after.
LEMMA CreationsHaveNoBasis ==
    ASSUME KeysInv, NEW r \in Requests, pc[r] \in Creating
    PROVE  Basis(r) = NoRow
BY Nulls DEF KeysInv, StructInv, PlaceMeans, Basis

\* A step after which the tables and what each request is made for are as before is a
\* stutter.
LEMMA PromiseStutters ==
    ASSUME UNCHANGED <<flows, keys>>, \A q \in Requests : Basis(q)' = Basis(q)
    PROVE  UNCHANGED Promised
BY DEF Promised, PromisedRows, PromisedVersion, PromisedBasis, Exists

\* A request whose call and version stay is made for what it was.
LEMMA BasisStays ==
    ASSUME NEW q \in Requests, call'[q] = call[q], written'[q] = written[q]
    PROVE  Basis(q)' = Basis(q)
BY DEF Basis

\* The transaction that commits a creation is the one Create of its key.
LEMMA CommitCreates ==
    ASSUME KeysInv, NEW r \in Requests, CommitCreation(r)
    PROVE  Promise!Create(call[r].key, r)
<1> DEFINE k == call[r].key
<1>1. /\ pc[r] = "insert" /\ call[r] \in Call /\ k \in Keys /\ keys[k] = NoRow /\ ~Exists(r)
      /\ call[r].payload \in Payloads
  BY InsertersHoldKeys DEF CommitCreation, KeysInv, StructInv, PlaceMeans, RowsOfTheirCreator,
     Creating
<1>2. /\ flows'[r] \in Workflow /\ flows'[r].version = 1
      /\ \A w \in Requests \ {r} : flows'[w] = flows[w]
  BY <1>1 DEF CommitCreation, Workflow, Status, Call, KeysInv, StructInv, TypeOK
<1>3. /\ keys'[k] \in KeyRow /\ keys'[k].flow = r
      /\ \A j \in Keys \ {k} : keys'[j] = keys[j]
  BY <1>1 DEF CommitCreation, KeyRow, KeysInv, StructInv, TypeOK
<1>4. /\ PromisedVersion[r] = 0
      /\ PromisedVersion' = [PromisedVersion EXCEPT ![r] = 1]
  BY <1>1, <1>2, Nulls DEF PromisedVersion, Exists
<1>5. /\ PromisedRows[k] = {}
      /\ PromisedRows' = [PromisedRows EXCEPT ![k] = {r}]
  BY <1>1, <1>3, Nulls DEF PromisedRows
<1>6. UNCHANGED PromisedBasis
  <2>1. Basis(r) = NoRow /\ Basis(r)' = NoRow
    BY <1>1, CreationsHaveNoBasis DEF CommitCreation, Basis, Creating, KeysInv, StructInv, TypeOK
  <2>2. \A q \in Requests \ {r} : Basis(q)' = Basis(q)
    BY BasisStays DEF CommitCreation, KeysInv, StructInv, TypeOK
  <2>3. QED
    BY <2>1, <2>2 DEF PromisedBasis
<1>7. QED
  BY <1>4, <1>5, <1>6 DEF Promise!Create, PromisedVersion, PromisedRows, PromisedBasis

\* An arriving PATCH is made for the version it names.
LEMMA PatchAsks ==
    ASSUME KeysInv, NEW r \in Requests, NEW u \in Users, NEW w \in Requests,
           NEW v \in 1..(MaxVersion - 1), NEW e \in Edits, PatchArrives(r, u, w, v, e)
    PROVE  Promise!Ask(r)
<1> USE DEF KeysInv, StructInv, TypeOK
<1>1. call[r] = NoRow /\ written[r] = 0
  BY DEF PatchArrives, Arrive, PlaceMeans
<1>2. /\ call'[r] = [user |-> u, key |-> Nobody, payload |-> e.payload, flow |-> w,
                     status |-> e.status, expectedVersion |-> v]
      /\ \A q \in Requests \ {r} : call'[q] = call[q]
      /\ UNCHANGED <<flows, keys, written>>
  BY DEF PatchArrives, Arrive, tables
<1>3. call'[r] \in Call
  BY <1>2, EditsAssumption DEF Call, Edit
<1>4. Basis(r) = NoRow
  BY <1>1 DEF Basis
<1>5. Basis(r)' = <<w, v>>
  BY <1>1, <1>2, <1>3, Nulls DEF Basis
<1>6. \A q \in Requests \ {r} : Basis(q)' = Basis(q)
  BY <1>2, BasisStays
<1>7. PromisedBasis[r] = NoRow /\ PromisedBasis'[r] \in Requests \X Nat
  BY <1>4, <1>5 DEF PromisedBasis
<1>8. PromisedBasis' = [PromisedBasis EXCEPT ![r] = PromisedBasis'[r]]
  BY <1>6 DEF PromisedBasis
<1>9. UNCHANGED <<PromisedRows, PromisedVersion>>
  BY <1>2 DEF PromisedRows, PromisedVersion, Exists
<1>10. QED
  BY <1>7, <1>8, <1>9 DEF Promise!Ask, PromisedVersion, PromisedRows, PromisedBasis

\* An update replaces the version its client named, or it is a stutter.
LEMMA UpdateReplaces ==
    ASSUME KeysInv, NEW r \in Requests, Update(r)
    PROVE  Promise!Replace(r) \/ UNCHANGED Promised
<1> DEFINE w == call[r].flow
<1> USE DEF KeysInv, StructInv, TypeOK
<1>1. /\ pc[r] = "update" /\ call[r].key = Nobody /\ w \in Requests /\ Exists(w)
      /\ written[r] = 0 /\ UNCHANGED <<keys, call>>
  BY UpdateMeans
<1>2. call[r] \in Call
  BY <1>1 DEF PlaceMeans
<1>3. CASE /\ flows[w].version = call[r].expectedVersion
           /\ Patched(flows[w], call[r]) \in Workflow
           /\ flows'[w] = Patched(flows[w], call[r])
           /\ \A x \in Requests \ {w} : flows'[x] = flows[x]
           /\ written'[r] = flows[w].version + 1
           /\ \A q \in Requests \ {r} : written'[q] = written[q]
  <2>1. flows[w].version \in Nat \ {0}
    BY <1>1 DEF Workflow, Exists
  <2>2. flows'[w] # NoRow /\ flows'[w].version = flows[w].version + 1
    BY <1>3, Nulls DEF Patched
  <2>3. /\ PromisedVersion[w] = flows[w].version /\ PromisedVersion[w] > 0
        /\ PromisedVersion' = [PromisedVersion EXCEPT ![w] = PromisedVersion[w] + 1]
    BY <1>1, <1>3, <2>1, <2>2 DEF PromisedVersion, Exists
  <2>4. Basis(r) = <<w, flows[w].version>>
    BY <1>1, <1>2, <1>3, Nulls DEF Basis
  <2>5. Basis(r)' = NoRow
    BY <1>3, <2>1 DEF Basis
  <2>6. \A q \in Requests \ {r} : Basis(q)' = Basis(q)
    BY <1>1, <1>3, BasisStays
  <2>7. /\ PromisedBasis[r] = <<w, PromisedVersion[w]>>
        /\ PromisedBasis' = [PromisedBasis EXCEPT ![r] = NoRow]
    BY <2>3, <2>4, <2>5, <2>6 DEF PromisedBasis
  <2>8. UNCHANGED PromisedRows
    BY <1>1 DEF PromisedRows
  <2>9. Promise!Replace(r)
    BY <1>1, <2>3, <2>7, <2>8 DEF Promise!Replace, PromisedVersion, PromisedRows, PromisedBasis
  <2>10. QED
    BY <2>9
<1>4. CASE UNCHANGED <<flows, written>>
  BY <1>1, <1>4, BasisStays, PromiseStutters
<1>5. QED
  BY <1>3, <1>4, UpdateMeans

\* Workflows keep the promise of VersionedRows: a creation's commit is Create, an
\* arriving PATCH is Ask, an update that finds its version is Replace, and nothing else
\* shows (createIdempotent; the comparisons of expectedVersion in the handler and in update).
THEOREM PromiseKept == Spec => ImplementsPromise
<1>1. Init => Promise!Init
  BY DEF Init, Promise!Init, Exists, Basis
<1>2. KeysInv /\ [Next]_vars => Promise!Next \/ UNCHANGED Promised
  <2> SUFFICES ASSUME KeysInv, [Next]_vars PROVE Promise!Next \/ UNCHANGED Promised
    OBVIOUS
  <2> USE DEF KeysInv, StructInv, TypeOK, PlaceMeans
  <2>1. ASSUME NEW r \in Requests, NEW u \in Users, NEW k \in Keys, NEW p \in Payloads,
               CreateArrives(r, u, k, p)
        PROVE  UNCHANGED Promised
    <3>1. /\ call[r] = NoRow /\ UNCHANGED <<flows, keys, written>>
          /\ call'[r].key = k /\ \A q \in Requests \ {r} : call'[q] = call[q]
      BY <2>1 DEF CreateArrives, Arrive, tables
    <3>2. Basis(r) = NoRow /\ Basis(r)' = NoRow
      BY <3>1, Nulls DEF Basis
    <3>3. QED
      BY <3>1, <3>2, BasisStays, PromiseStutters
  <2>2. ASSUME NEW r \in Requests, NEW u \in Users, NEW w \in Requests,
               NEW v \in 1..(MaxVersion - 1), NEW e \in Edits, PatchArrives(r, u, w, v, e)
        PROVE  Promise!Next
    BY <2>2, PatchAsks DEF Promise!Next
  <2>3. ASSUME NEW r \in Requests, Reserve(r) PROVE UNCHANGED Promised
    <3>1. /\ UNCHANGED <<flows, keys, written>>
          /\ call'[r].key = call[r].key /\ \A q \in Requests \ {r} : call'[q] = call[q]
          /\ call[r].key \in Keys
      <4>1. call[r] \in Call /\ call[r].key \in Keys
        BY <2>3 DEF Reserve, Creating
      <4>2. CASE UNCHANGED call
        BY <2>3, <4>1, <4>2 DEF Reserve
      <4>3. CASE call' = [call EXCEPT ![r].flow = keys[call[r].key].flow]
        BY <2>3, <4>1, <4>3 DEF Reserve, Call
      <4>4. QED
        BY <2>3, <4>2, <4>3 DEF Reserve
    <3>2. Basis(r) = NoRow /\ Basis(r)' = NoRow
      BY <3>1, Nulls DEF Basis
    <3>3. QED
      BY <3>1, <3>2, BasisStays, PromiseStutters
  <2>4. ASSUME NEW r \in Requests, CommitCreation(r) PROVE Promise!Next
    <3>1. call[r].key \in Keys
      BY <2>4, InsertersHoldKeys DEF CommitCreation
    <3>2. QED
      BY <2>4, <3>1, CommitCreates DEF Promise!Next
  <2>5. ASSUME NEW r \in Requests, Update(r) PROVE Promise!Next \/ UNCHANGED Promised
    BY <2>5, UpdateReplaces DEF Promise!Next
  <2>6. CASE UNCHANGED <<flows, keys, call, written>>
    BY <2>6, BasisStays, PromiseStutters
  <2>7. QED
    BY <2>1, <2>2, <2>3, <2>4, <2>5, <2>6 DEF Next, Advance, vars, tables, Connect,
       ReadExisting, RecordAndAnswer, RequestFails
<1>3. QED
  BY <1>1, <1>2, KeysInvariant, PTL DEF Spec, ImplementsPromise, Promise!Spec, Promised,
     PromisedRows, PromisedVersion, PromisedBasis
=============================================================================
