---------------------------- MODULE SessionsProofs ----------------------------
(***************************************************************************)
(* Proofs about Sessions, for every set of requests, users, emails and     *)
(* passwords, every cap on sessions, every lifetime and every bound on     *)
(* time.                                                                   *)
(***************************************************************************)
EXTENDS Sessions, FiniteSetTheorems, TLAPS

\* The values that stand for nothing are not values of what they stand in for.
LEMMA Nulls ==
    /\ NoAccount \notin Account /\ NoSession \notin Session
    /\ Nobody \notin Requests /\ Nobody \notin Users
BY RowAssumption, NullAssumption

\* A row that is revoked is a row of the same user and time.
Revoked(row) == [row EXCEPT !.status = "revoked"]
LEMMA RevokedRow ==
    ASSUME NEW row \in Session
    PROVE  /\ Revoked(row) \in Session /\ Revoked(row) # NoSession
           /\ Revoked(row).user = row.user /\ Revoked(row).created = row.created
           /\ Revoked(row).status = "revoked"
<1>1. /\ Revoked(row) \in Session /\ Revoked(row).user = row.user
      /\ Revoked(row).created = row.created /\ Revoked(row).status = "revoked"
  BY DEF Revoked, Session
<1>2. QED
  BY <1>1, Nulls

-----------------------------------------------------------------------------
(* What the place of a request says.                                       *)

Revocations == {"logout", "revokeOwned", "revokeOthers"}

\* A login that has resolved its user has one with the email it was given.
Resolved(r) ==
    LET u == call[r].user IN
    u \in Users /\ account[u] \in Account /\ account[u].email = call[r].email

\* It holds the lock of the row that it has checked.
Holds(r) ==
    LET u == call[r].user IN
    /\ u \in Users /\ lock[u] = r
    /\ account[u].state = "enabled" /\ account[u].secret = call[r].secret

\* What a request does at its place, and what it has learnt by then.
PlaceMeans(r) ==
    /\ pc[r] = "begin" => call[r].kind \in {"register", "login"}
    /\ pc[r] = "insert" => call[r].kind = "register"
    /\ pc[r] \in {"candidate", "lock", "prune", "commit"} => call[r].kind = "login"
    /\ pc[r] \in {"auth", "select", "apply"} => call[r].kind \in Revocations
    /\ pc[r] # "done" => reply[r] = "none"
    /\ pc[r] # "idle" /\ call[r].kind \in Revocations =>
          call[r].token \in Committed /\ call[r].target \in Committed
    /\ pc[r] \in {"begin", "lock", "prune", "commit"} /\ call[r].kind = "login" => Resolved(r)
    /\ pc[r] \in {"prune", "commit"} => Holds(r)

\* A lock is held by a login between its check and its commit, a session was created by
\* a request that has committed, for a user with an account.
OwnersMean ==
    /\ \A u \in Users : lock[u] # Nobody =>
          pc[lock[u]] \in {"prune", "commit"} /\ call[lock[u]].user = u
    /\ \A s \in Requests : session[s] # NoSession =>
          pc[s] \in {"audit", "done"} /\ account[session[s].user] # NoAccount

Typed == TypeOK /\ call \in [Requests -> Call \cup {Nobody}]
StructInv ==
    /\ Typed /\ OwnersMean
    /\ \A r \in Requests : PlaceMeans(r) /\ began[r] <= clock

\* With no account and no request it holds.
LEMMA StructInit == Init => StructInv
BY BoundsAssumption
   DEF Init, StructInv, Typed, TypeOK, PlaceMeans, OwnersMean, Steps, Replies

-----------------------------------------------------------------------------
(* What the steps do.                                                      *)

\* No request moves but r.
Moves(r) ==
    \A q \in Requests \ {r} :
        /\ pc'[q] = pc[q] /\ call'[q] = call[q] /\ reply'[q] = reply[q]
        /\ began'[q] = began[q] /\ matched'[q] = matched[q] /\ before'[q] = before[q]

\* A request goes on, or it is answered.
LEMMA GotoMeans ==
    ASSUME Typed, NEW r \in Requests, NEW next \in Steps, Goto(r, next)
    PROVE  /\ pc'[r] = next /\ UNCHANGED reply
           /\ pc' \in [Requests -> {"idle", "done"} \cup Steps]
           /\ \A q \in Requests \ {r} : pc'[q] = pc[q]
BY DEF Typed, TypeOK, Goto
LEMMA AnswerMeans ==
    ASSUME Typed, NEW r \in Requests, NEW answer \in Replies, Answer(r, answer)
    PROVE  /\ pc'[r] = "done" /\ reply'[r] = answer
           /\ pc' \in [Requests -> {"idle", "done"} \cup Steps]
           /\ reply' \in [Requests -> Replies]
           /\ \A q \in Requests \ {r} : pc'[q] = pc[q] /\ reply'[q] = reply[q]
BY DEF Typed, TypeOK, Answer
LEMMA EndMeans ==
    ASSUME Typed, NEW r \in Requests, EndTransaction(r)
    PROVE  /\ began'[r] = 0 /\ matched'[r] = {}
           /\ began' \in [Requests -> 0..MaxClock] /\ matched' \in [Requests -> SUBSET Requests]
           /\ \A q \in Requests \ {r} : began'[q] = began[q] /\ matched'[q] = matched[q]
BY BoundsAssumption DEF Typed, TypeOK, EndTransaction

\* An arriving request asks for something, of sessions that are there.
Arrives(r) ==
    \/ \E e \in Emails, p \in Secrets : RegisterArrives(r, e, p) \/ LoginArrives(r, e, p)
    \/ \E kind \in Revocations, token \in Committed, target \in Committed :
          RevokeArrives(r, kind, token, target)
LEMMA ArrivalMeans ==
    ASSUME StructInv, NEW r \in Requests, Arrives(r)
    PROVE  /\ pc[r] = "idle" /\ UNCHANGED <<account, session, lock, clock, began, matched, reply>>
           /\ Moves(r) /\ Typed' /\ call'[r] \in Call
           /\ \/ pc'[r] = "begin" /\ call'[r].kind = "register"
              \/ pc'[r] = "candidate" /\ call'[r].kind = "login"
              \/ /\ pc'[r] = "auth" /\ call'[r].kind \in Revocations
                 /\ call'[r].token \in Committed /\ call'[r].target \in Committed
           /\ before'[r] = IF call'[r].kind = "revokeOthers" THEN Committed ELSE {}
<1>1. ASSUME NEW c \in Call, NEW first \in Steps, Arrive(r, c, first)
      PROVE  /\ pc[r] = "idle" /\ UNCHANGED <<account, session, lock, clock, began, matched, reply>>
             /\ Moves(r) /\ Typed' /\ call'[r] = c /\ pc'[r] = first
             /\ before'[r] = IF c.kind = "revokeOthers" THEN Committed ELSE {}
  <2>1. /\ pc[r] = "idle" /\ UNCHANGED <<account, session, lock, clock, began, matched>>
        /\ call' = [call EXCEPT ![r] = c] /\ Goto(r, first)
        /\ before' = [before EXCEPT ![r] = IF c.kind = "revokeOthers" THEN Committed ELSE {}]
    BY <1>1 DEF Arrive, database, locals
  <2>2. Typed
    BY DEF StructInv
  <2>3. /\ pc'[r] = first /\ UNCHANGED reply
        /\ pc' \in [Requests -> {"idle", "done"} \cup Steps]
        /\ \A q \in Requests \ {r} : pc'[q] = pc[q]
    BY <2>1, <2>2, GotoMeans
  <2>4. /\ call' \in [Requests -> Call \cup {Nobody}] /\ call'[r] = c
        /\ \A q \in Requests \ {r} : call'[q] = call[q]
    BY <2>1, <2>2 DEF Typed
  <2>5. (IF c.kind = "revokeOthers" THEN Committed ELSE {}) \in SUBSET Requests
    BY DEF Committed
  <2>6. /\ before' \in [Requests -> SUBSET Requests]
        /\ before'[r] = IF c.kind = "revokeOthers" THEN Committed ELSE {}
        /\ \A q \in Requests \ {r} : before'[q] = before[q]
    BY <2>1, <2>2, <2>5 DEF Typed, TypeOK
  <2>7. Typed'
    BY <2>1, <2>2, <2>3, <2>4, <2>6 DEF Typed, TypeOK
  <2>8. QED
    BY <2>1, <2>3, <2>4, <2>6, <2>7 DEF Moves
<1>2. ASSUME NEW e \in Emails, NEW p \in Secrets, NEW kind \in {"register", "login"}
      PROVE  [kind |-> kind, email |-> e, secret |-> p, token |-> r, target |-> r,
              user |-> Nobody] \in Call
  BY DEF Call
<1>3. CASE \E e \in Emails, p \in Secrets : RegisterArrives(r, e, p)
  <2>1. PICK e \in Emails, p \in Secrets : RegisterArrives(r, e, p)
    BY <1>3
  <2> DEFINE c == [kind |-> "register", email |-> e, secret |-> p, token |-> r, target |-> r,
                   user |-> Nobody]
  <2>2. c \in Call /\ "begin" \in Steps /\ Arrive(r, c, "begin")
    BY <1>2, <2>1 DEF RegisterArrives, Steps
  <2>3. QED
    BY <1>1, <2>2
<1>4. CASE \E e \in Emails, p \in Secrets : LoginArrives(r, e, p)
  <2>1. PICK e \in Emails, p \in Secrets : LoginArrives(r, e, p)
    BY <1>4
  <2> DEFINE c == [kind |-> "login", email |-> e, secret |-> p, token |-> r, target |-> r,
                   user |-> Nobody]
  <2>2. c \in Call /\ "candidate" \in Steps /\ Arrive(r, c, "candidate")
    BY <1>2, <2>1 DEF LoginArrives, Steps
  <2>3. QED
    BY <1>1, <2>2
<1>5. CASE \E kind \in Revocations, token \in Committed, target \in Committed :
              RevokeArrives(r, kind, token, target)
  <2>1. PICK kind \in Revocations, token \in Committed, target \in Committed :
            RevokeArrives(r, kind, token, target)
    BY <1>5
  <2> DEFINE e == CHOOSE e \in Emails : TRUE
             p == CHOOSE p \in Secrets : TRUE
             c == [kind |-> kind, email |-> e, secret |-> p, token |-> token,
                   target |-> target, user |-> Nobody]
  <2>2. token \in Requests /\ target \in Requests /\ call[token] \in Call
    BY DEF Committed, StructInv, OwnersMean, Typed, TypeOK
  <2>3. e \in Emails /\ p \in Secrets
    <3>1. call[token].email \in Emails /\ call[token].secret \in Secrets
      BY <2>2 DEF Call
    <3>2. QED
      BY <3>1
  <2>4. c \in Call /\ "auth" \in Steps /\ Arrive(r, c, "auth")
    BY <2>1, <2>2, <2>3 DEF RevokeArrives, Steps, Call, Revocations
  <2>5. QED
    BY <1>1, <2>4
<1>6. QED
  BY <1>3, <1>4, <1>5 DEF Arrives

\* The candidate is the user of an enabled row, or the login is refused.
LEMMA CandidateMeans ==
    ASSUME StructInv, NEW r \in Requests, ReadCandidate(r)
    PROVE  /\ pc[r] = "candidate" /\ call[r] \in Call /\ call[r].kind = "login"
           /\ UNCHANGED <<account, session, lock, clock, began, matched, before>>
           /\ Moves(r) /\ Typed' /\ call'[r] \in Call /\ call'[r].kind = "login"
           /\ \/ /\ pc'[r] = "begin" /\ reply'[r] = "none"
                 /\ call'[r].user \in Users /\ account[call'[r].user] \in Account
                 /\ account[call'[r].user].email = call'[r].email
              \/ pc'[r] = "done" /\ reply'[r] = "rejected"
<1>1. /\ pc[r] = "candidate" /\ call[r] \in Call /\ call[r].kind = "login" /\ reply[r] = "none"
      /\ UNCHANGED <<account, session, lock, clock, began, matched, before>> /\ Typed
  BY DEF ReadCandidate, StructInv, Typed, TypeOK, PlaceMeans, database, locals
<1>2. CASE Answer(r, "rejected") /\ UNCHANGED call
  <2>1. "rejected" \in Replies
    BY DEF Replies
  <2>2. QED
    BY <1>1, <1>2, <2>1, AnswerMeans DEF Moves, Typed, TypeOK
<1>3. ASSUME NEW u \in EnabledWith(call[r].email), call' = [call EXCEPT ![r].user = u],
             Goto(r, "begin")
      PROVE  /\ Moves(r) /\ Typed' /\ call'[r] \in Call /\ call'[r].kind = "login"
             /\ pc'[r] = "begin" /\ reply'[r] = "none"
             /\ call'[r].user \in Users /\ account[call'[r].user] \in Account
             /\ account[call'[r].user].email = call'[r].email
  <2>1. /\ u \in Users /\ account[u] \in Account /\ account[u].email = call[r].email
    BY <1>1 DEF EnabledWith, Typed, TypeOK
  <2>2. /\ call'[r] \in Call /\ call'[r].kind = call[r].kind /\ call'[r].email = call[r].email
        /\ call'[r].user = u
        /\ \A q \in Requests \ {r} : call'[q] = call[q]
    BY <1>1, <1>3, <2>1 DEF Call, Typed
  <2>3. call' \in [Requests -> Call \cup {Nobody}]
    BY <1>1, <1>3, <2>2 DEF Typed
  <2>4. "begin" \in Steps
    BY DEF Steps
  <2>5. /\ pc'[r] = "begin" /\ UNCHANGED reply
        /\ pc' \in [Requests -> {"idle", "done"} \cup Steps]
        /\ \A q \in Requests \ {r} : pc'[q] = pc[q]
    BY <1>1, <1>3, <2>4, GotoMeans
  <2>6. QED
    BY <1>1, <2>1, <2>2, <2>3, <2>5 DEF Moves, Typed, TypeOK
<1>4. QED
  <2>1. \/ Answer(r, "rejected") /\ UNCHANGED call
        \/ \E u \in EnabledWith(call[r].email) :
              call' = [call EXCEPT ![r].user = u] /\ Goto(r, "begin")
    BY DEF ReadCandidate
  <2>2. CASE \E u \in EnabledWith(call[r].email) :
                call' = [call EXCEPT ![r].user = u] /\ Goto(r, "begin")
    BY <1>1, <1>3, <2>2
  <2>3. QED
    BY <1>1, <1>2, <2>1, <2>2

\* The BEGIN of a transaction is its now().
LEMMA BeginMeans ==
    ASSUME StructInv, NEW r \in Requests, Begin(r)
    PROVE  /\ pc[r] = "begin" /\ UNCHANGED <<account, session, lock, clock, call, matched, before>>
           /\ Moves(r) /\ Typed' /\ began'[r] = clock /\ reply'[r] = "none"
           /\ \/ pc'[r] = "insert" /\ call[r].kind = "register"
              \/ pc'[r] = "lock" /\ call[r].kind = "login"
<1> DEFINE next == IF call[r].kind = "register" THEN "insert" ELSE "lock"
<1>1. /\ pc[r] = "begin" /\ UNCHANGED <<account, session, lock, clock, call, matched, before>>
      /\ call[r].kind \in {"register", "login"} /\ reply[r] = "none" /\ Typed
      /\ began' = [began EXCEPT ![r] = clock] /\ Goto(r, next) /\ next \in Steps
  BY DEF Begin, StructInv, PlaceMeans, database, Steps
<1> HIDE DEF next
<1>2. /\ pc'[r] = next /\ UNCHANGED reply
      /\ pc' \in [Requests -> {"idle", "done"} \cup Steps]
      /\ \A q \in Requests \ {r} : pc'[q] = pc[q]
  BY <1>1, GotoMeans
<1>3. Typed' /\ began'[r] = clock /\ Moves(r)
  BY <1>1, <1>2 DEF Moves, Typed, TypeOK
<1>4. QED
  BY <1>1, <1>2, <1>3 DEF next

\* A registration inserts a user who was not there, and the session it is named by.
LEMMA RegisterMeans ==
    ASSUME StructInv, NEW r \in Requests, CommitRegistration(r)
    PROVE  /\ pc[r] = "insert" /\ call[r] \in Call /\ call[r].kind = "register"
           /\ session[r] = NoSession
           /\ UNCHANGED <<lock, clock, before>> /\ Moves(r) /\ Typed'
           /\ pc'[r] = "audit" /\ reply'[r] = "none" /\ began'[r] = 0
           /\ call'[r] \in Call /\ call'[r].kind = "register"
           /\ \E u \in Users :
                 /\ account[u] = NoAccount /\ account'[u] \in Account
                 /\ account'[u].email = call[r].email /\ account'[u].secret = call[r].secret
                 /\ account'[u].state = "enabled"
                 /\ \A v \in Users \ {u} : account'[v] = account[v]
                 /\ session'[r] \in Session /\ session'[r].user = u
                 /\ session'[r].status = "live"
                 /\ \A s \in Requests \ {r} : session'[s] = session[s]
<1>1. /\ pc[r] = "insert" /\ call[r] \in Call /\ call[r].kind = "register" /\ reply[r] = "none"
      /\ session[r] = NoSession /\ began[r] \in 0..MaxClock
      /\ UNCHANGED <<lock, clock, before>> /\ EndTransaction(r) /\ Goto(r, "audit") /\ Typed
  BY DEF CommitRegistration, StructInv, OwnersMean, Typed, TypeOK, PlaceMeans
<1>2. PICK u \in Users :
        /\ account[u] = NoAccount
        /\ account' = [account EXCEPT ![u] = [email |-> call[r].email,
                            secret |-> call[r].secret, state |-> "enabled"]]
        /\ session' = [session EXCEPT ![r] =
                            [user |-> u, created |-> began[r], status |-> "live"]]
        /\ call' = [call EXCEPT ![r].user = u]
  BY DEF CommitRegistration
<1>3. /\ [email |-> call[r].email, secret |-> call[r].secret, state |-> "enabled"] \in Account
      /\ [user |-> u, created |-> began[r], status |-> "live"] \in Session
  BY <1>1 DEF Call, Account, Session
<1>4. /\ account'[u] \in Account /\ account'[u].email = call[r].email
      /\ account'[u].secret = call[r].secret /\ account'[u].state = "enabled"
      /\ account' \in [Users -> Account \cup {NoAccount}]
      /\ \A v \in Users \ {u} : account'[v] = account[v]
  BY <1>1, <1>2, <1>3 DEF Typed, TypeOK
<1>5. /\ session'[r] \in Session /\ session'[r].user = u /\ session'[r].status = "live"
      /\ session' \in [Requests -> Session \cup {NoSession}]
      /\ \A s \in Requests \ {r} : session'[s] = session[s]
  BY <1>1, <1>2, <1>3 DEF Typed, TypeOK
<1>6. /\ call'[r] \in Call /\ call'[r].kind = call[r].kind
      /\ \A q \in Requests \ {r} : call'[q] = call[q]
  BY <1>1, <1>2 DEF Call, Typed
<1>7. call' \in [Requests -> Call \cup {Nobody}]
  BY <1>1, <1>2, <1>6 DEF Typed
<1>8. "audit" \in Steps
  BY DEF Steps
<1>9. /\ pc'[r] = "audit" /\ UNCHANGED reply
      /\ pc' \in [Requests -> {"idle", "done"} \cup Steps]
      /\ \A q \in Requests \ {r} : pc'[q] = pc[q]
  BY <1>1, <1>8, GotoMeans
<1>10. /\ began'[r] = 0 /\ matched'[r] = {}
       /\ began' \in [Requests -> 0..MaxClock] /\ matched' \in [Requests -> SUBSET Requests]
       /\ \A q \in Requests \ {r} : began'[q] = began[q] /\ matched'[q] = matched[q]
  BY <1>1, EndMeans
<1>11. Typed' /\ Moves(r)
  BY <1>1, <1>4, <1>5, <1>6, <1>7, <1>9, <1>10 DEF Moves, Typed, TypeOK
<1>12. QED
  BY <1>1, <1>2, <1>4, <1>5, <1>6, <1>9, <1>10, <1>11

\* A login takes the free lock of the row that is as it was read, or it is refused.
LEMMA LockMeans ==
    ASSUME StructInv, NEW r \in Requests, LockUser(r)
    PROVE  /\ pc[r] = "lock" /\ call[r].kind = "login" /\ Resolved(r)
           /\ UNCHANGED <<account, session, clock, call, before>> /\ Moves(r) /\ Typed'
           /\ lock[call[r].user] = Nobody
           /\ \/ /\ pc'[r] = "prune" /\ reply'[r] = "none"
                 /\ account[call[r].user].state = "enabled"
                 /\ account[call[r].user].secret = call[r].secret
                 /\ lock'[call[r].user] = r
                 /\ \A v \in Users \ {call[r].user} : lock'[v] = lock[v]
                 /\ UNCHANGED <<began, matched>>
              \/ /\ pc'[r] = "done" /\ reply'[r] = "rejected"
                 /\ UNCHANGED lock /\ began'[r] = 0
<1> DEFINE u == call[r].user
<1>1. /\ pc[r] = "lock" /\ call[r].kind = "login" /\ Resolved(r) /\ reply[r] = "none"
      /\ UNCHANGED <<account, session, clock, call, before>> /\ Typed /\ lock[u] = Nobody
  BY DEF LockUser, StructInv, PlaceMeans
<1>2. CASE /\ account[u].state = "enabled" /\ account[u].secret = call[r].secret
           /\ lock' = [lock EXCEPT ![u] = r]
           /\ Goto(r, "prune")
           /\ UNCHANGED <<began, matched>>
  <2>1. "prune" \in Steps
    BY DEF Steps
  <2>2. /\ pc'[r] = "prune" /\ UNCHANGED reply
        /\ pc' \in [Requests -> {"idle", "done"} \cup Steps]
        /\ \A q \in Requests \ {r} : pc'[q] = pc[q]
    BY <1>1, <1>2, <2>1, GotoMeans
  <2>3. /\ lock'[u] = r /\ \A v \in Users \ {u} : lock'[v] = lock[v]
        /\ lock' \in [Users -> Requests \cup {Nobody}]
    BY <1>1, <1>2 DEF Typed, TypeOK, Resolved
  <2>4. Typed' /\ Moves(r)
    BY <1>1, <1>2, <2>2, <2>3 DEF Moves, Typed, TypeOK
  <2>5. QED
    BY <1>1, <1>2, <2>2, <2>3, <2>4
<1>3. CASE EndTransaction(r) /\ Answer(r, "rejected") /\ UNCHANGED lock
  <2>1. "rejected" \in Replies
    BY DEF Replies
  <2>2. /\ pc'[r] = "done" /\ reply'[r] = "rejected"
        /\ pc' \in [Requests -> {"idle", "done"} \cup Steps]
        /\ reply' \in [Requests -> Replies]
        /\ \A q \in Requests \ {r} : pc'[q] = pc[q] /\ reply'[q] = reply[q]
    BY <1>1, <1>3, <2>1, AnswerMeans
  <2>3. /\ began'[r] = 0 /\ matched'[r] = {}
        /\ began' \in [Requests -> 0..MaxClock] /\ matched' \in [Requests -> SUBSET Requests]
        /\ \A q \in Requests \ {r} : began'[q] = began[q] /\ matched'[q] = matched[q]
    BY <1>1, <1>3, EndMeans
  <2>4. Typed' /\ Moves(r)
    BY <1>1, <1>3, <2>2, <2>3 DEF Moves, Typed, TypeOK
  <2>5. QED
    BY <1>1, <1>3, <2>2, <2>3, <2>4
<1>4. QED
  BY <1>2, <1>3 DEF LockUser, locals

\* The rows it will revoke are all but a few of the active ones and its own.
LEMMA PruneMeans ==
    ASSUME StructInv, NEW r \in Requests, Prune(r)
    PROVE  /\ pc[r] = "prune" /\ call[r].kind = "login" /\ Resolved(r) /\ Holds(r)
           /\ UNCHANGED <<account, session, lock, clock, call, began, before>>
           /\ Moves(r) /\ Typed' /\ pc'[r] = "commit" /\ reply'[r] = "none"
           /\ LET rows == ActiveOf(call[r].user, began[r]) \cup {r} IN
              \E kept \in SUBSET rows :
                 /\ Cardinality(kept) = IF Cardinality(rows) < MaxActive
                                        THEN Cardinality(rows) ELSE MaxActive
                 /\ matched'[r] = rows \ kept
<1> DEFINE rows == ActiveOf(call[r].user, began[r]) \cup {r}
<1>1. /\ pc[r] = "prune" /\ call[r].kind = "login" /\ Resolved(r) /\ Holds(r)
      /\ UNCHANGED <<account, session, lock, clock, call, began, before>> /\ Typed
      /\ Goto(r, "commit") /\ reply[r] = "none"
  BY DEF Prune, StructInv, PlaceMeans, database
<1>2. PICK kept \in SUBSET rows :
          /\ Cardinality(kept) = IF Cardinality(rows) < MaxActive
                                 THEN Cardinality(rows) ELSE MaxActive
          /\ matched' = [matched EXCEPT ![r] = rows \ kept]
  BY DEF Prune
<1>3. rows \ kept \in SUBSET Requests
  BY DEF ActiveOf, Committed
<1>4. "commit" \in Steps
  BY DEF Steps
<1>5. /\ pc'[r] = "commit" /\ UNCHANGED reply
      /\ pc' \in [Requests -> {"idle", "done"} \cup Steps]
      /\ \A q \in Requests \ {r} : pc'[q] = pc[q]
  BY <1>1, <1>4, GotoMeans
<1> HIDE DEF rows
<1>6. /\ matched'[r] = rows \ kept /\ matched' \in [Requests -> SUBSET Requests]
      /\ \A q \in Requests \ {r} : matched'[q] = matched[q]
  BY <1>1, <1>2, <1>3 DEF Typed, TypeOK
<1>7. Typed' /\ Moves(r)
  BY <1>1, <1>5, <1>6 DEF Moves, Typed, TypeOK
<1>8. QED
  BY <1>1, <1>2, <1>5, <1>6, <1>7 DEF rows

\* What an UPDATE of some rows leaves of a table of sessions.
Revokes(rows) ==
    \A s \in Requests :
        \/ session'[s] = session[s] /\ (s \in rows /\ session[s] # NoSession =>
                                            session[s].status = "revoked")
        \/ s \in rows /\ session[s] # NoSession /\ session'[s] = Revoked(session[s])

\* A login commits its session and what it has selected, and gives up its lock.
LEMMA CommitMeans ==
    ASSUME StructInv, NEW r \in Requests, CommitLogin(r)
    PROVE  /\ pc[r] = "commit" /\ call[r].kind = "login" /\ Resolved(r) /\ Holds(r)
           /\ session[r] = NoSession
           /\ UNCHANGED <<account, clock, call, before>> /\ Moves(r) /\ Typed'
           /\ pc'[r] = "audit" /\ reply'[r] = "none" /\ began'[r] = 0
           /\ lock'[call[r].user] = Nobody
           /\ \A v \in Users \ {call[r].user} : lock'[v] = lock[v]
           /\ session'[r] \in Session /\ session'[r].user = call[r].user
           /\ (r \in matched[r] => session'[r].status = "revoked")
           /\ \A s \in Requests \ {r} :
                 session'[s] = IF s \in matched[r] /\ session[s] # NoSession
                               THEN Revoked(session[s]) ELSE session[s]
<1> DEFINE u == call[r].user
           new == [user |-> u, created |-> began[r], status |-> "live"]
<1>1. /\ pc[r] = "commit" /\ call[r].kind = "login" /\ Resolved(r) /\ Holds(r) /\ u \in Users
      /\ session[r] = NoSession /\ began[r] \in 0..MaxClock /\ reply[r] = "none"
      /\ UNCHANGED <<account, clock, call, before>> /\ EndTransaction(r) /\ Goto(r, "audit")
      /\ Typed
  BY DEF CommitLogin, StructInv, OwnersMean, Typed, TypeOK, PlaceMeans, Resolved
<1>2. /\ session' = Revoke([session EXCEPT ![r] = new], matched[r])
      /\ lock' = [lock EXCEPT ![u] = Nobody]
  BY DEF CommitLogin
<1>3. new \in Session
  BY <1>1 DEF Session
<1>4. new # NoSession /\ new.user = u
  BY <1>3, Nulls
<1> HIDE DEF new
<1>5. session \in [Requests -> Session \cup {NoSession}]
  BY <1>1 DEF Typed, TypeOK
<1>6. session'[r] = IF r \in matched[r] THEN Revoked(new) ELSE new
  BY <1>2, <1>4, <1>5 DEF Revoke, Revoked
<1>7. \A s \in Requests \ {r} :
          session'[s] = IF s \in matched[r] /\ session[s] # NoSession
                        THEN Revoked(session[s]) ELSE session[s]
  BY <1>2, <1>5 DEF Revoke, Revoked
<1>8. /\ session'[r] \in Session /\ session'[r].user = u
      /\ (r \in matched[r] => session'[r].status = "revoked")
  BY <1>3, <1>4, <1>6, RevokedRow
<1>9. \A s \in Requests : session'[s] \in Session \cup {NoSession}
  BY <1>5, <1>7, <1>8, RevokedRow
<1>10. session' \in [Requests -> Session \cup {NoSession}]
  <2>1. session' = [s \in Requests |-> session'[s]]
    BY <1>2 DEF Revoke
  <2>2. QED
    BY <1>9, <2>1
<1>11. /\ lock'[u] = Nobody /\ \A v \in Users \ {u} : lock'[v] = lock[v]
       /\ lock' \in [Users -> Requests \cup {Nobody}]
  BY <1>1, <1>2 DEF Typed, TypeOK
<1>12. "audit" \in Steps
  BY DEF Steps
<1>13. /\ pc'[r] = "audit" /\ UNCHANGED reply
       /\ pc' \in [Requests -> {"idle", "done"} \cup Steps]
       /\ \A q \in Requests \ {r} : pc'[q] = pc[q]
  BY <1>1, <1>12, GotoMeans
<1>14. /\ began'[r] = 0 /\ matched'[r] = {}
       /\ began' \in [Requests -> 0..MaxClock] /\ matched' \in [Requests -> SUBSET Requests]
       /\ \A q \in Requests \ {r} : began'[q] = began[q] /\ matched'[q] = matched[q]
  BY <1>1, EndMeans
<1>15. Typed' /\ Moves(r)
  BY <1>1, <1>10, <1>11, <1>13, <1>14 DEF Moves, Typed, TypeOK
<1>16. QED
  BY <1>1, <1>7, <1>8, <1>11, <1>13, <1>14, <1>15

\* A revocation goes on with a live session of an enabled user, a logout without.
LEMMA AuthenticateMeans ==
    ASSUME StructInv, NEW r \in Requests, Authenticate(r)
    PROVE  /\ pc[r] = "auth" /\ call[r].kind \in Revocations
           /\ UNCHANGED <<account, session, lock, clock, call, began, matched, before>>
           /\ Moves(r) /\ Typed'
           /\ \/ pc'[r] = "select" /\ reply'[r] = "none"
              \/ pc'[r] = "done" /\ reply'[r] = "unauthenticated"
<1>1. /\ pc[r] = "auth" /\ call[r].kind \in Revocations /\ reply[r] = "none" /\ Typed
      /\ UNCHANGED <<account, session, lock, clock, call, began, matched, before>>
      /\ Goto(r, "select") \/ Answer(r, "unauthenticated")
  BY DEF Authenticate, StructInv, PlaceMeans, database, locals
<1>2. "select" \in Steps /\ "unauthenticated" \in Replies
  BY DEF Steps, Replies
<1>3. CASE Goto(r, "select")
  BY <1>1, <1>2, <1>3, GotoMeans DEF Moves, Typed, TypeOK
<1>4. CASE Answer(r, "unauthenticated")
  BY <1>1, <1>2, <1>4, AnswerMeans DEF Moves, Typed, TypeOK
<1>5. QED
  BY <1>1, <1>3, <1>4

\* The rows a revocation is for: its own session, or active ones of the same user.
LEMMA SelectedRows ==
    ASSUME StructInv, NEW r \in Requests, pc[r] = "select"
    PROVE  /\ call[r].kind = "logout" => Selected(r) = {call[r].token}
           /\ call[r].kind = "revokeOwned" => Selected(r) \subseteq {call[r].target}
           /\ call[r].kind = "revokeOthers" /\ Active(call[r].token, clock) =>
                 Selected(r) =
                    ActiveOf(session[call[r].token].user, clock) \ {call[r].token}
           /\ \A s \in Selected(r) :
                 s \in Committed /\ session[s].user = session[call[r].token].user
<1>1. call[r].kind \in Revocations /\ call[r].token \in Committed
  BY DEF StructInv, PlaceMeans
<1>2. CASE call[r].kind = "logout"
  BY <1>1, <1>2 DEF Selected
<1>3. CASE call[r].kind = "revokeOwned"
  BY <1>1, <1>3 DEF Selected, ActiveOf
<1>4. CASE call[r].kind = "revokeOthers"
  BY <1>1, <1>4 DEF Selected, ActiveOf
<1>5. QED
  BY <1>1, <1>2, <1>3, <1>4 DEF Revocations

\* They are selected.
LEMMA SelectMeans ==
    ASSUME StructInv, NEW r \in Requests, SelectSessions(r)
    PROVE  /\ pc[r] = "select" /\ call[r].kind \in Revocations
           /\ UNCHANGED <<account, session, lock, clock, call, began, before>>
           /\ Moves(r) /\ Typed' /\ pc'[r] = "apply" /\ reply'[r] = "none"
           /\ matched'[r] = Selected(r)
<1>1. /\ pc[r] = "select" /\ call[r].kind \in Revocations /\ reply[r] = "none" /\ Typed
      /\ UNCHANGED <<account, session, lock, clock, call, began, before>>
      /\ Goto(r, "apply") /\ matched' = [matched EXCEPT ![r] = Selected(r)]
  BY DEF SelectSessions, StructInv, PlaceMeans, database
<1>2. "apply" \in Steps
  BY DEF Steps
<1>3. Selected(r) \in SUBSET Requests
  BY <1>1, SelectedRows DEF Committed
<1>4. /\ pc'[r] = "apply" /\ UNCHANGED reply
      /\ pc' \in [Requests -> {"idle", "done"} \cup Steps]
      /\ \A q \in Requests \ {r} : pc'[q] = pc[q]
  BY <1>1, <1>2, GotoMeans
<1>5. /\ matched'[r] = Selected(r) /\ matched' \in [Requests -> SUBSET Requests]
      /\ \A q \in Requests \ {r} : matched'[q] = matched[q]
  BY <1>1, <1>3 DEF Typed, TypeOK
<1>6. Typed' /\ Moves(r)
  BY <1>1, <1>4, <1>5 DEF Moves, Typed, TypeOK
<1>7. QED
  BY <1>1, <1>4, <1>5, <1>6

\* Those still live are revoked; a targeted revocation that finds none is refused.
LEMMA ApplyMeans ==
    ASSUME StructInv, NEW r \in Requests, ApplyRevocation(r)
    PROVE  /\ pc[r] = "apply" /\ call[r].kind \in Revocations
           /\ UNCHANGED <<account, lock, clock, call, before>> /\ Moves(r) /\ Typed'
           /\ began'[r] = 0 /\ Revokes(matched[r])
           /\ \/ /\ pc'[r] = "audit" /\ reply'[r] = "none"
                 /\ call[r].kind = "revokeOwned" =>
                       \E s \in matched[r] : session[s].status = "live"
              \/ pc'[r] = "done" /\ reply'[r] = "not_found"
<1> DEFINE rows == {s \in matched[r] : session[s].status = "live"}
<1>1. /\ pc[r] = "apply" /\ call[r].kind \in Revocations /\ reply[r] = "none" /\ Typed
      /\ UNCHANGED <<account, lock, clock, call, before>> /\ EndTransaction(r)
      /\ session' = Revoke(session, rows)
      /\ \/ Answer(r, "not_found")
         \/ Goto(r, "audit") /\ (call[r].kind # "revokeOwned" \/ rows # {})
  BY DEF ApplyRevocation, StructInv, PlaceMeans
<1>2. "audit" \in Steps /\ "not_found" \in Replies
  BY DEF Steps, Replies
<1>3. session \in [Requests -> Session \cup {NoSession}]
  BY <1>1 DEF Typed, TypeOK
<1>4. \A s \in Requests : session'[s] = IF s \in rows /\ session[s] # NoSession
                                        THEN Revoked(session[s]) ELSE session[s]
  BY <1>1 DEF Revoke, Revoked
<1>5. \A s \in Requests : session[s] # NoSession =>
          session[s] \in Session /\ session[s].status \in {"live", "revoked"}
  BY <1>3 DEF Session
<1>6. Revokes(matched[r])
  BY <1>4, <1>5 DEF Revokes
<1>7. session' \in [Requests -> Session \cup {NoSession}]
  <2>1. session' = [s \in Requests |-> session'[s]]
    BY <1>1 DEF Revoke
  <2>2. \A s \in Requests : session'[s] \in Session \cup {NoSession}
    BY <1>4, <1>5, RevokedRow
  <2>3. QED
    BY <2>1, <2>2
<1>8. /\ began'[r] = 0 /\ matched'[r] = {}
      /\ began' \in [Requests -> 0..MaxClock] /\ matched' \in [Requests -> SUBSET Requests]
      /\ \A q \in Requests \ {r} : began'[q] = began[q] /\ matched'[q] = matched[q]
  BY <1>1, EndMeans
<1>9. CASE Answer(r, "not_found")
  <2>1. /\ pc'[r] = "done" /\ reply'[r] = "not_found"
        /\ pc' \in [Requests -> {"idle", "done"} \cup Steps]
        /\ reply' \in [Requests -> Replies]
        /\ \A q \in Requests \ {r} : pc'[q] = pc[q] /\ reply'[q] = reply[q]
    BY <1>1, <1>2, <1>9, AnswerMeans
  <2>2. Typed' /\ Moves(r)
    BY <1>1, <1>7, <1>8, <2>1 DEF Moves, Typed, TypeOK
  <2>3. QED
    BY <1>1, <1>6, <1>8, <2>1, <2>2
<1>10. CASE Goto(r, "audit") /\ (call[r].kind # "revokeOwned" \/ rows # {})
  <2>1. /\ pc'[r] = "audit" /\ UNCHANGED reply
        /\ pc' \in [Requests -> {"idle", "done"} \cup Steps]
        /\ \A q \in Requests \ {r} : pc'[q] = pc[q]
    BY <1>1, <1>2, <1>10, GotoMeans
  <2>2. Typed' /\ Moves(r)
    BY <1>1, <1>7, <1>8, <2>1 DEF Moves, Typed, TypeOK
  <2>3. QED
    BY <1>1, <1>6, <1>8, <1>10, <2>1, <2>2
<1>11. QED
  BY <1>1, <1>9, <1>10

\* A request whose event is stored is answered.
LEMMA RecordMeans ==
    ASSUME StructInv, NEW r \in Requests, RecordAndAnswer(r)
    PROVE  /\ pc[r] = "audit" /\ UNCHANGED <<account, session, lock, clock, call, began, matched, before>>
           /\ Moves(r) /\ Typed' /\ pc'[r] = "done" /\ reply'[r] \in {"session", "revoked"}
<1>1. PICK answer \in {"session", "revoked"} : Answer(r, answer)
  BY DEF RecordAndAnswer
<1>2. /\ pc[r] = "audit" /\ Typed
      /\ UNCHANGED <<account, session, lock, clock, call, began, matched, before>>
  BY DEF RecordAndAnswer, StructInv, database, locals
<1>3. answer \in Replies
  BY DEF Replies
<1>4. QED
  BY <1>1, <1>2, <1>3, AnswerMeans DEF Moves, Typed, TypeOK

\* A request that fails is rolled back: it leaves the rows, and gives up its lock.
LEMMA FailMeans ==
    ASSUME StructInv, NEW r \in Requests, RequestFails(r)
    PROVE  /\ pc[r] \in Steps /\ UNCHANGED <<account, session, clock, call, before>>
           /\ Moves(r) /\ Typed' /\ pc'[r] = "done" /\ reply'[r] = "error" /\ began'[r] = 0
           /\ \A u \in Users : lock'[u] = IF lock[u] = r THEN Nobody ELSE lock[u]
<1>1. /\ pc[r] \in Steps /\ UNCHANGED <<account, session, clock, call, before>> /\ Typed
      /\ lock' = [u \in Users |-> IF lock[u] = r THEN Nobody ELSE lock[u]]
      /\ EndTransaction(r) /\ Answer(r, "error")
  BY DEF RequestFails, StructInv
<1>2. "error" \in Replies
  BY DEF Replies
<1>3. /\ pc'[r] = "done" /\ reply'[r] = "error"
      /\ pc' \in [Requests -> {"idle", "done"} \cup Steps]
      /\ reply' \in [Requests -> Replies]
      /\ \A q \in Requests \ {r} : pc'[q] = pc[q] /\ reply'[q] = reply[q]
  BY <1>1, <1>2, AnswerMeans
<1>4. /\ began'[r] = 0 /\ matched'[r] = {}
      /\ began' \in [Requests -> 0..MaxClock] /\ matched' \in [Requests -> SUBSET Requests]
      /\ \A q \in Requests \ {r} : began'[q] = began[q] /\ matched'[q] = matched[q]
  BY <1>1, EndMeans
<1>5. lock' \in [Users -> Requests \cup {Nobody}]
  BY <1>1 DEF Typed, TypeOK
<1>6. Typed' /\ Moves(r)
  BY <1>1, <1>3, <1>4, <1>5 DEF Moves, Typed, TypeOK, Steps
<1>7. QED
  BY <1>1, <1>3, <1>4, <1>6

\* The clock is all that a tick moves, and an account all that is changed from outside.
LEMMA TickMeans ==
    ASSUME StructInv, Tick
    PROVE  /\ UNCHANGED <<account, session, lock, pc, call, reply, began, matched, before>>
           /\ clock' = clock + 1 /\ Typed'
<1>1. /\ UNCHANGED <<account, session, lock, pc, call, reply, began, matched, before>>
      /\ clock' = clock + 1 /\ clock < MaxClock /\ Typed
  BY DEF Tick, StructInv, database, locals
<1>2. clock' \in 0..MaxClock
  BY <1>1, BoundsAssumption DEF Typed, TypeOK
<1>3. QED
  BY <1>1, <1>2 DEF Typed, TypeOK
LEMMA ChangeMeans ==
    ASSUME StructInv, NEW u \in Users, ChangeAccount(u)
    PROVE  /\ UNCHANGED <<session, lock, clock, pc, call, reply, began, matched, before>> /\ Typed'
           /\ lock[u] = Nobody /\ account[u] \in Account /\ account'[u] \in Account
           /\ account'[u].email = account[u].email
           /\ \A v \in Users \ {u} : account'[v] = account[v]
<1>1. /\ UNCHANGED <<session, lock, clock, pc, call, reply, began, matched, before>> /\ Typed
      /\ lock[u] = Nobody /\ account[u] \in Account
      /\ account \in [Users -> Account \cup {NoAccount}]
  BY DEF ChangeAccount, StructInv, Typed, TypeOK, locals
<1>2. PICK new \in Account : account' = [account EXCEPT ![u] = new] /\ new.email = account[u].email
  <2>1. CASE account' = [account EXCEPT ![u].state = "disabled"]
    <3>1. [account[u] EXCEPT !.state = "disabled"] \in Account
      BY <1>1 DEF Account
    <3>2. QED
      BY <1>1, <2>1, <3>1 DEF Account
  <2>2. ASSUME NEW p \in Secrets, account' = [account EXCEPT ![u].secret = p]
        PROVE  \E new \in Account :
                  account' = [account EXCEPT ![u] = new] /\ new.email = account[u].email
    <3>1. [account[u] EXCEPT !.secret = p] \in Account
      BY <1>1 DEF Account
    <3>2. QED
      BY <1>1, <2>2, <3>1 DEF Account
  <2>3. QED
    BY <2>1, <2>2 DEF ChangeAccount
<1>3. /\ account'[u] \in Account /\ account'[u].email = account[u].email
      /\ account' \in [Users -> Account \cup {NoAccount}]
      /\ \A v \in Users \ {u} : account'[v] = account[v]
  BY <1>1, <1>2
<1>4. QED
  BY <1>1, <1>3 DEF Typed, TypeOK

\* These are all the steps.
LEMMA NextMeans ==
    ASSUME [Next]_vars
    PROVE  \/ \E r \in Requests :
                \/ Arrives(r) \/ ReadCandidate(r) \/ Begin(r) \/ CommitRegistration(r)
                \/ LockUser(r) \/ Prune(r) \/ CommitLogin(r) \/ Authenticate(r)
                \/ SelectSessions(r) \/ ApplyRevocation(r) \/ RecordAndAnswer(r)
                \/ RequestFails(r)
           \/ Tick \/ (\E u \in Users : ChangeAccount(u)) \/ UNCHANGED vars
BY DEF Next, Handle, Arrives, Revocations

-----------------------------------------------------------------------------
(* What a step does to one request, one account, one lock or one session.  *)

\* A request stays where it is, or it is the one that moves.
Stays(r) ==
    /\ pc'[r] = pc[r] /\ call'[r] = call[r] /\ reply'[r] = reply[r]
    /\ began'[r] = began[r] /\ matched'[r] = matched[r] /\ before'[r] = before[r]
LEMMA RequestSteps ==
    ASSUME StructInv, [Next]_vars, NEW r \in Requests
    PROVE  \/ Stays(r) \/ Arrives(r) \/ ReadCandidate(r) \/ Begin(r) \/ CommitRegistration(r)
           \/ LockUser(r) \/ Prune(r) \/ CommitLogin(r) \/ Authenticate(r)
           \/ SelectSessions(r) \/ ApplyRevocation(r) \/ RecordAndAnswer(r)
           \/ RequestFails(r)
<1>1. ASSUME NEW q \in Requests, q # r, Moves(q) PROVE Stays(r)
  BY <1>1 DEF Moves, Stays
<1>2. ASSUME NEW q \in Requests,
             \/ Arrives(q) \/ ReadCandidate(q) \/ Begin(q) \/ CommitRegistration(q)
             \/ LockUser(q) \/ Prune(q) \/ CommitLogin(q) \/ Authenticate(q)
             \/ SelectSessions(q) \/ ApplyRevocation(q) \/ RecordAndAnswer(q)
             \/ RequestFails(q)
      PROVE  Moves(q)
  <2>1. CASE Arrives(q) \/ ReadCandidate(q) \/ Begin(q) \/ LockUser(q)
    BY <2>1, ArrivalMeans, CandidateMeans, BeginMeans, LockMeans
  <2>2. CASE CommitRegistration(q)
    BY <2>2, RegisterMeans
  <2>3. CASE Prune(q)
    BY <2>3, PruneMeans
  <2>4. CASE CommitLogin(q)
    BY <2>4, CommitMeans
  <2>5. CASE \/ Authenticate(q) \/ SelectSessions(q) \/ ApplyRevocation(q)
             \/ RecordAndAnswer(q) \/ RequestFails(q)
    BY <2>5, AuthenticateMeans, SelectMeans, ApplyMeans, RecordMeans, FailMeans
  <2>6. QED
    BY <1>2, <2>1, <2>2, <2>3, <2>4, <2>5
<1>3. CASE Tick
  BY <1>3, TickMeans DEF Stays
<1>4. ASSUME NEW u \in Users, ChangeAccount(u) PROVE Stays(r)
  BY <1>4, ChangeMeans DEF Stays
<1>5. CASE UNCHANGED vars
  BY <1>5 DEF vars, Stays
<1>6. QED
  BY <1>1, <1>2, <1>3, <1>4, <1>5, NextMeans

\* Time does not go back.
LEMMA ClockSteps == ASSUME StructInv, [Next]_vars PROVE clock' \in Nat /\ clock' >= clock
<1>1. clock \in Nat
  BY BoundsAssumption DEF StructInv, Typed, TypeOK
<1>2. UNCHANGED clock \/ Tick
  BY NextMeans, ArrivalMeans, CandidateMeans, BeginMeans, RegisterMeans, LockMeans, PruneMeans,
     CommitMeans, AuthenticateMeans, SelectMeans, ApplyMeans, RecordMeans, FailMeans, ChangeMeans
     DEF vars
<1>3. QED
  BY <1>1, <1>2, TickMeans

\* An account stays, with its email, and as it is while it is locked.
LEMMA AccountSteps ==
    ASSUME StructInv, [Next]_vars, NEW u \in Users, account[u] # NoAccount
    PROVE  /\ account'[u] \in Account /\ account'[u].email = account[u].email
           /\ lock[u] # Nobody => account'[u] = account[u]
<1>1. account[u] \in Account
  BY DEF StructInv, Typed, TypeOK
<1>2. ASSUME NEW r \in Requests, CommitRegistration(r) PROVE account'[u] = account[u]
  BY <1>2, RegisterMeans
<1>3. ASSUME NEW r \in Requests,
             \/ Arrives(r) \/ ReadCandidate(r) \/ Begin(r)
             \/ LockUser(r) \/ Prune(r) \/ CommitLogin(r) \/ Authenticate(r)
             \/ SelectSessions(r) \/ ApplyRevocation(r) \/ RecordAndAnswer(r)
             \/ RequestFails(r)
      PROVE  account'[u] = account[u]
  BY <1>3, ArrivalMeans, CandidateMeans, BeginMeans, LockMeans, PruneMeans,
     CommitMeans, AuthenticateMeans, SelectMeans, ApplyMeans, RecordMeans, FailMeans
<1>4. CASE Tick \/ UNCHANGED vars
  BY <1>1, <1>4, TickMeans DEF vars
<1>5. ASSUME NEW v \in Users, ChangeAccount(v)
      PROVE  /\ account'[u] \in Account /\ account'[u].email = account[u].email
             /\ lock[u] # Nobody => account'[u] = account[u]
  BY <1>1, <1>5, ChangeMeans
<1>6. QED
  BY <1>1, <1>2, <1>3, <1>4, <1>5, NextMeans

\* A free lock is taken by a login of its user, and given up by the one that holds it.
LEMMA LockSteps ==
    ASSUME StructInv, [Next]_vars, NEW u \in Users
    PROVE  \/ lock'[u] = lock[u]
           \/ \E r \in Requests : /\ LockUser(r) /\ call[r].user = u /\ lock[u] = Nobody
                                  /\ lock'[u] = r /\ pc'[r] = "prune"
           \/ \E r \in Requests : /\ CommitLogin(r) \/ RequestFails(r)
                                  /\ lock[u] = r /\ lock'[u] = Nobody
<1>1. ASSUME NEW r \in Requests, LockUser(r)
      PROVE  \/ lock'[u] = lock[u]
             \/ /\ call[r].user = u /\ lock[u] = Nobody /\ lock'[u] = r /\ pc'[r] = "prune"
  BY <1>1, LockMeans
<1>2. ASSUME NEW r \in Requests, CommitLogin(r)
      PROVE  lock'[u] = lock[u] \/ (lock[u] = r /\ lock'[u] = Nobody)
  BY <1>2, CommitMeans DEF Holds
<1>3. ASSUME NEW r \in Requests, RequestFails(r)
      PROVE  lock'[u] = lock[u] \/ (lock[u] = r /\ lock'[u] = Nobody)
  BY <1>3, FailMeans
<1>4. ASSUME NEW r \in Requests,
             \/ Arrives(r) \/ ReadCandidate(r) \/ Begin(r) \/ CommitRegistration(r)
             \/ Prune(r) \/ Authenticate(r) \/ SelectSessions(r) \/ ApplyRevocation(r)
             \/ RecordAndAnswer(r)
      PROVE  lock'[u] = lock[u]
  BY <1>4, ArrivalMeans, CandidateMeans, BeginMeans, RegisterMeans, PruneMeans,
     AuthenticateMeans, SelectMeans, ApplyMeans, RecordMeans
<1>5. CASE Tick \/ UNCHANGED vars
  BY <1>5, TickMeans DEF vars
<1>6. ASSUME NEW v \in Users, ChangeAccount(v) PROVE lock'[u] = lock[u]
  BY <1>6, ChangeMeans
<1>7. QED
  BY <1>1, <1>2, <1>3, <1>4, <1>5, <1>6, NextMeans

\* A session stays, is created by the request that names it, or is revoked by one that
\* has selected it.
LEMMA SessionSteps ==
    ASSUME StructInv, [Next]_vars, NEW s \in Requests
    PROVE  \/ session'[s] = session[s]
           \/ session[s] = NoSession /\ (CommitRegistration(s) \/ CommitLogin(s))
           \/ /\ session[s] # NoSession /\ session'[s] = Revoked(session[s])
              /\ \E r \in Requests : s \in matched[r] /\ (CommitLogin(r) \/ ApplyRevocation(r))
<1>1. ASSUME NEW r \in Requests, CommitRegistration(r)
      PROVE  session'[s] = session[s] \/ (session[s] = NoSession /\ CommitRegistration(s))
  BY <1>1, RegisterMeans
<1>2. ASSUME NEW r \in Requests, CommitLogin(r)
      PROVE  \/ session'[s] = session[s]
             \/ session[s] = NoSession /\ CommitLogin(s)
             \/ s \in matched[r] /\ session[s] # NoSession /\ session'[s] = Revoked(session[s])
  BY <1>2, CommitMeans
<1>3. ASSUME NEW r \in Requests, ApplyRevocation(r)
      PROVE  \/ session'[s] = session[s]
             \/ s \in matched[r] /\ session[s] # NoSession /\ session'[s] = Revoked(session[s])
  BY <1>3, ApplyMeans DEF Revokes
<1>4. ASSUME NEW r \in Requests,
             \/ Arrives(r) \/ ReadCandidate(r) \/ Begin(r) \/ LockUser(r)
             \/ Prune(r) \/ Authenticate(r) \/ SelectSessions(r)
             \/ RecordAndAnswer(r) \/ RequestFails(r)
      PROVE  session'[s] = session[s]
  BY <1>4, ArrivalMeans, CandidateMeans, BeginMeans, LockMeans, PruneMeans,
     AuthenticateMeans, SelectMeans, RecordMeans, FailMeans
<1>5. CASE Tick \/ UNCHANGED vars
  BY <1>5, TickMeans DEF vars
<1>6. ASSUME NEW v \in Users, ChangeAccount(v) PROVE session'[s] = session[s]
  BY <1>6, ChangeMeans
<1>7. QED
  BY <1>1, <1>2, <1>3, <1>4, <1>5, <1>6, NextMeans

\* A session that is there stays one of its user, and revoked if it is.
LEMMA SessionsStay ==
    ASSUME StructInv, [Next]_vars, NEW s \in Requests, session[s] # NoSession
    PROVE  /\ session[s] \in Session /\ session'[s] \in Session /\ session'[s] # NoSession
           /\ session'[s].user = session[s].user /\ session'[s].created = session[s].created
           /\ session[s].status = "revoked" => session'[s].status = "revoked"
<1>1. session[s] \in Session
  BY DEF StructInv, Typed, TypeOK
<1>2. session'[s] = session[s] \/ session'[s] = Revoked(session[s])
  BY SessionSteps
<1>3. QED
  BY <1>1, <1>2, RevokedRow

-----------------------------------------------------------------------------
(* Types and places.                                                       *)

LEMMA TypedStep == StructInv /\ [Next]_vars => Typed'
<1> SUFFICES ASSUME StructInv, [Next]_vars PROVE Typed'
  OBVIOUS
<1>1. ASSUME NEW r \in Requests,
             \/ Arrives(r) \/ ReadCandidate(r) \/ Begin(r) \/ CommitRegistration(r)
             \/ LockUser(r) \/ Prune(r) \/ CommitLogin(r) \/ Authenticate(r)
             \/ SelectSessions(r) \/ ApplyRevocation(r) \/ RecordAndAnswer(r)
             \/ RequestFails(r)
      PROVE  Typed'
  BY <1>1, ArrivalMeans, CandidateMeans, BeginMeans, RegisterMeans, LockMeans, PruneMeans,
     CommitMeans, AuthenticateMeans, SelectMeans, ApplyMeans, RecordMeans, FailMeans
<1>2. ASSUME NEW u \in Users, ChangeAccount(u) PROVE Typed'
  BY <1>2, ChangeMeans
<1>3. CASE UNCHANGED vars
  BY <1>3 DEF vars, StructInv, Typed, TypeOK
<1>4. QED
  BY <1>1, <1>2, <1>3, TickMeans, NextMeans

\* What a request knows stays so while others move.
LEMMA PlaceStays ==
    ASSUME StructInv, [Next]_vars, NEW r \in Requests, Stays(r)
    PROVE  PlaceMeans(r)'
<1>1. PlaceMeans(r) /\ pc'[r] = pc[r] /\ call'[r] = call[r] /\ reply'[r] = reply[r]
  BY DEF StructInv, Stays
<1>2. ASSUME NEW s \in Committed PROVE s \in Committed'
  BY SessionsStay DEF Committed
<1>3. ASSUME Resolved(r) PROVE Resolved(r)'
  <2>1. PICK u \in Users : u = call[r].user /\ account[u] \in Account
                           /\ account[u].email = call[r].email
    BY <1>3 DEF Resolved
  <2>2. account'[u] \in Account /\ account'[u].email = account[u].email
    BY <2>1, AccountSteps, Nulls
  <2>3. QED
    BY <1>1, <2>1, <2>2 DEF Resolved
<1>4. ASSUME Holds(r), Resolved(r), pc[r] \in {"prune", "commit"} PROVE Holds(r)'
  <2>1. PICK u \in Users : /\ u = call[r].user /\ lock[u] = r /\ account[u] \in Account
                           /\ account[u].state = "enabled" /\ account[u].secret = call[r].secret
    BY <1>4 DEF Holds, Resolved
  <2>2. account'[u] = account[u]
    BY <2>1, AccountSteps, Nulls
  <2>3. lock'[u] = r
    <3>1. ~CommitLogin(r) /\ ~RequestFails(r)
      BY <1>1, <1>4, CommitMeans, FailMeans
    <3>2. lock[u] # Nobody
      BY <2>1, Nulls
    <3>3. QED
      BY <2>1, <3>1, <3>2, LockSteps
  <2>4. QED
    BY <1>1, <2>1, <2>2, <2>3 DEF Holds
<1>5. pc[r] \in {"prune", "commit"} => Resolved(r) /\ Holds(r)
  BY <1>1 DEF PlaceMeans
<1>6. QED
  BY <1>1, <1>2, <1>3, <1>4, <1>5 DEF PlaceMeans

\* A request that moves knows what it has learnt.
LEMMA PlaceStep == ASSUME StructInv, [Next]_vars, NEW r \in Requests PROVE PlaceMeans(r)'
<1>1. CASE Stays(r)
  BY <1>1, PlaceStays
<1>2. PlaceMeans(r)
  BY DEF StructInv
<1>3. ASSUME NEW s \in Committed PROVE s \in Committed'
  BY SessionsStay DEF Committed
<1>4. ASSUME UNCHANGED <<account, call>> PROVE Resolved(r)' = Resolved(r)
  BY <1>4 DEF Resolved
<1>5. CASE Arrives(r)
  <2>1. reply'[r] = "none"
    BY <1>2, <1>5, ArrivalMeans DEF PlaceMeans
  <2>2. QED
    BY <1>5, <2>1, ArrivalMeans DEF PlaceMeans, Committed, Revocations
<1>6. CASE ReadCandidate(r)
  <2>1. pc'[r] = "begin" => Resolved(r)'
    BY <1>6, CandidateMeans DEF Resolved
  <2>2. QED
    BY <1>6, <2>1, CandidateMeans DEF PlaceMeans, Revocations
<1>7. CASE Begin(r)
  <2>1. call[r].kind = "login" => Resolved(r)'
    BY <1>2, <1>4, <1>7, BeginMeans DEF PlaceMeans
  <2>2. QED
    BY <1>7, <2>1, BeginMeans DEF PlaceMeans, Revocations
<1>8. CASE CommitRegistration(r)
  BY <1>8, RegisterMeans DEF PlaceMeans, Revocations
<1>9. CASE LockUser(r)
  <2>1. Resolved(r)'
    BY <1>4, <1>9, LockMeans
  <2>2. pc'[r] = "prune" => Holds(r)'
    BY <1>9, LockMeans DEF Holds, Resolved
  <2>3. QED
    BY <1>9, <2>1, <2>2, LockMeans DEF PlaceMeans, Revocations
<1>10. CASE Prune(r)
  <2>1. Resolved(r) /\ Holds(r) /\ UNCHANGED <<account, call, lock>>
    BY <1>10, PruneMeans
  <2>2. Resolved(r)' /\ Holds(r)'
    BY <1>4, <2>1 DEF Holds
  <2>3. QED
    BY <1>10, <2>2, PruneMeans DEF PlaceMeans, Revocations
<1>11. CASE CommitLogin(r)
  BY <1>11, CommitMeans DEF PlaceMeans, Revocations
<1>12. CASE Authenticate(r)
  BY <1>2, <1>3, <1>12, AuthenticateMeans DEF PlaceMeans, Revocations
<1>13. CASE SelectSessions(r)
  BY <1>2, <1>3, <1>13, SelectMeans DEF PlaceMeans, Revocations
<1>14. CASE ApplyRevocation(r)
  BY <1>2, <1>3, <1>14, ApplyMeans DEF PlaceMeans, Revocations
<1>15. CASE RecordAndAnswer(r)
  BY <1>2, <1>3, <1>15, RecordMeans DEF PlaceMeans
<1>16. CASE RequestFails(r)
  BY <1>2, <1>3, <1>16, FailMeans DEF PlaceMeans, Steps
<1>17. QED
  BY <1>1, <1>5, <1>6, <1>7, <1>8, <1>9, <1>10, <1>11, <1>12, <1>13, <1>14, <1>15, <1>16,
     RequestSteps

\* The BEGIN of a transaction is in the past.
LEMMA BeganStep == ASSUME StructInv, [Next]_vars, NEW r \in Requests PROVE began'[r] <= clock'
<1>1. /\ began[r] \in Nat /\ began[r] <= clock /\ clock \in Nat
  BY BoundsAssumption DEF StructInv, Typed, TypeOK
<1>2. clock' \in Nat /\ clock' >= clock
  BY ClockSteps
<1>3. began'[r] = began[r] \/ began'[r] = 0 \/ began'[r] = clock
  <2>1. CASE \/ Arrives(r) \/ ReadCandidate(r) \/ Begin(r) \/ CommitRegistration(r)
             \/ LockUser(r) \/ Prune(r)
    BY <2>1, ArrivalMeans, CandidateMeans, BeginMeans, RegisterMeans, LockMeans, PruneMeans
  <2>2. CASE \/ CommitLogin(r) \/ Authenticate(r) \/ SelectSessions(r) \/ ApplyRevocation(r)
             \/ RecordAndAnswer(r) \/ RequestFails(r)
    BY <2>2, CommitMeans, AuthenticateMeans, SelectMeans, ApplyMeans, RecordMeans, FailMeans
  <2>3. CASE Stays(r)
    BY <2>3 DEF Stays
  <2>4. QED
    BY <2>1, <2>2, <2>3, RequestSteps
<1>4. QED
  BY <1>1, <1>2, <1>3

\* A lock and a session have their owners.
LEMMA OwnersStep == StructInv /\ [Next]_vars => OwnersMean'
<1> SUFFICES ASSUME StructInv, [Next]_vars PROVE OwnersMean'
  OBVIOUS
<1>1. ASSUME NEW u \in Users, lock'[u] # Nobody
      PROVE  pc'[lock'[u]] \in {"prune", "commit"} /\ call'[lock'[u]].user = u
  <2>1. CASE lock'[u] = lock[u]
    <3>1. PICK r \in Requests : r = lock[u]
      BY <1>1, <2>1 DEF StructInv, Typed, TypeOK
    <3>2. pc[r] \in {"prune", "commit"} /\ call[r].user = u
      BY <1>1, <2>1, <3>1 DEF StructInv, OwnersMean
    <3>3. ~CommitLogin(r) /\ ~RequestFails(r)
      BY <1>1, <2>1, <3>1, <3>2, CommitMeans, FailMeans
    <3>4. CASE Stays(r)
      BY <2>1, <3>1, <3>2, <3>4 DEF Stays
    <3>5. CASE Prune(r)
      BY <2>1, <3>1, <3>2, <3>5, PruneMeans
    <3>6. QED
      BY <3>2, <3>3, <3>4, <3>5, RequestSteps, ArrivalMeans, CandidateMeans, BeginMeans,
         RegisterMeans, LockMeans, AuthenticateMeans, SelectMeans, ApplyMeans, RecordMeans
  <2>2. CASE lock'[u] # lock[u]
    <3>1. PICK r \in Requests : /\ LockUser(r) /\ call[r].user = u
                                /\ lock'[u] = r /\ pc'[r] = "prune"
      BY <1>1, <2>2, LockSteps
    <3>2. QED
      BY <3>1, LockMeans
  <2>3. QED
    BY <2>1, <2>2
<1>2. ASSUME NEW s \in Requests, session'[s] # NoSession
      PROVE  pc'[s] \in {"audit", "done"} /\ account'[session'[s].user] # NoAccount
  <2>1. CASE session[s] # NoSession
    <3>1. pc[s] \in {"audit", "done"} /\ account[session[s].user] # NoAccount
      BY <2>1 DEF StructInv, OwnersMean
    <3>2. session'[s].user = session[s].user /\ session[s].user \in Users
      BY <2>1, SessionsStay DEF Session
    <3>3. account'[session'[s].user] # NoAccount
      <4>1. PICK u \in Users : u = session[s].user
        BY <3>2
      <4>2. account'[u] \in Account
        BY <3>1, <4>1, AccountSteps
      <4>3. QED
        BY <3>2, <4>1, <4>2, Nulls
    <3>4. pc'[s] \in {"audit", "done"}
      <4>1. ~(Arrives(s) \/ ReadCandidate(s) \/ Begin(s) \/ CommitRegistration(s) \/ LockUser(s))
        BY <3>1, ArrivalMeans, CandidateMeans, BeginMeans, RegisterMeans, LockMeans
      <4>2. ~(\/ Prune(s) \/ CommitLogin(s) \/ Authenticate(s) \/ SelectSessions(s)
              \/ ApplyRevocation(s))
        BY <3>1, PruneMeans, CommitMeans, AuthenticateMeans, SelectMeans, ApplyMeans
      <4>3. CASE RecordAndAnswer(s) \/ RequestFails(s)
        BY <4>3, RecordMeans, FailMeans
      <4>4. CASE Stays(s)
        BY <3>1, <4>4 DEF Stays
      <4>5. QED
        BY <4>1, <4>2, <4>3, <4>4, RequestSteps
    <3>5. QED
      BY <3>3, <3>4
  <2>2. CASE session[s] = NoSession
    <3>1. CommitRegistration(s) \/ CommitLogin(s)
      BY <1>2, <2>2, SessionSteps
    <3>2. CASE CommitRegistration(s)
      BY <3>2, RegisterMeans, Nulls
    <3>3. CASE CommitLogin(s)
      BY <3>3, CommitMeans, Nulls DEF Resolved
    <3>4. QED
      BY <3>1, <3>2, <3>3
  <2>3. QED
    BY <2>1, <2>2
<1>3. QED
  BY <1>1, <1>2 DEF OwnersMean

\* No step breaks it.
LEMMA StructStep == StructInv /\ [Next]_vars => StructInv'
BY TypedStep, OwnersStep, PlaceStep, BeganStep DEF StructInv

LEMMA StructInvariant == Spec => []StructInv
BY StructInit, StructStep, PTL DEF Spec

\* Every reachable state is well typed (the users and sessions tables, and the steps of
\* the handlers).
THEOREM TypeCorrect == Spec => []TypeOK
<1>1. StructInv => TypeOK
  BY DEF StructInv, Typed
<1>2. QED
  BY <1>1, StructInvariant, PTL

-----------------------------------------------------------------------------
(* Who creates and who revokes a session.                                  *)

\* A login commits a session only for an account that is then enabled, has the email
\* that was asked for and the password that was verified (LockUser looks again).
THEOREM LoginsAreRechecked == Spec => LoginRechecked
<1> DEFINE Rechecked ==
        \A r \in Requests : session[r] = NoSession /\ session'[r] # NoSession =>
            LET u == session'[r].user IN
            /\ account'[u].state = "enabled"
            /\ account'[u].email = call[r].email
            /\ account'[u].secret = call[r].secret
<1>1. StructInv /\ [Next]_vars => [Rechecked]_vars
  <2> SUFFICES ASSUME StructInv, [Next]_vars, NEW r \in Requests,
                      session[r] = NoSession, session'[r] # NoSession
               PROVE  LET u == session'[r].user IN
                      /\ account'[u].state = "enabled"
                      /\ account'[u].email = call[r].email
                      /\ account'[u].secret = call[r].secret
    OBVIOUS
  <2>1. CommitRegistration(r) \/ CommitLogin(r)
    BY SessionSteps
  <2>2. CASE CommitRegistration(r)
    BY <2>2, RegisterMeans
  <2>3. CASE CommitLogin(r)
    BY <2>3, CommitMeans DEF Resolved, Holds
  <2>4. QED
    BY <2>1, <2>2, <2>3
<1>2. QED
  BY <1>1, StructInvariant, PTL DEF Spec, LoginRechecked

\* What a transaction has selected is of its own user: a login has its new session
\* among them, a logout its own, a targeted revocation its target.
MatchedMeans(r) ==
    /\ pc[r] = "commit" => \A s \in matched[r] :
          s = r \/ (s \in Committed /\ session[s].user = call[r].user)
    /\ pc[r] = "apply" =>
          /\ \A s \in matched[r] : /\ s \in Committed
                                   /\ session[s].user = session[call[r].token].user
          /\ call[r].kind = "logout" => matched[r] = {call[r].token}
          /\ call[r].kind = "revokeOwned" => matched[r] \subseteq {call[r].target}
MatchedInv == StructInv /\ \A r \in Requests : MatchedMeans(r)

\* Sessions do not change hands between an UPDATE's selection and its commit.
LEMMA MatchedStep == MatchedInv /\ [Next]_vars => MatchedInv'
<1> SUFFICES ASSUME MatchedInv, [Next]_vars, NEW r \in Requests PROVE MatchedMeans(r)'
  BY StructStep DEF MatchedInv
<1>1. StructInv /\ MatchedMeans(r)
  BY DEF MatchedInv
<1>2. CASE Stays(r)
  <2>1. ASSUME NEW s \in Committed
        PROVE  s \in Committed' /\ session'[s].user = session[s].user
    BY <1>1, SessionsStay DEF Committed
  <2>2. pc[r] = "apply" => call[r].token \in Committed
    BY <1>1 DEF StructInv, PlaceMeans, Revocations
  <2>3. QED
    BY <1>1, <1>2, <2>1, <2>2 DEF MatchedMeans, Stays
<1>3. CASE Prune(r)
  <2>1. /\ UNCHANGED <<session, call>> /\ pc'[r] = "commit"
        /\ matched'[r] \subseteq ActiveOf(call[r].user, began[r]) \cup {r}
    BY <1>1, <1>3, PruneMeans
  <2>2. QED
    BY <2>1 DEF MatchedMeans, ActiveOf, Committed
<1>4. CASE SelectSessions(r)
  <2>1. /\ UNCHANGED <<session, call>> /\ pc[r] = "select" /\ pc'[r] = "apply"
        /\ matched'[r] = Selected(r)
    BY <1>1, <1>4, SelectMeans
  <2>2. QED
    BY <1>1, <2>1, SelectedRows DEF MatchedMeans, Committed
<1>5. CASE ~Stays(r) /\ ~Prune(r) /\ ~SelectSessions(r)
  <2>1. CASE CommitRegistration(r)
    BY <1>1, <2>1, RegisterMeans DEF MatchedMeans
  <2>2. CASE CommitLogin(r)
    BY <1>1, <2>2, CommitMeans DEF MatchedMeans
  <2>3. CASE Arrives(r) \/ ReadCandidate(r) \/ Begin(r) \/ LockUser(r)
    BY <1>1, <2>3, ArrivalMeans, CandidateMeans, BeginMeans, LockMeans DEF MatchedMeans
  <2>4. CASE Authenticate(r) \/ ApplyRevocation(r) \/ RecordAndAnswer(r) \/ RequestFails(r)
    BY <1>1, <2>4, AuthenticateMeans, ApplyMeans, RecordMeans, FailMeans DEF MatchedMeans
  <2>5. QED
    BY <1>1, <1>5, <2>1, <2>2, <2>3, <2>4, RequestSteps
<1>6. QED
  BY <1>2, <1>3, <1>4, <1>5

LEMMA MatchedInvariant == Spec => []MatchedInv
<1>1. Init => MatchedInv
  BY StructInit DEF Init, MatchedInv, MatchedMeans
<1>2. QED
  BY <1>1, MatchedStep, PTL DEF Spec

\* A session, once revoked, stays revoked, and is revoked only by a request of its own
\* user (the ids in the WHERE clauses of the three UPDATEs and of createBoundedSession).
THEOREM OwnersRevoke == Spec => RevokedByOwner
<1> DEFINE ByOwner ==
        \A s \in Requests : session[s] # NoSession /\ session'[s] # session[s] =>
            /\ session'[s] = [session[s] EXCEPT !.status = "revoked"]
            /\ \E r \in Requests :
                /\ pc[r] \in {"apply", "commit"} /\ pc'[r] # pc[r]
                /\ session[s].user = IF pc[r] = "commit" THEN call[r].user
                                     ELSE session[call[r].token].user
<1>1. MatchedInv /\ [Next]_vars => [ByOwner]_vars
  <2> SUFFICES ASSUME MatchedInv, [Next]_vars, NEW s \in Requests,
                      session[s] # NoSession, session'[s] # session[s]
               PROVE  /\ session'[s] = [session[s] EXCEPT !.status = "revoked"]
                      /\ \E r \in Requests :
                          /\ pc[r] \in {"apply", "commit"} /\ pc'[r] # pc[r]
                          /\ session[s].user = IF pc[r] = "commit" THEN call[r].user
                                               ELSE session[call[r].token].user
    OBVIOUS
  <2>1. StructInv /\ session'[s] = Revoked(session[s])
    BY SessionSteps DEF MatchedInv
  <2>2. PICK r \in Requests : s \in matched[r] /\ (CommitLogin(r) \/ ApplyRevocation(r))
    BY <2>1, SessionSteps
  <2>3. MatchedMeans(r)
    BY DEF MatchedInv
  <2>4. CASE CommitLogin(r)
    <3>1. pc[r] = "commit" /\ pc'[r] = "audit" /\ session[r] = NoSession
      BY <2>1, <2>4, CommitMeans
    <3>2. s # r /\ session[s].user = call[r].user
      BY <2>2, <2>3, <3>1 DEF MatchedMeans
    <3>3. QED
      BY <2>1, <3>1, <3>2 DEF Revoked
  <2>5. CASE ApplyRevocation(r)
    <3>1. pc[r] = "apply" /\ pc'[r] \in {"audit", "done"}
      BY <2>1, <2>5, ApplyMeans
    <3>2. session[s].user = session[call[r].token].user
      BY <2>2, <2>3, <3>1 DEF MatchedMeans
    <3>3. QED
      BY <2>1, <3>1, <3>2 DEF Revoked
  <2>6. QED
    BY <2>2, <2>4, <2>5
<1>2. QED
  BY <1>1, MatchedInvariant, PTL DEF Spec, RevokedByOwner

-----------------------------------------------------------------------------
(* What an answered revocation is good for.                                *)

\* A request that has committed its revocation, or is answered for it.
Done(r) == pc[r] = "audit" \/ reply[r] = "revoked"

\* Its session, or its target, is revoked.
RevocationDone(r) ==
    Done(r) =>
        /\ call[r].kind = "logout" => session[call[r].token].status = "revoked"
        /\ call[r].kind = "revokeOwned" => session[call[r].target].status = "revoked"
RevocationsInv == MatchedInv /\ \A r \in Requests : RevocationDone(r)

\* The commit revokes what was selected, and nothing makes a session live again.
LEMMA RevocationStep == RevocationsInv /\ [Next]_vars => RevocationsInv'
<1> SUFFICES ASSUME RevocationsInv, [Next]_vars, NEW r \in Requests PROVE RevocationDone(r)'
  BY MatchedStep DEF RevocationsInv
<1>1. StructInv /\ MatchedMeans(r) /\ RevocationDone(r) /\ PlaceMeans(r)
  BY DEF RevocationsInv, MatchedInv, StructInv
<1>2. ASSUME Done(r), call'[r] = call[r] PROVE RevocationDone(r)'
  <2>1. pc[r] # "idle"
    BY <1>1, <1>2 DEF Done, PlaceMeans
  <2>2. ASSUME call[r].kind = "logout" PROVE session'[call[r].token].status = "revoked"
    <3>1. PICK s \in Requests : s = call[r].token /\ session[s] # NoSession
      BY <1>1, <2>1, <2>2 DEF PlaceMeans, Revocations, Committed
    <3>2. QED
      BY <1>1, <1>2, <2>2, <3>1, SessionsStay DEF RevocationDone
  <2>3. ASSUME call[r].kind = "revokeOwned" PROVE session'[call[r].target].status = "revoked"
    <3>1. PICK s \in Requests : s = call[r].target /\ session[s] # NoSession
      BY <1>1, <2>1, <2>3 DEF PlaceMeans, Revocations, Committed
    <3>2. QED
      BY <1>1, <1>2, <2>3, <3>1, SessionsStay DEF RevocationDone
  <2>4. QED
    BY <1>2, <2>2, <2>3 DEF RevocationDone
<1>3. CASE Stays(r)
  <2>1. CASE Done(r)
    BY <1>2, <1>3, <2>1 DEF Stays
  <2>2. CASE ~Done(r)
    BY <1>3, <2>2 DEF Stays, Done, RevocationDone
  <2>3. QED
    BY <2>1, <2>2
<1>4. CASE ApplyRevocation(r)
  <2>1. /\ pc[r] = "apply" /\ UNCHANGED call /\ Revokes(matched[r])
        /\ \/ pc'[r] = "audit" /\ (call[r].kind = "revokeOwned" => matched[r] # {})
           \/ pc'[r] = "done" /\ reply'[r] = "not_found"
    BY <1>1, <1>4, ApplyMeans
  <2>2. ASSUME NEW s \in matched[r] PROVE session'[s].status = "revoked"
    <3>1. s \in Requests /\ session[s] \in Session
      BY <1>1, <2>1 DEF MatchedMeans, Committed, StructInv, Typed, TypeOK
    <3>2. QED
      BY <2>1, <3>1, RevokedRow, Nulls DEF Revokes
  <2>3. QED
    BY <1>1, <2>1, <2>2 DEF MatchedMeans, RevocationDone, Done
<1>5. CASE RecordAndAnswer(r)
  BY <1>1, <1>2, <1>5, RecordMeans DEF Done
<1>6. CASE CommitRegistration(r)
  BY <1>1, <1>6, RegisterMeans DEF RevocationDone
<1>7. CASE CommitLogin(r)
  BY <1>1, <1>7, CommitMeans DEF RevocationDone
<1>8. CASE \/ Arrives(r) \/ ReadCandidate(r) \/ Begin(r) \/ LockUser(r) \/ Prune(r)
           \/ Authenticate(r) \/ SelectSessions(r) \/ RequestFails(r)
  <2>1. pc'[r] # "audit" /\ reply'[r] # "revoked"
    <3>1. CASE Arrives(r)
      BY <1>1, <3>1, ArrivalMeans DEF PlaceMeans
    <3>2. CASE ReadCandidate(r) \/ Begin(r) \/ LockUser(r) \/ Prune(r)
      BY <1>1, <3>2, CandidateMeans, BeginMeans, LockMeans, PruneMeans
    <3>3. CASE Authenticate(r) \/ SelectSessions(r) \/ RequestFails(r)
      BY <1>1, <3>3, AuthenticateMeans, SelectMeans, FailMeans
    <3>4. QED
      BY <1>8, <3>1, <3>2, <3>3
  <2>2. QED
    BY <2>1 DEF RevocationDone, Done
<1>9. QED
  BY <1>1, <1>3, <1>4, <1>5, <1>6, <1>7, <1>8, RequestSteps

\* A session whose logout or revocation was answered never authenticates again.
THEOREM RevocationsHold == Spec => []AnsweredRevocationHolds
<1>1. Init => RevocationsInv
  <2>1. Init => MatchedInv
    BY StructInit DEF Init, MatchedInv, MatchedMeans
  <2>2. QED
    BY <2>1 DEF Init, RevocationsInv, RevocationDone, Done
<1>2. RevocationsInv => AnsweredRevocationHolds
  BY DEF RevocationsInv, RevocationDone, Done, AnsweredRevocationHolds, Authenticated, Active
<1>3. QED
  BY <1>1, <1>2, RevocationStep, PTL DEF Spec

\* A session that is active was so before, if it was there.
LEMMA ActiveStays ==
    ASSUME StructInv, [Next]_vars, NEW s \in Committed, Active(s, clock)'
    PROVE  Active(s, clock)
<1>1. /\ s \in Requests /\ session[s] # NoSession /\ session[s] \in Session
      /\ session'[s].created = session[s].created
      /\ session[s].status = "revoked" => session'[s].status = "revoked"
  BY SessionsStay DEF Committed
<1>2. /\ clock \in Nat /\ clock' \in Nat /\ clock' >= clock
      /\ Lifetime \in Nat /\ session[s].created \in Nat
  BY <1>1, ClockSteps, BoundsAssumption DEF StructInv, Typed, TypeOK, Session
<1>3. /\ session'[s].status = "live" /\ clock' < session'[s].created + Lifetime
  BY DEF Active
<1>4. session[s].status = "live"
  BY <1>1, <1>3 DEF Session
<1>5. QED
  BY <1>1, <1>2, <1>3, <1>4 DEF Active

\* The other sessions its user had when a revoke-others arrived are selected when it has
\* looked for them, and gone when it has committed, or its own is no longer active.
OthersOf(r) ==
    {s \in before[r] : s # call[r].token /\ session[s].user = session[call[r].token].user}
OthersGone(r) ==
    pc[r] # "idle" /\ call[r].kind = "revokeOthers" =>
        /\ before[r] \subseteq Committed
        /\ Active(call[r].token, clock) =>
              \A s \in OthersOf(r) :
                 /\ pc[r] = "apply" => s \in matched[r] \/ ~Active(s, clock)
                 /\ Done(r) => ~Active(s, clock)
OthersInv == MatchedInv /\ \A r \in Requests : OthersGone(r)

\* While it waits sessions only expire and are revoked.
LEMMA OthersKeep ==
    ASSUME StructInv, [Next]_vars, NEW r \in Requests, OthersGone(r), pc[r] # "idle",
           call'[r] = call[r], before'[r] = before[r], call[r].kind = "revokeOthers"
    PROVE  /\ before[r] \subseteq Committed /\ before[r] \subseteq Committed'
           /\ Active(call[r].token, clock)' => Active(call[r].token, clock)
           /\ OthersOf(r)' = OthersOf(r)
           /\ \A s \in OthersOf(r) : Active(s, clock)' => Active(s, clock)
<1>1. PICK t \in Committed : t = call[r].token
  BY DEF StructInv, PlaceMeans, Revocations
<1>2. before[r] \subseteq Committed
  BY DEF OthersGone
<1>3. ASSUME NEW s \in Committed
      PROVE  s \in Committed' /\ session'[s].user = session[s].user
             /\ (Active(s, clock)' => Active(s, clock))
  BY ActiveStays, SessionsStay DEF Committed
<1>4. OthersOf(r)' = OthersOf(r)
  BY <1>1, <1>2, <1>3 DEF OthersOf
<1>5. Active(call[r].token, clock)' => Active(call[r].token, clock)
  BY <1>1, <1>3 DEF Active
<1>6. QED
  BY <1>2, <1>3, <1>4, <1>5 DEF OthersOf

LEMMA OthersStep == OthersInv /\ [Next]_vars => OthersInv'
<1> SUFFICES ASSUME OthersInv, [Next]_vars, NEW r \in Requests,
                    pc'[r] # "idle", call'[r].kind = "revokeOthers"
             PROVE  OthersGone(r)'
  BY MatchedStep DEF OthersInv, OthersGone
<1>1. StructInv /\ MatchedMeans(r) /\ OthersGone(r) /\ PlaceMeans(r)
  BY DEF OthersInv, MatchedInv, StructInv
<1>2. CASE Arrives(r)
  <2>1. /\ pc'[r] = "auth" /\ reply'[r] = "none" /\ UNCHANGED session /\ before'[r] = Committed
    BY <1>1, <1>2, ArrivalMeans DEF PlaceMeans
  <2>2. QED
    BY <2>1 DEF OthersGone, Done, Committed
<1>3. ASSUME pc[r] # "idle", UNCHANGED <<call[r], before[r]>>,
             pc'[r] # "apply" \/ (pc[r] = "apply" /\ matched'[r] = matched[r]),
             Done(r)' => Done(r)
      PROVE  OthersGone(r)'
  <2>1. /\ before[r] \subseteq Committed'
        /\ Active(call[r].token, clock)' => Active(call[r].token, clock)
        /\ OthersOf(r)' = OthersOf(r)
        /\ \A s \in OthersOf(r) : Active(s, clock)' => Active(s, clock)
    BY <1>1, <1>3, OthersKeep
  <2>2. QED
    BY <1>1, <1>3, <2>1 DEF OthersGone
<1>4. CASE Stays(r) \/ RecordAndAnswer(r)
  <2>1. CASE Stays(r)
    BY <1>3, <2>1 DEF Stays, Done
  <2>2. CASE RecordAndAnswer(r)
    BY <1>1, <1>3, <2>2, RecordMeans DEF Done
  <2>3. QED
    BY <1>4, <2>1, <2>2
<1>5. CASE Authenticate(r) \/ RequestFails(r)
  <2>1. CASE Authenticate(r)
    BY <1>1, <1>3, <2>1, AuthenticateMeans DEF Done
  <2>2. CASE RequestFails(r)
    BY <1>1, <1>3, <2>2, FailMeans DEF Done, Steps
  <2>3. QED
    BY <1>5, <2>1, <2>2
<1>6. CASE SelectSessions(r)
  <2>1. /\ pc[r] = "select" /\ pc'[r] = "apply" /\ reply'[r] = "none"
        /\ UNCHANGED <<session, clock, call, before>> /\ matched'[r] = Selected(r)
    BY <1>1, <1>6, SelectMeans
  <2>2. Active(call[r].token, clock) =>
            Selected(r) = ActiveOf(session[call[r].token].user, clock) \ {call[r].token}
    BY <1>1, <2>1, SelectedRows
  <2>3. before[r] \subseteq Committed /\ before[r] \subseteq Committed'
    BY <1>1, <2>1 DEF OthersGone, Committed
  <2>4. ASSUME Active(call[r].token, clock), NEW s \in OthersOf(r), Active(s, clock)
        PROVE  s \in Selected(r)
    BY <2>2, <2>3, <2>4 DEF OthersOf, ActiveOf
  <2>5. OthersOf(r)' = OthersOf(r) /\ Active(call[r].token, clock)' = Active(call[r].token, clock)
        /\ \A s \in Requests : Active(s, clock)' = Active(s, clock)
    BY <2>1 DEF OthersOf, Active
  <2>6. OthersOf(r) \subseteq Requests
    BY <2>3 DEF OthersOf, Committed
  <2>7. QED
    BY <2>1, <2>3, <2>4, <2>5, <2>6 DEF OthersGone, Done
<1>7. CASE ApplyRevocation(r)
  <2>1. /\ pc[r] = "apply" /\ UNCHANGED <<call, before>> /\ Revokes(matched[r])
        /\ pc'[r] \in {"audit", "done"} /\ clock' = clock
    BY <1>1, <1>7, ApplyMeans
  <2>2. /\ before[r] \subseteq Committed /\ before[r] \subseteq Committed'
        /\ Active(call[r].token, clock)' => Active(call[r].token, clock)
        /\ OthersOf(r)' = OthersOf(r)
        /\ \A s \in OthersOf(r) : Active(s, clock)' => Active(s, clock)
    BY <1>1, <2>1, OthersKeep
  <2>3. ASSUME Active(call[r].token, clock), NEW s \in OthersOf(r) PROVE ~Active(s, clock)'
    <3>1. s \in matched[r] \/ ~Active(s, clock)
      BY <1>1, <2>1, <2>3 DEF OthersGone
    <3>2. CASE s \in matched[r]
      <4>1. s \in Requests /\ session[s] \in Session
        BY <1>1, <2>1, <3>2 DEF MatchedMeans, Committed, StructInv, Typed, TypeOK
      <4>2. session'[s].status = "revoked"
        BY <2>1, <3>2, <4>1, RevokedRow, Nulls DEF Revokes
      <4>3. QED
        BY <4>2 DEF Active
    <3>3. QED
      BY <2>2, <3>1, <3>2
  <2>4. QED
    BY <2>1, <2>2, <2>3 DEF OthersGone
<1>8. CASE \/ ReadCandidate(r) \/ Begin(r) \/ CommitRegistration(r) \/ LockUser(r)
           \/ Prune(r) \/ CommitLogin(r)
  <2>1. CASE ReadCandidate(r) \/ LockUser(r) \/ Prune(r) \/ CommitLogin(r)
    BY <1>1, <2>1, CandidateMeans, LockMeans, PruneMeans, CommitMeans
  <2>2. CASE Begin(r) \/ CommitRegistration(r)
    BY <1>1, <2>2, BeginMeans, RegisterMeans
  <2>3. QED
    BY <1>8, <2>1, <2>2
<1>9. QED
  BY <1>1, <1>2, <1>4, <1>5, <1>6, <1>7, <1>8, RequestSteps

\* When "revoke others" is answered to a session that is still active, every session its
\* user had when the request arrived is gone (revokeOtherSessions).
THEOREM OthersAreRevoked == Spec => []RevokeOthersComplete
<1>1. Init => OthersInv
  <2>1. Init => MatchedInv
    BY StructInit DEF Init, MatchedInv, MatchedMeans
  <2>2. QED
    BY <2>1 DEF Init, OthersInv, OthersGone
<1>2. OthersInv => RevokeOthersComplete
  <2> SUFFICES ASSUME OthersInv, NEW r \in Requests,
                      reply[r] = "revoked", call[r].kind = "revokeOthers",
                      Active(call[r].token, clock), NEW s \in before[r] \ {call[r].token},
                      session[s].user = session[call[r].token].user
               PROVE  ~Active(s, clock)
    BY DEF RevokeOthersComplete
  <2>1. pc[r] # "idle" /\ Done(r)
    BY DEF OthersInv, MatchedInv, StructInv, PlaceMeans, Done
  <2>2. s \in OthersOf(r)
    BY DEF OthersOf
  <2>3. QED
    BY <2>1, <2>2 DEF OthersInv, OthersGone
<1>3. QED
  BY <1>1, <1>2, OthersStep, PTL DEF Spec

-----------------------------------------------------------------------------
(* How many sessions a user has.                                           *)

\* A part of few sessions is few.
LEMMA Fewer ==
    ASSUME NEW T, IsFiniteSet(T), Cardinality(T) <= MaxActive, NEW S \in SUBSET T
    PROVE  Cardinality(S) <= MaxActive
<1>1. IsFiniteSet(S) /\ Cardinality(S) <= Cardinality(T)
  BY FS_Subset
<1>2. Cardinality(S) \in Nat /\ Cardinality(T) \in Nat
  BY <1>1, FS_CardinalityType
<1>3. QED
  BY <1>1, <1>2, BoundsAssumption

\* What is left of the user's active sessions when the login commits what it selected.
Left(r) == (ActiveOf(call[r].user, clock) \cup {r}) \ matched[r]
CapInv ==
    /\ StructInv /\ IsFiniteSet(Committed) /\ SessionCap
    /\ \A r \in Requests : pc[r] = "commit" => Cardinality(Left(r)) <= MaxActive

\* The active sessions of a user become fewer, but when it registers or logs in.
LEMMA ActiveSteps ==
    ASSUME StructInv, [Next]_vars, NEW u \in Users
    PROVE  \/ ActiveOf(u, clock)' \subseteq ActiveOf(u, clock)
           \/ \E r \in Requests : /\ CommitRegistration(r) /\ account[u] = NoAccount
                                  /\ ActiveOf(u, clock)' \subseteq {r}
           \/ \E r \in Requests : /\ CommitLogin(r) /\ call[r].user = u
                                  /\ ActiveOf(u, clock)' \subseteq Left(r)
<1>1. ASSUME NEW s \in ActiveOf(u, clock)', session[s] # NoSession
      PROVE  s \in ActiveOf(u, clock)
  <2>1. s \in Committed /\ Active(s, clock)' /\ session'[s].user = u
    BY <1>1 DEF ActiveOf, Committed
  <2>2. Active(s, clock)
    BY <2>1, ActiveStays
  <2>3. session[s].user = u
    BY <2>1, SessionsStay DEF Committed
  <2>4. QED
    BY <2>1, <2>2, <2>3 DEF ActiveOf
<1>2. CASE \A s \in ActiveOf(u, clock)' : session[s] # NoSession
  BY <1>1, <1>2
<1>3. CASE \E s \in ActiveOf(u, clock)' : session[s] = NoSession
  <2>1. PICK r \in ActiveOf(u, clock)' : session[r] = NoSession
    BY <1>3
  <2>2. /\ r \in Requests /\ session'[r] # NoSession /\ session'[r].user = u
        /\ session'[r].status = "live"
    BY <2>1 DEF ActiveOf, Committed, Active
  <2>3. CommitRegistration(r) \/ CommitLogin(r)
    BY <2>1, <2>2, SessionSteps
  <2>4. CASE CommitRegistration(r)
    <3>1. account[u] = NoAccount /\ \A s \in Requests \ {r} : session'[s] = session[s]
      BY <2>2, <2>4, RegisterMeans
    <3>2. ASSUME NEW s \in ActiveOf(u, clock)', s # r PROVE FALSE
      <4>1. s \in Requests /\ session'[s] # NoSession
        BY <3>2 DEF ActiveOf, Committed
      <4>2. s \in ActiveOf(u, clock)
        BY <1>1, <3>1, <3>2, <4>1
      <4>3. QED
        BY <3>1, <4>2 DEF ActiveOf, Committed, StructInv, OwnersMean
    <3>3. QED
      BY <2>2, <2>4, <3>1, <3>2
  <2>5. CASE CommitLogin(r)
    <3>1. /\ call[r].user = u /\ (r \in matched[r] => session'[r].status = "revoked")
          /\ \A s \in Requests \ {r} :
                session'[s] = IF s \in matched[r] /\ session[s] # NoSession
                              THEN Revoked(session[s]) ELSE session[s]
      BY <2>2, <2>5, CommitMeans
    <3>2. ASSUME NEW s \in ActiveOf(u, clock)', s # r
          PROVE  s \in ActiveOf(u, clock) /\ s \notin matched[r]
      <4>1. s \in Requests /\ session'[s] # NoSession /\ session'[s].status = "live"
        BY <3>2 DEF ActiveOf, Committed, Active
      <4>2. session[s] # NoSession
        BY <3>1, <3>2, <4>1
      <4>3. session[s] \in Session
        BY <4>1, <4>2, SessionsStay
      <4>4. s \notin matched[r]
        BY <3>1, <3>2, <4>1, <4>2, <4>3, RevokedRow
      <4>5. QED
        BY <1>1, <3>2, <4>2, <4>4
    <3>3. r \notin matched[r]
      BY <2>2, <3>1
    <3>4. ActiveOf(u, clock)' \subseteq Left(r)
      BY <3>1, <3>2, <3>3 DEF Left
    <3>5. QED
      BY <2>2, <2>5, <3>1, <3>4
  <2>6. QED
    BY <2>3, <2>4, <2>5
<1>4. QED
  BY <1>2, <1>3

\* A step commits one session at most.
LEMMA CommittedSteps ==
    ASSUME StructInv, [Next]_vars, IsFiniteSet(Committed)
    PROVE  IsFiniteSet(Committed')
<1>1. ASSUME NEW r \in Requests, CommitRegistration(r) \/ CommitLogin(r)
      PROVE  \A s \in Requests \ {r} : session'[s] # NoSession => session[s] # NoSession
  <2>1. CASE CommitRegistration(r)
    BY <2>1, RegisterMeans
  <2>2. CASE CommitLogin(r)
    BY <2>2, CommitMeans
  <2>3. QED
    BY <1>1, <2>1, <2>2
<1>2. CASE \E r \in Requests : CommitRegistration(r) \/ CommitLogin(r)
  <2>1. PICK r \in Requests : CommitRegistration(r) \/ CommitLogin(r)
    BY <1>2
  <2>2. Committed' \in SUBSET (Committed \cup {r})
    BY <1>1, <2>1 DEF Committed
  <2>3. IsFiniteSet(Committed \cup {r})
    BY FS_AddElement
  <2>4. QED
    BY <2>2, <2>3, FS_Subset
<1>3. CASE ~\E r \in Requests : CommitRegistration(r) \/ CommitLogin(r)
  <2>1. Committed' \in SUBSET Committed
    BY <1>3, SessionSteps DEF Committed
  <2>2. QED
    BY <2>1, FS_Subset
<1>4. QED
  BY <1>2, <1>3

\* What a login leaves when it has selected is a part of what it keeps.
LEMMA PruneLeaves ==
    ASSUME StructInv, IsFiniteSet(Committed), NEW r \in Requests, Prune(r)
    PROVE  Cardinality(Left(r)') <= MaxActive
<1> DEFINE u == call[r].user
           rows == ActiveOf(u, began[r]) \cup {r}
<1>1. /\ UNCHANGED <<session, clock, call>>
      /\ \E kept \in SUBSET rows :
            /\ Cardinality(kept) = IF Cardinality(rows) < MaxActive
                                   THEN Cardinality(rows) ELSE MaxActive
            /\ matched'[r] = rows \ kept
  BY PruneMeans
<1>2. PICK kept \in SUBSET rows :
          /\ Cardinality(kept) = IF Cardinality(rows) < MaxActive
                                 THEN Cardinality(rows) ELSE MaxActive
          /\ matched'[r] = rows \ kept
  BY <1>1
<1>3. IsFiniteSet(rows)
  <2>1. ActiveOf(u, began[r]) \in SUBSET Committed
    BY DEF ActiveOf
  <2>2. IsFiniteSet(ActiveOf(u, began[r]))
    BY <2>1, FS_Subset
  <2>3. QED
    BY <2>2, FS_AddElement
<1>4. ActiveOf(u, clock) \subseteq ActiveOf(u, began[r])
  <2> SUFFICES ASSUME NEW s \in ActiveOf(u, clock) PROVE Active(s, began[r])
    BY DEF ActiveOf
  <2>1. s \in Committed /\ Active(s, clock)
    BY DEF ActiveOf
  <2>2. session[s] \in Session
    BY <2>1 DEF Committed, StructInv, Typed, TypeOK
  <2>3. /\ session[s].created \in Nat /\ Lifetime \in Nat
        /\ began[r] \in Nat /\ clock \in Nat /\ began[r] <= clock
    BY <2>2, BoundsAssumption DEF Session, StructInv, Typed, TypeOK
  <2>4. QED
    BY <2>1, <2>3 DEF Active
<1>5. ActiveOf(u, clock)' = ActiveOf(u, clock)
  BY <1>1 DEF ActiveOf, Committed, Active
<1>6. Left(r)' = (ActiveOf(u, clock) \cup {r}) \ matched'[r]
  BY <1>1, <1>5 DEF Left
<1>7. Left(r)' \in SUBSET kept
  BY <1>2, <1>4, <1>6
<1>8. IsFiniteSet(kept) /\ Cardinality(kept) <= MaxActive
  <2>1. IsFiniteSet(kept)
    BY <1>2, <1>3, FS_Subset
  <2>2. Cardinality(kept) \in Nat /\ Cardinality(rows) \in Nat
    BY <2>1, <1>3, FS_CardinalityType
  <2>3. QED
    BY <1>2, <2>1, <2>2, BoundsAssumption
<1>9. QED
  BY <1>7, <1>8, Fewer

LEMMA CapStep == CapInv /\ [Next]_vars => CapInv'
<1> SUFFICES ASSUME CapInv, [Next]_vars PROVE CapInv'
  OBVIOUS
<1>1. StructInv /\ IsFiniteSet(Committed) /\ StructInv' /\ IsFiniteSet(Committed')
  BY StructStep, CommittedSteps DEF CapInv
<1>2. ASSUME NEW u \in Users
      PROVE  IsFiniteSet(ActiveOf(u, clock)) /\ Cardinality(ActiveOf(u, clock)) <= MaxActive
  <2>1. ActiveOf(u, clock) \in SUBSET Committed
    BY DEF ActiveOf
  <2>2. QED
    BY <1>1, <2>1, FS_Subset DEF CapInv, SessionCap
<1>3. ASSUME NEW r \in Requests, pc[r] = "commit"
      PROVE  IsFiniteSet(Left(r)) /\ Cardinality(Left(r)) <= MaxActive
  <2>1. Left(r) \in SUBSET (Committed \cup {r})
    BY DEF Left, ActiveOf
  <2>2. IsFiniteSet(Committed \cup {r})
    BY <1>1, FS_AddElement
  <2>3. QED
    BY <1>3, <2>1, <2>2, FS_Subset DEF CapInv
<1>4. ASSUME NEW u \in Users PROVE Cardinality(ActiveOf(u, clock)') <= MaxActive
  <2>1. CASE ActiveOf(u, clock)' \subseteq ActiveOf(u, clock)
    BY <1>2, <2>1, Fewer
  <2>2. ASSUME NEW r \in Requests, ActiveOf(u, clock)' \subseteq {r}
        PROVE  Cardinality(ActiveOf(u, clock)') <= MaxActive
    <3>1. IsFiniteSet({r}) /\ Cardinality({r}) = 1
      BY FS_Singleton, Zenon
    <3>2. Cardinality({r}) <= MaxActive
      BY <3>1, BoundsAssumption
    <3>3. QED
      BY <2>2, <3>1, <3>2, Fewer
  <2>3. ASSUME NEW r \in Requests, CommitLogin(r), ActiveOf(u, clock)' \subseteq Left(r)
        PROVE  Cardinality(ActiveOf(u, clock)') <= MaxActive
    <3>1. pc[r] = "commit"
      BY <1>1, <2>3, CommitMeans
    <3>2. QED
      BY <1>3, <2>3, <3>1, Fewer
  <2>4. QED
    BY <1>1, <2>1, <2>2, <2>3, ActiveSteps
<1>5. ASSUME NEW r \in Requests, pc'[r] = "commit" PROVE Cardinality(Left(r)') <= MaxActive
  <2>1. CASE Stays(r)
    <3>1. /\ pc[r] = "commit" /\ matched'[r] = matched[r] /\ call'[r] = call[r]
          /\ Resolved(r) /\ Holds(r)
      BY <1>1, <1>5, <2>1 DEF Stays, StructInv, PlaceMeans
    <3>2. PICK u \in Users : u = call[r].user /\ account[u] \in Account /\ lock[u] = r
      BY <3>1 DEF Resolved, Holds
    <3>3. ASSUME NEW q \in Requests, CommitLogin(q), call[q].user = u PROVE FALSE
      <4>1. q = r
        BY <1>1, <3>2, <3>3, CommitMeans DEF Holds
      <4>2. QED
        BY <1>1, <1>5, <3>3, <4>1, CommitMeans
    <3>4. ActiveOf(u, clock)' \subseteq ActiveOf(u, clock)
      BY <1>1, <3>2, <3>3, ActiveSteps, Nulls
    <3>5. Left(r)' = (ActiveOf(u, clock)' \cup {r}) \ matched[r]
      BY <3>1, <3>2 DEF Left
    <3>6. Left(r)' \in SUBSET Left(r)
      BY <3>2, <3>4, <3>5 DEF Left
    <3>7. QED
      BY <1>3, <3>1, <3>6, Fewer
  <2>2. CASE Prune(r)
    BY <1>1, <2>2, PruneLeaves
  <2>3. CASE ~Stays(r) /\ ~Prune(r)
    <3>1. pc'[r] # "commit"
      BY <1>1, <2>3, RequestSteps, ArrivalMeans, CandidateMeans, BeginMeans, RegisterMeans,
         LockMeans, CommitMeans, AuthenticateMeans, SelectMeans, ApplyMeans, RecordMeans,
         FailMeans
    <3>2. QED
      BY <1>5, <3>1
  <2>4. QED
    BY <2>1, <2>2, <2>3
<1>6. QED
  BY <1>1, <1>4, <1>5 DEF CapInv, SessionCap

\* Concurrent logins never leave a user more than MaxActive active sessions
\* (createBoundedSession, under the lock that login takes of the user's row).
THEOREM SessionsAreBounded == Spec => []SessionCap
<1>1. Init => CapInv
  <2> SUFFICES ASSUME Init PROVE CapInv
    OBVIOUS
  <2>1. Committed = {} /\ \A r \in Requests : pc[r] # "commit"
    BY DEF Init, Committed
  <2>2. \A u \in Users : ActiveOf(u, clock) = {}
    BY <2>1 DEF ActiveOf
  <2>3. QED
    BY <2>1, <2>2, StructInit, FS_EmptySet, BoundsAssumption DEF CapInv, SessionCap
<1>2. CapInv => SessionCap
  BY DEF CapInv
<1>3. QED
  BY <1>1, <1>2, CapStep, PTL DEF Spec
=============================================================================
