------------------------------ MODULE Sessions ------------------------------
(***************************************************************************)
(* Accounts and their server-managed sessions: PostgresAuthRepository, the *)
(* users and sessions tables, and the auth handlers of app.ts that write   *)
(* them.                                                                   *)
(*                                                                         *)
(* A request is a process; a step is one SQL statement or transaction.     *)
(* Transactions run at READ COMMITTED: an UPDATE of several rows selects   *)
(* them in the snapshot of its start and applies to those still unrevoked  *)
(* at its commit, two steps here.  now() is the start of the transaction,  *)
(* so created_at is the time of BEGIN.  A session's id and token are fresh *)
(* and named by the request that creates it.                               *)
(***************************************************************************)
EXTENDS Integers, FiniteSets

CONSTANTS
    Requests,     \* HTTP requests that may ever arrive
    Users,        \* ids that registrations give to the users they insert
    Emails,
    Secrets,      \* passwords; equal exactly when the hashes verify
    MaxActive,    \* MAX_ACTIVE_SESSIONS_PER_USER
    Lifetime,     \* SESSION_LIFETIME_HOURS, in units of the clock
    MaxClock,     \* bound: the clock stops there
    NoAccount, NoSession, Nobody

ASSUME BoundsAssumption ==
    MaxActive \in Nat \ {0} /\ Lifetime \in Nat \ {0} /\ MaxClock \in Nat
ASSUME NullAssumption == Nobody \notin Requests \cup Users

VARIABLES
    account,    \* account[u]: the row of user u, or NoAccount
    session,    \* session[s]: the committed row of session s, or NoSession
    lock,       \* lock[u]: the login holding FOR UPDATE on the row of u
    clock,
    pc, call, reply,
    began,      \* the clock at the BEGIN of each request's transaction
    matched,    \* the sessions each request's UPDATE has selected
    before      \* history: the sessions committed when a revoke-others arrived

vars == <<account, session, lock, clock, pc, call, reply, began, matched, before>>
database == <<account, session, lock>>
locals == <<began, matched>>

Account == [email: Emails, secret: Secrets, state: {"enabled", "disabled"}]
Session == [user: Users, created: 0..MaxClock, status: {"live", "revoked"}]
ASSUME RowAssumption == NoAccount \notin Account /\ NoSession \notin Session

\* What the request asks, and the user and password hash it has resolved.
Call == [kind: {"register", "login", "logout", "revokeOwned", "revokeOthers"},
         email: Emails, secret: Secrets, token: Requests, target: Requests,
         user: Users \cup {Nobody}]
Steps == {"begin", "insert", "candidate", "lock", "prune", "commit",
          "auth", "select", "apply", "audit"}
Replies == {"none", "session", "rejected", "revoked", "unauthenticated",
            "not_found", "error"}

TypeOK ==
    /\ account \in [Users -> Account \cup {NoAccount}]
    /\ session \in [Requests -> Session \cup {NoSession}]
    /\ lock \in [Users -> Requests \cup {Nobody}]
    /\ clock \in 0..MaxClock
    /\ pc \in [Requests -> {"idle", "done"} \cup Steps]
    /\ \A r \in Requests : pc[r] # "idle" => call[r] \in Call
    /\ reply \in [Requests -> Replies]
    /\ began \in [Requests -> 0..MaxClock]
    /\ matched \in [Requests -> SUBSET Requests]
    /\ before \in [Requests -> SUBSET Requests]

Committed == {s \in Requests : session[s] # NoSession}
\* Fault: the query leaves out revoked_at IS NULL.
Active_IgnoresRevocation(s, now) ==
    session[s] # NoSession /\ now < session[s].created + Lifetime

Active(s, now) ==
    /\ session[s] # NoSession
    /\ session[s].status = "live"
    /\ now < session[s].created + Lifetime
ActiveOf(u, now) == {s \in Committed : session[s].user = u /\ Active(s, now)}
EnabledWith(e) ==
    {u \in Users : account[u] # NoAccount /\ account[u].email = e
                   /\ account[u].state = "enabled"}

Init ==
    /\ account = [u \in Users |-> NoAccount]
    /\ session = [s \in Requests |-> NoSession]
    /\ lock = [u \in Users |-> Nobody]
    /\ clock = 0
    /\ pc = [r \in Requests |-> "idle"]
    /\ call = [r \in Requests |-> Nobody]
    /\ reply = [r \in Requests |-> "none"]
    /\ began = [r \in Requests |-> 0]
    /\ matched = [r \in Requests |-> {}]
    /\ before = [r \in Requests |-> {}]

Goto(r, next) == pc' = [pc EXCEPT ![r] = next] /\ UNCHANGED reply
Answer(r, answer) ==
    /\ pc' = [pc EXCEPT ![r] = "done"]
    /\ reply' = [reply EXCEPT ![r] = answer]

Revoke(sessions, rows) ==
    [s \in Requests |->
        IF s \in rows /\ sessions[s] # NoSession
        THEN [sessions[s] EXCEPT !.status = "revoked"] ELSE sessions[s]]

Arrive(r, c, first) ==
    /\ pc[r] = "idle"
    /\ call' = [call EXCEPT ![r] = c]
    /\ before' = [before EXCEPT ![r] = IF c.kind = "revokeOthers" THEN Committed ELSE {}]
    /\ Goto(r, first)
    /\ UNCHANGED <<database, clock, locals>>

-----------------------------------------------------------------------------
(* POST /auth/register and /auth/login                                     *)

RegisterArrives(r, e, p) ==
    Arrive(r, [kind |-> "register", email |-> e, secret |-> p, token |-> r,
               target |-> r, user |-> Nobody], "begin")

LoginArrives(r, e, p) ==
    Arrive(r, [kind |-> "login", email |-> e, secret |-> p, token |-> r,
               target |-> r, user |-> Nobody], "candidate")

\* The first row with this email, in no particular order, and its hash.
ReadCandidate(r) ==
    /\ pc[r] = "candidate"
    /\ \/ /\ EnabledWith(call[r].email) = {}
          /\ Answer(r, "rejected") /\ UNCHANGED call
       \/ \E u \in EnabledWith(call[r].email) :
            IF account[u].secret = call[r].secret
            THEN call' = [call EXCEPT ![r].user = u] /\ Goto(r, "begin")
            ELSE Answer(r, "rejected") /\ UNCHANGED call
    /\ UNCHANGED <<database, clock, locals, before>>

Begin(r) ==
    /\ pc[r] = "begin"
    /\ began' = [began EXCEPT ![r] = clock]
    /\ Goto(r, IF call[r].kind = "register" THEN "insert" ELSE "lock")
    /\ UNCHANGED <<database, clock, call, matched, before>>

\* What a transaction holds is gone with it.
EndTransaction(r) ==
    /\ began' = [began EXCEPT ![r] = 0]
    /\ matched' = [matched EXCEPT ![r] = {}]

\* Fault: the session is inserted before the id of the new user is known.
CommitRegistration_NoUser(r) ==
    /\ pc[r] = "insert"
    /\ \E u \in Users :
        /\ account[u] = NoAccount
        /\ account' = [account EXCEPT ![u] = [email |-> call[r].email,
                            secret |-> call[r].secret, state |-> "enabled"]]
        /\ session' = [session EXCEPT ![r] =
                            [user |-> call[r].user, created |-> began[r], status |-> "live"]]
        /\ call' = [call EXCEPT ![r].user = u]
    /\ EndTransaction(r)
    /\ Goto(r, "audit")
    /\ UNCHANGED <<lock, clock, before>>

\* register: organization, user and first session are visible together.  The
\* organization is new, so its unique index on emails never objects, and a new
\* user has no other session to prune.
CommitRegistration(r) ==
    /\ pc[r] = "insert"
    /\ \E u \in Users :
        /\ account[u] = NoAccount
        /\ account' = [account EXCEPT ![u] = [email |-> call[r].email,
                            secret |-> call[r].secret, state |-> "enabled"]]
        /\ session' = [session EXCEPT ![r] =
                            [user |-> u, created |-> began[r], status |-> "live"]]
        /\ call' = [call EXCEPT ![r].user = u]
    /\ EndTransaction(r)
    /\ Goto(r, "audit")
    /\ UNCHANGED <<lock, clock, before>>

\* Fault: the SELECT has no FOR UPDATE.
LockUser_NoLock(r) ==
    LET u == call[r].user IN
    /\ pc[r] = "lock"
    /\ account[u].state = "enabled" /\ account[u].secret = call[r].secret
    /\ Goto(r, "prune")
    /\ UNCHANGED <<account, session, lock, clock, call, locals, before>>

\* Fault: the row is locked but disabled_at and password_hash are not rechecked.
LockUser_NoRecheck(r) ==
    LET u == call[r].user IN
    /\ pc[r] = "lock"
    /\ lock[u] = Nobody
    /\ lock' = [lock EXCEPT ![u] = r]
    /\ Goto(r, "prune")
    /\ UNCHANGED <<account, session, clock, call, locals, before>>

\* SELECT ... FOR UPDATE OF u, which waits for the lock and rechecks the row.
LockUser(r) ==
    LET u == call[r].user IN
    /\ pc[r] = "lock"
    /\ lock[u] = Nobody
    /\ \/ /\ account[u].state = "enabled" /\ account[u].secret = call[r].secret
          /\ lock' = [lock EXCEPT ![u] = r]
          /\ Goto(r, "prune")
          /\ UNCHANGED locals
       \/ /\ account[u].state = "disabled" \/ account[u].secret # call[r].secret
          /\ EndTransaction(r)
          /\ Answer(r, "rejected")
          /\ UNCHANGED lock
    /\ UNCHANGED <<account, session, clock, call, before>>

\* createBoundedSession selects all but the newest MaxActive active sessions,
\* its own uncommitted row among them.  Rows of the same created_at are ordered
\* by a random id.
CreatedBy(r, s) == IF s = r THEN began[r] ELSE session[s].created
Prune(r) ==
    LET rows == ActiveOf(call[r].user, began[r]) \cup {r} IN
    /\ pc[r] = "prune"
    /\ \E kept \in SUBSET rows :
        /\ Cardinality(kept) = IF Cardinality(rows) < MaxActive
                               THEN Cardinality(rows) ELSE MaxActive
        /\ \A s \in kept, t \in rows \ kept : CreatedBy(r, t) <= CreatedBy(r, s)
        /\ matched' = [matched EXCEPT ![r] = rows \ kept]
    /\ Goto(r, "commit")
    /\ UNCHANGED <<database, clock, call, began, before>>

CommitLogin(r) ==
    /\ pc[r] = "commit"
    /\ session' = Revoke([session EXCEPT ![r] =
                            [user |-> call[r].user, created |-> began[r], status |-> "live"]],
                         matched[r])
    /\ lock' = [lock EXCEPT ![call[r].user] = Nobody]
    /\ EndTransaction(r)
    /\ Goto(r, "audit")
    /\ UNCHANGED <<account, clock, call, before>>

-----------------------------------------------------------------------------
(* POST /auth/logout, DELETE /auth/sessions/:id, POST .../revoke-others    *)

RevokeArrives(r, kind, token, target) ==
    Arrive(r, [kind |-> kind, email |-> CHOOSE e \in Emails : TRUE,
               secret |-> CHOOSE p \in Secrets : TRUE, token |-> token,
               target |-> target, user |-> Nobody], "auth")

\* getSession: a live session of an enabled user.  Logout goes on without one.
Authenticated(s) ==
    /\ Active(s, clock)
    /\ account[session[s].user].state = "enabled"

Authenticate(r) ==
    /\ pc[r] = "auth"
    /\ IF call[r].kind = "logout" \/ Authenticated(call[r].token)
       THEN Goto(r, "select")
       ELSE Answer(r, "unauthenticated")
    /\ UNCHANGED <<database, clock, call, locals, before>>

\* Fault: revokeOwnedSession does not compare the owner of its target.
Selected_AnyOwner(r) ==
    LET own == IF Active(call[r].token, clock)
               THEN ActiveOf(session[call[r].token].user, clock) ELSE {}
    IN CASE call[r].kind = "logout" -> {call[r].token} \cap Committed
         [] call[r].kind = "revokeOwned" -> {call[r].target}
         [] call[r].kind = "revokeOthers" -> own \ {call[r].token}

\* Fault: revokeOtherSessions revokes only the sessions older than its own.
Selected_OnlyOlder(r) ==
    LET own == IF Active(call[r].token, clock)
               THEN ActiveOf(session[call[r].token].user, clock) ELSE {}
    IN CASE call[r].kind = "logout" -> {call[r].token} \cap Committed
         [] call[r].kind = "revokeOwned" -> own \cap {call[r].target}
         [] call[r].kind = "revokeOthers" ->
              {s \in own : session[s].created < session[call[r].token].created}

\* The rows the three UPDATEs select.  Both session-scoped ones look up the
\* current session once more, by its token.
Selected(r) ==
    LET own == IF Active(call[r].token, clock)
               THEN ActiveOf(session[call[r].token].user, clock) ELSE {}
    IN CASE call[r].kind = "logout" -> {call[r].token} \cap Committed
         [] call[r].kind = "revokeOwned" -> own \cap {call[r].target}
         [] call[r].kind = "revokeOthers" -> own \ {call[r].token}

SelectSessions(r) ==
    /\ pc[r] = "select"
    /\ matched' = [matched EXCEPT ![r] = Selected(r)]
    /\ Goto(r, "apply")
    /\ UNCHANGED <<database, clock, call, began, before>>

\* Rows revoked since they were selected are skipped; a targeted revocation that
\* changed nothing is a 404.
ApplyRevocation(r) ==
    LET rows == {s \in matched[r] : session[s].status = "live"} IN
    /\ pc[r] = "apply"
    /\ session' = Revoke(session, rows)
    /\ IF call[r].kind = "revokeOwned" /\ rows = {}
       THEN Answer(r, "not_found")
       ELSE Goto(r, "audit")
    /\ EndTransaction(r)
    /\ UNCHANGED <<account, lock, clock, call, before>>

-----------------------------------------------------------------------------

\* The audit record that follows every change, then the answer.
RecordAndAnswer(r) ==
    /\ pc[r] = "audit"
    /\ Answer(r, IF call[r].kind \in {"register", "login"} THEN "session" ELSE "revoked")
    /\ UNCHANGED <<database, clock, call, locals, before>>

\* A query or the audit record fails, or the process dies: an open transaction
\* is rolled back and its lock released, a committed one stays.
RequestFails(r) ==
    /\ pc[r] \in Steps
    /\ lock' = [u \in Users |-> IF lock[u] = r THEN Nobody ELSE lock[u]]
    /\ EndTransaction(r)
    /\ Answer(r, "error")
    /\ UNCHANGED <<account, session, clock, call, before>>

Tick ==
    /\ clock < MaxClock
    /\ clock' = clock + 1
    /\ UNCHANGED <<database, pc, call, reply, locals, before>>

\* Accounts are disabled and passwords changed outside this code; such an
\* update of the row waits for a login that holds it.
ChangeAccount(u) ==
    /\ account[u] # NoAccount
    /\ lock[u] = Nobody
    /\ \/ account' = [account EXCEPT ![u].state = "disabled"]
       \/ \E p \in Secrets : account' = [account EXCEPT ![u].secret = p]
    /\ UNCHANGED <<session, lock, clock, pc, call, reply, locals, before>>

Handle(r) ==
    \/ ReadCandidate(r) \/ Begin(r) \/ CommitRegistration(r) \/ LockUser(r)
    \/ Prune(r) \/ CommitLogin(r) \/ Authenticate(r) \/ SelectSessions(r)
    \/ ApplyRevocation(r) \/ RecordAndAnswer(r) \/ RequestFails(r)

Next ==
    \/ \E r \in Requests :
        \/ \E e \in Emails, p \in Secrets : RegisterArrives(r, e, p) \/ LoginArrives(r, e, p)
        \/ \E token \in Committed :
             \/ RevokeArrives(r, "logout", token, token)
             \/ RevokeArrives(r, "revokeOthers", token, token)
             \/ \E target \in Committed : RevokeArrives(r, "revokeOwned", token, target)
        \/ Handle(r)
    \/ Tick
    \/ \E u \in Users : ChangeAccount(u)

Spec == Init /\ [][Next]_vars

-----------------------------------------------------------------------------
(* Properties.                                                             *)

\* Concurrent logins never leave a user more than MaxActive active sessions.
SessionCap ==
    \A u \in Users : Cardinality(ActiveOf(u, clock)) <= MaxActive

\* A login commits a session only for an account that is then enabled, has the
\* email that was asked for and the password that was verified, however long ago
\* and against whichever of the accounts with that email (LockUser looks again).
LoginRechecked ==
    [][\A r \in Requests : session[r] = NoSession /\ session'[r] # NoSession =>
        LET u == session'[r].user IN
        /\ account'[u].state = "enabled"
        /\ account'[u].email = call[r].email
        /\ account'[u].secret = call[r].secret]_vars

\* A session, once revoked, stays revoked, and is revoked only by a request of
\* its own user: one that carries a token of that user, or its login.
RevokedByOwner ==
    [][\A s \in Requests : session[s] # NoSession /\ session'[s] # session[s] =>
        /\ session'[s] = [session[s] EXCEPT !.status = "revoked"]
        /\ \E r \in Requests :
            /\ pc[r] \in {"apply", "commit"} /\ pc'[r] # pc[r]
            /\ session[s].user = IF pc[r] = "commit" THEN call[r].user
                                 ELSE session[call[r].token].user]_vars

\* When "revoke others" is answered to a session that is still active, every
\* session its user had when the request arrived is gone.
RevokeOthersComplete ==
    \A r \in Requests :
        reply[r] = "revoked" /\ call[r].kind = "revokeOthers" /\ Active(call[r].token, clock) =>
            \A s \in before[r] \ {call[r].token} :
                session[s].user = session[call[r].token].user => ~Active(s, clock)

\* A session whose logout or revocation was answered never authenticates again.
AnsweredRevocationHolds ==
    \A r \in Requests :
        /\ reply[r] = "revoked" /\ call[r].kind = "logout" => ~Authenticated(call[r].token)
        /\ reply[r] = "revoked" /\ call[r].kind = "revokeOwned" => ~Authenticated(call[r].target)

\* auth-routes.md: "Authenticates a user and establishes a server-managed
\* session": the session of a login is live when the login commits, a tie of
\* its created_at with another session aside.
LoginEstablishesSession ==
    [][\A r \in Requests :
        /\ session[r] = NoSession /\ session'[r] # NoSession
        /\ \A s \in Committed : session[s].created # session'[r].created
        => session'[r].status = "live"]_vars
=============================================================================
