--------------------------- MODULE VersionedRows ----------------------------
(***************************************************************************)
(* What the service promises of rows that are created under an idempotency *)
(* key and changed by optimistic concurrency, without requests in steps,   *)
(* transactions, locks or tokens: a key gives one row; and a request that  *)
(* was made for a version of a row replaces that version, once, or nothing.*)
(* Workflows and Extractions implement it.                                 *)
(***************************************************************************)
EXTENDS Naturals

CONSTANTS
    Requests, Rows, Keys,
    Worked,      \* the rows somebody other than a request writes as well
    Nothing

VARIABLES
    rowsOf,      \* rowsOf[k]: the rows created under key k
    version,     \* version[x]: how often row x was written, 0 if it is not there
    basis        \* basis[r]: the row and version request r was made for and has not
                 \* yet replaced, or Nothing

Init ==
    /\ rowsOf = [k \in Keys |-> {}]
    /\ version = [x \in Rows |-> 0]
    /\ basis = [r \in Requests |-> Nothing]

Create(k, x) ==
    /\ version[x] = 0 /\ rowsOf[k] = {}
    /\ version' = [version EXCEPT ![x] = 1]
    /\ rowsOf' = [rowsOf EXCEPT ![k] = {x}]
    /\ UNCHANGED basis

\* A request is made for a version its client was shown, by then an old one or not.
Ask(r) ==
    /\ basis[r] = Nothing
    /\ basis'[r] \in Rows \X Nat
    /\ basis' = [basis EXCEPT ![r] = basis'[r]]
    /\ UNCHANGED <<version, rowsOf>>

Replace(r) ==
    \E x \in Rows :
        /\ basis[r] = <<x, version[x]>> /\ version[x] > 0
        /\ version' = [version EXCEPT ![x] = version[x] + 1]
        /\ basis' = [basis EXCEPT ![r] = Nothing]
        /\ UNCHANGED rowsOf

Work(x) ==
    /\ x \in Worked /\ version[x] > 0
    /\ version' = [version EXCEPT ![x] = version[x] + 1]
    /\ UNCHANGED <<basis, rowsOf>>

Next ==
    \/ \E r \in Requests : Ask(r) \/ Replace(r)
    \/ \E x \in Rows : Work(x) \/ \E k \in Keys : Create(k, x)

Spec == Init /\ [][Next]_<<rowsOf, version, basis>>
=============================================================================
