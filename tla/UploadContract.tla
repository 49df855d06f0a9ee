--------------------------- MODULE UploadContract ---------------------------
(***************************************************************************)
(* What document uploads promise, without requests, storage or races: a    *)
(* ledger of attempts, each opened once under an idempotency key, decided  *)
(* at most once, and completed only when its object has been verified.     *)
(* UploadAttempts implements it.                                           *)
(***************************************************************************)
CONSTANTS Ids, Documents, Keys, NoRow
VARIABLES ledger,     \* ledger[a]: the attempt with id a, or NoRow
          verified    \* attempts whose object some request saw to match

Opened(a) == ledger[a] # NoRow

Init ==
    /\ ledger = [a \in Ids |-> NoRow]
    /\ verified = {}

Open(a, d, k) ==
    /\ \A b \in Ids : Opened(b) => ledger[b].key # k
    /\ ~Opened(a)
    /\ ledger' = [ledger EXCEPT ![a] =
            [doc |-> d, key |-> k, objectKey |-> a, status |-> "initiated"]]
    /\ UNCHANGED verified

Verify(a) ==
    /\ Opened(a)
    /\ verified' = verified \cup {a}
    /\ UNCHANGED ledger

Decide(a, outcome) ==
    /\ Opened(a)
    /\ ledger[a].status = "initiated"
    /\ outcome = "completed" => a \in verified
    /\ ledger' = [ledger EXCEPT ![a].status = outcome]
    /\ UNCHANGED verified

Next ==
    \E a \in Ids :
        \/ \E d \in Documents, k \in Keys : Open(a, d, k)
        \/ Verify(a)
        \/ \E outcome \in {"completed", "failed"} : Decide(a, outcome)

Spec == Init /\ [][Next]_<<ledger, verified>>
=============================================================================
