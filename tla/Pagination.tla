----------------------------- MODULE Pagination -----------------------------
(***************************************************************************)
(* A client that follows nextCursor through one of the listings of the     *)
(* API.  The listPage functions of the workflow and agent repositories and *)
(* the list functions of documents and extractions are one algorithm over  *)
(* (created_at, id), called received_at for documents; this module states  *)
(* it once, over a table whose rows are inserted and change status while   *)
(* the client reads.                                                       *)
(*                                                                         *)
(* Time counts microseconds, the precision of timestamptz; Grain of them   *)
(* are one millisecond, the precision of the Date that pg returns and of   *)
(* toISOString.  Ids are random: their order tells nothing about time.     *)
(***************************************************************************)
EXTENDS Integers, FiniteSets

CONSTANTS
    Ids,        \* ids of rows, with the order of uuids
    MaxTime,    \* bound: created_at of every row
    Status,
    Grain,      \* ticks in a millisecond
    MaxLimit,   \* bound on the limit a client asks for
    None        \* no row, no cursor, no filter

ASSUME BoundsAssumption ==
    /\ Ids \subseteq Nat /\ IsFiniteSet(Ids)
    /\ {Grain, MaxLimit} \subseteq Nat \ {0} /\ MaxTime \in Nat

VARIABLES
    rows,      \* rows[i]: the row with id i, or None
    query,     \* the limit and the filter the client keeps for all pages
    cursor,    \* the nextCursor of the last page, or None
    pc,
    listed,    \* the rows the client got
    steady,    \* history: rows matching the query since the first page was asked for
    ends       \* history: the rows that ended a page which had a nextCursor

vars == <<rows, query, cursor, pc, listed, steady, ends>>

Time == 1..MaxTime
Row == [createdAt: Time, status: Status]
Query == [limit: 1..MaxLimit, status: Status \cup {None}]
Cursor == [createdAt: 0..MaxTime, id: Ids]
ASSUME NoneAssumption == None \notin Row \cup Cursor \cup Status

TypeOK ==
    /\ rows \in [Ids -> Row \cup {None}]
    /\ query \in Query
    /\ cursor \in Cursor \cup {None}
    /\ pc \in {"start", "paging", "done"}
    /\ {listed, steady, ends} \subseteq SUBSET Ids

Exists(i) == rows[i] # None
Matches(i) == Exists(i) /\ (query.status = None \/ rows[i].status = query.status)

\* The table holds anything when the client begins.
Init ==
    /\ rows \in [Ids -> Row \cup {None}]
    /\ query \in Query
    /\ cursor = None
    /\ pc = "start"
    /\ listed = {} /\ steady = {} /\ ends = {}

\* toISOString of a timestamp.
Token(t) == t - (t % Grain)

\* Fault: the cursor is rounded up to the next millisecond.
encodeCursor_RoundedUp(i) == [createdAt |-> Token(rows[i].createdAt) + Grain, id |-> i]

encodeCursor(i) == [createdAt |-> Token(rows[i].createdAt), id |-> i]

\* Row comparison: (t, i) < (u, j).
Below(t, i, u, j) == t < u \/ (t = u /\ i < j)
Precedes(i, j) == Below(rows[j].createdAt, j, rows[i].createdAt, i)

\* Fault: created_at is cut to milliseconds for the comparison.
AfterCursor_SameMillisecond(i) ==
    cursor = None \/ Below(Token(rows[i].createdAt), i, cursor.createdAt, cursor.id)

\* Fault: the whole millisecond of the cursor is selected.
AfterCursor_RoundedUp(i) ==
    cursor = None \/ Below(rows[i].createdAt, i, cursor.createdAt + Grain, cursor.id)

AfterCursor(i) ==
    cursor = None \/ Below(rows[i].createdAt, i, cursor.createdAt, cursor.id)

Selected == {i \in Ids : Matches(i) /\ AfterCursor(i)}

FirstOf(S, n) == {i \in S : Cardinality({j \in S : Precedes(j, i)}) < n}

ClientBegins ==
    /\ pc = "start"
    /\ pc' = "paging"
    /\ steady' = {i \in Ids : Matches(i)}
    /\ UNCHANGED <<rows, query, cursor, listed, ends>>

\* Fault: the LIMIT is that of the page, so a full page never has a next one.
ListPage_NoExtraRow ==
    LET items == FirstOf(Selected, query.limit) IN
    /\ pc = "paging"
    /\ listed' = listed \cup items
    /\ cursor' = None /\ pc' = "done" /\ UNCHANGED ends
    /\ UNCHANGED <<rows, query, steady>>

\* One request: limit + 1 rows are selected, so there is a next page iff more
\* than limit match; the cursor is made of the last row of the page.
ListPage ==
    LET items == FirstOf(Selected, query.limit)
        last == CHOOSE i \in items : \A j \in items : j = i \/ Precedes(j, i)
    IN
    /\ pc = "paging"
    /\ listed' = listed \cup items
    /\ IF Selected = items
       THEN cursor' = None /\ pc' = "done" /\ UNCHANGED ends
       ELSE cursor' = encodeCursor(last) /\ ends' = ends \cup {last} /\ UNCHANGED pc
    /\ UNCHANGED <<rows, query, steady>>

\* A row becomes visible.  Its created_at is the time of a BEGIN that may be
\* earlier than pages read meanwhile.
InsertRow(i) ==
    /\ ~Exists(i)
    /\ \E row \in Row : rows' = [rows EXCEPT ![i] = row]
    /\ UNCHANGED <<query, cursor, pc, listed, steady, ends>>

\* A PATCH or a worker changes what the filter looks at.
ChangeStatus(i, status) ==
    /\ Exists(i) /\ rows[i].status # status
    /\ rows' = [rows EXCEPT ![i].status = status]
    /\ steady' = IF query.status = None THEN steady ELSE steady \ {i}
    /\ UNCHANGED <<query, cursor, pc, listed, ends>>

Next ==
    \/ ClientBegins
    \/ ListPage
    \/ \E i \in Ids : InsertRow(i) \/ \E status \in Status : ChangeStatus(i, status)

\* A client that asks for the next page as long as there is one.
Spec == Init /\ [][Next]_vars /\ WF_vars(ListPage)

-----------------------------------------------------------------------------
(* Properties.                                                             *)

\* No row is on two pages, whatever happens to the table between them, and each
\* page is entirely below the pages before it (the cursor's comparison).
NoRowTwice ==
    [][ListPage => \A i \in FirstOf(Selected, query.limit), j \in listed : Precedes(j, i)]_vars

\* A client that read to the end got every row that matched all the time, except
\* rows of the millisecond in which some page ended (encodeCursor).
OnlyCursorMillisecondSkipped ==
    pc = "done" => \A i \in steady \ listed :
        \E j \in ends : Token(rows[i].createdAt) = Token(rows[j].createdAt)

\* "The pages together are the rows": what tests/workflow-pagination.test.ts
\* expects of three rows and a limit of two.
EveryRowListed == pc = "done" => steady \subseteq listed

\* The pages come to an end though rows keep changing under them.
ListingEnds == pc = "paging" ~> pc = "done"
=============================================================================
