--------------------------- MODULE PaginationProofs ---------------------------
(***************************************************************************)
(* Proofs about Pagination, for every finite set of ids, every bound on    *)
(* time and on the limit, every set of states and every number of ticks in *)
(* a millisecond.                                                          *)
(***************************************************************************)
EXTENDS Pagination, FiniteSetTheorems, WellFoundedInduction, TLAPS

\* What the bounds say of each constant.
LEMMA Bounds ==
    /\ Ids \subseteq Nat /\ IsFiniteSet(Ids) /\ MaxTime \in Nat
    /\ Grain \in Nat /\ Grain >= 1 /\ MaxLimit \in Nat
BY BoundsAssumption

\* Some natural numbers have a least one.
LEMMA Least ==
    ASSUME NEW S \in SUBSET Nat, S # {}
    PROVE  \E n \in S : \A m \in S : n <= m
<1> DEFINE Less == OpToRel(<, Nat)
<1>1. PICK n \in S : \A m \in S : <<m, n>> \notin Less
  <2>1. IsWellFoundedOn(Less, Nat)
    BY NatLessThanWellFounded
  <2> HIDE DEF Less
  <2>2. QED
    BY <2>1, WFMin
<1>2. ASSUME NEW m \in S PROVE n <= m
  <2>1. ~ (m < n)
    BY <1>1 DEF OpToRel
  <2>2. m \in Nat /\ n \in Nat
    OBVIOUS
  <2>3. QED
    BY <2>1, <2>2
<1>3. QED
  BY <1>2

-----------------------------------------------------------------------------
(* Timestamps, cut to milliseconds.                                        *)

\* A token is in the millisecond of its timestamp.
LEMMA TokenMeans ==
    ASSUME NEW t \in Nat
    PROVE  Token(t) \in Nat /\ Token(t) <= t /\ t < Token(t) + Grain
BY Bounds DEF Token

\* It is a number of whole milliseconds.
LEMMA TokenIsWhole ==
    ASSUME NEW t \in Nat
    PROVE  \E k \in Nat : Token(t) = Grain * k
<1>1. t \div Grain \in Nat /\ t = (Grain * (t \div Grain)) + (t % Grain)
  BY Bounds
<1>2. Token(t) = Grain * (t \div Grain)
  <2>1. Grain * (t \div Grain) \in Int /\ t % Grain \in Int
    BY <1>1, Bounds
  <2>2. QED
    BY <1>1, <2>1 DEF Token
<1>3. QED
  BY <1>1, <1>2

\* An earlier timestamp is below the token, or it has the same.
LEMMA TokenSeparates ==
    ASSUME NEW t \in Nat, NEW u \in Nat, u <= t, Token(u) # Token(t)
    PROVE  u < Token(t)
<1> SUFFICES ASSUME Token(t) <= u PROVE FALSE
  BY TokenMeans
<1>1. PICK k \in Nat : Token(t) = Grain * k
  BY TokenIsWhole
<1>2. PICK l \in Nat : Token(u) = Grain * l
  BY TokenIsWhole
<1>3. Grain * l <= u /\ u < Grain * l + Grain /\ Grain * k <= u /\ u < Grain * k + Grain
  BY <1>1, <1>2, TokenMeans, Bounds
<1>4. ASSUME NEW m \in Nat, NEW n \in Nat, m < n PROVE Grain * m + Grain <= Grain * n
  <2>1. PICK d \in Nat : n = m + 1 + d
    <3>1. n - m - 1 \in Nat /\ n = m + 1 + (n - m - 1)
      BY <1>4
    <3>2. QED
      BY <3>1
  <2>2. Grain * n = Grain * m + Grain + Grain * d /\ Grain * d >= 0
    BY <2>1, Bounds
  <2>3. QED
    BY <2>2, Bounds
<1>5. Grain * k \in Nat /\ Grain * l \in Nat
  BY Bounds
<1>6. ~ (l < k) /\ ~ (k < l)
  BY <1>3, <1>4, <1>5, Bounds
<1>7. QED
  BY <1>1, <1>2, <1>6

-----------------------------------------------------------------------------
(* The order of a listing.                                                 *)

Existing == {i \in Ids : Exists(i)}

\* Newer rows come first, among rows of one time those with the greater id.
LEMMA RowMeans ==
    ASSUME TypeOK, NEW i \in Existing
    PROVE  /\ i \in Nat /\ i \in Ids /\ rows[i] \in Row /\ rows[i] # None
           /\ rows[i].createdAt \in Nat /\ rows[i].createdAt \in 1..MaxTime
BY Bounds DEF TypeOK, Existing, Exists, Row, Time
LEMMA Total ==
    ASSUME TypeOK, NEW i \in Existing, NEW j \in Existing
    PROVE  (i = j \/ Precedes(i, j) \/ Precedes(j, i)) /\ ~ (Precedes(i, j) /\ Precedes(j, i))
           /\ ~Precedes(i, i)
BY RowMeans DEF Precedes, Below
LEMMA Transitive ==
    ASSUME TypeOK, NEW i \in Existing, NEW j \in Existing, NEW k \in Existing,
           Precedes(i, j), Precedes(j, k)
    PROVE  Precedes(i, k)
BY RowMeans DEF Precedes, Below

\* How many rows of a set come before a row.
Rank(S, i) == Cardinality({j \in S : Precedes(j, i)})

\* Rows of a table have ranks, in their order.
LEMMA Ranks ==
    ASSUME TypeOK, NEW S \in SUBSET Existing, NEW i \in S, NEW j \in S
    PROVE  /\ Rank(S, i) \in Nat /\ Rank(S, j) \in Nat
           /\ Precedes(i, j) => Rank(S, i) < Rank(S, j)
<1> DEFINE I == {k \in S : Precedes(k, i)}
           J == {k \in S : Precedes(k, j)}
<1>1. IsFiniteSet(I) /\ IsFiniteSet(J)
  <2>1. I \in SUBSET Ids /\ J \in SUBSET Ids
    BY DEF Existing
  <2>2. QED
    BY <2>1, Bounds, FS_Subset
<1>2. Cardinality(I) \in Nat /\ Cardinality(J) \in Nat
  BY <1>1, FS_CardinalityType
<1>3. ASSUME Precedes(i, j) PROVE Cardinality(I) < Cardinality(J)
  <2>1. I \in SUBSET J
    BY <1>3, Transitive
  <2>2. i \in J /\ i \notin I
    BY <1>3, Total
  <2>3. Cardinality(I) <= Cardinality(J) /\ (Cardinality(J) = Cardinality(I) => J = I)
    BY <1>1, <2>1, FS_Subset
  <2>4. QED
    BY <1>2, <2>2, <2>3
<1>4. QED
  BY <1>2, <1>3 DEF Rank

\* Some rows have a first one and a last one.
LEMMA HasFirst ==
    ASSUME TypeOK, NEW S \in SUBSET Existing, S # {}
    PROVE  \E i \in S : \A j \in S : ~Precedes(j, i)
<1> DEFINE R == {Rank(S, i) : i \in S}
<1>1. R \in SUBSET Nat /\ R # {}
  BY Ranks
<1>2. PICK n \in R : \A m \in R : n <= m
  BY <1>1, Least
<1>3. PICK i \in S : n = Rank(S, i)
  BY <1>2
<1>4. ASSUME NEW j \in S, Precedes(j, i) PROVE FALSE
  <2>1. Rank(S, j) < Rank(S, i) /\ Rank(S, j) \in Nat /\ Rank(S, i) \in Nat
    BY <1>4, Ranks
  <2>2. Rank(S, i) <= Rank(S, j)
    BY <1>2, <1>3
  <2>3. QED
    BY <2>1, <2>2
<1>5. QED
  BY <1>4
LEMMA HasLast ==
    ASSUME TypeOK, NEW S \in SUBSET Existing, S # {}
    PROVE  \E i \in S : \A j \in S : j = i \/ Precedes(j, i)
<1> DEFINE T == {rows[i].createdAt : i \in S}
<1>1. T \in SUBSET Nat /\ T # {}
  BY RowMeans
<1>2. PICK t \in T : \A u \in T : t <= u
  BY <1>1, Least
<1> DEFINE U == {i \in S : rows[i].createdAt = t}
<1>3. U \in SUBSET Nat /\ U # {}
  BY RowMeans
<1>4. PICK i \in U : \A j \in U : i <= j
  BY <1>3, Least
<1>5. ASSUME NEW j \in S PROVE j = i \/ Precedes(j, i)
  <2>1. rows[i].createdAt = t /\ t <= rows[j].createdAt
    BY <1>2
  <2>2. rows[j].createdAt = t => i <= j
    BY <1>4
  <2>3. /\ i \in Nat /\ j \in Nat
        /\ rows[i].createdAt \in Nat /\ rows[j].createdAt \in Nat
    BY RowMeans
  <2>4. QED
    BY <2>1, <2>2, <2>3 DEF Precedes, Below
<1>6. QED
  BY <1>5

\* A page is the beginning of what was selected; it has a row if there is one.
LEMMA PageIsPrefix ==
    ASSUME TypeOK, NEW S \in SUBSET Existing, NEW n \in Nat \ {0}
    PROVE  /\ FirstOf(S, n) \subseteq S
           /\ \A i \in FirstOf(S, n), j \in S \ FirstOf(S, n) : Precedes(i, j)
           /\ S # {} => FirstOf(S, n) # {}
<1>1. FirstOf(S, n) = {i \in S : Rank(S, i) < n}
  BY DEF FirstOf, Rank
<1>2. ASSUME NEW i \in FirstOf(S, n), NEW j \in S \ FirstOf(S, n) PROVE Precedes(i, j)
  <2>1. i \in S /\ Rank(S, i) < n /\ ~ (Rank(S, j) < n)
    BY <1>1
  <2>2. Rank(S, i) \in Nat /\ Rank(S, j) \in Nat /\ ~Precedes(j, i) /\ i # j
    BY <2>1, Ranks
  <2>3. QED
    BY <2>1, <2>2, Total
<1>3. ASSUME S # {} PROVE FirstOf(S, n) # {}
  <2>1. PICK i \in S : \A j \in S : ~Precedes(j, i)
    BY <1>3, HasFirst
  <2>2. {j \in S : Precedes(j, i)} = {}
    BY <2>1
  <2>3. Rank(S, i) = 0
    BY <2>2, FS_EmptySet DEF Rank
  <2>4. QED
    BY <1>1, <2>3
<1>4. QED
  BY <1>1, <1>2, <1>3

-----------------------------------------------------------------------------
(* What the steps do.                                                      *)

\* The row that ends the next page, if there is one.
Page == FirstOf(Selected, query.limit)
LastOf(items) == CHOOSE i \in items : \A j \in items : j = i \/ Precedes(j, i)

\* What is selected is in the table, below the cursor.
LEMMA PageMeans ==
    ASSUME TypeOK
    PROVE  /\ Selected \in SUBSET Existing /\ Page \in SUBSET Existing /\ Page \subseteq Selected
           /\ \A i \in Page, j \in Selected \ Page : Precedes(i, j)
           /\ Selected # {} => Page # {}
<1>1. Selected \in SUBSET Existing
  BY DEF Selected, Existing, Matches
<1>2. query.limit \in Nat \ {0}
  BY Bounds DEF TypeOK, Query
<1>3. QED
  BY <1>1, <1>2, PageIsPrefix DEF Page

\* A page that is not the last ends with its last row, and the cursor is made of it.
LEMMA ListPageMeans ==
    ASSUME TypeOK, ListPage
    PROVE  /\ pc = "paging" /\ UNCHANGED <<rows, query, steady>> /\ listed' = listed \cup Page
           /\ \/ Selected = Page /\ cursor' = None /\ pc' = "done" /\ UNCHANGED ends
              \/ \E last \in Page :
                    /\ \A j \in Page : j = last \/ Precedes(j, last)
                    /\ cursor' = encodeCursor(last) /\ ends' = ends \cup {last}
                    /\ UNCHANGED pc
<1>1. /\ pc = "paging" /\ UNCHANGED <<rows, query, steady>> /\ listed' = listed \cup Page
      /\ IF Selected = Page
         THEN cursor' = None /\ pc' = "done" /\ UNCHANGED ends
         ELSE /\ cursor' = encodeCursor(LastOf(Page)) /\ ends' = ends \cup {LastOf(Page)}
              /\ UNCHANGED pc
  BY DEF ListPage, Page, LastOf
<1>2. CASE Selected = Page
  BY <1>1, <1>2
<1>3. CASE Selected # Page
  <2>1. Page \in SUBSET Existing /\ Page # {}
    BY <1>3, PageMeans
  <2>2. \E i \in Page : \A j \in Page : j = i \/ Precedes(j, i)
    BY <2>1, HasLast
  <2>3. LastOf(Page) \in Page /\ \A j \in Page : j = LastOf(Page) \/ Precedes(j, LastOf(Page))
    BY <2>2 DEF LastOf
  <2>4. QED
    BY <1>1, <1>3, <2>3
<1>4. QED
  BY <1>2, <1>3

\* A cursor has the time of its row, cut to milliseconds.
LEMMA CursorMeans ==
    ASSUME TypeOK, NEW i \in Existing
    PROVE  /\ encodeCursor(i) \in Cursor /\ encodeCursor(i) # None /\ encodeCursor(i).id = i
           /\ encodeCursor(i).createdAt = Token(rows[i].createdAt)
<1>1. rows[i].createdAt \in 1..MaxTime /\ rows[i].createdAt \in Nat /\ i \in Ids
  BY RowMeans
<1>2. Token(rows[i].createdAt) \in 0..MaxTime
  BY <1>1, TokenMeans, Bounds
<1>3. encodeCursor(i) \in Cursor /\ encodeCursor(i).id = i
      /\ encodeCursor(i).createdAt = Token(rows[i].createdAt)
  BY <1>1, <1>2 DEF encodeCursor, Cursor
<1>4. QED
  BY <1>3, NoneAssumption

\* The table changes, the client does not: a row comes, or one changes its status and is
\* then no more among those that matched all the time, if the query filters.
TableChanges ==
    /\ UNCHANGED <<query, cursor, pc, listed, ends>>
    /\ rows' \in [Ids -> Row \cup {None}] /\ steady' \subseteq steady
    /\ \A i \in Existing : i \in Existing' /\ rows'[i].createdAt = rows[i].createdAt
    /\ \A i \in steady' : Matches(i) => Matches(i)'

LEMMA InsertMeans == ASSUME TypeOK, NEW i \in Ids, InsertRow(i) PROVE TableChanges
<1>1. /\ UNCHANGED <<query, cursor, pc, listed, steady, ends>> /\ rows[i] = None
      /\ rows' \in [Ids -> Row \cup {None}] /\ rows'[i] \in Row
      /\ \A j \in Ids \ {i} : rows'[j] = rows[j]
  BY DEF InsertRow, TypeOK, Exists
<1>2. \A j \in Existing : rows'[j] = rows[j]
  BY <1>1 DEF Existing, Exists
<1>3. QED
  BY <1>1, <1>2 DEF TableChanges, Existing, Exists, Matches, TypeOK

LEMMA ChangeMeans ==
    ASSUME TypeOK, NEW i \in Ids, NEW status \in Status, ChangeStatus(i, status)
    PROVE  TableChanges
<1>1. /\ UNCHANGED <<query, cursor, pc, listed, ends>> /\ rows[i] \in Row
      /\ rows' = [rows EXCEPT ![i].status = status]
      /\ steady' = IF query.status = None THEN steady ELSE steady \ {i}
  BY DEF ChangeStatus, TypeOK, Exists
<1>2. /\ rows'[i] \in Row /\ rows'[i].createdAt = rows[i].createdAt
      /\ rows' \in [Ids -> Row \cup {None}]
      /\ \A j \in Ids \ {i} : rows'[j] = rows[j]
  BY <1>1 DEF TypeOK, Row
<1>3. rows'[i] # None
  BY <1>2, NoneAssumption
<1>4. \A j \in Existing : j \in Existing' /\ rows'[j].createdAt = rows[j].createdAt
  BY <1>2, <1>3 DEF Existing, Exists
<1>5. ASSUME NEW j \in steady', Matches(j) PROVE Matches(j)'
  <2>1. j \in Ids
    BY <1>1 DEF TypeOK
  <2>2. query.status = None \/ rows'[j] = rows[j]
    BY <1>1, <1>2, <2>1
  <2>3. j \in Existing'
    BY <1>4, <1>5, <2>1 DEF Matches, Existing
  <2>4. QED
    BY <1>1, <1>5, <2>2, <2>3 DEF Matches, Existing
<1>6. QED
  BY <1>1, <1>2, <1>4, <1>5 DEF TableChanges

LEMMA NextMeans ==
    ASSUME TypeOK, [Next]_vars
    PROVE  ClientBegins \/ ListPage \/ TableChanges
<1>1. CASE UNCHANGED vars
  BY <1>1 DEF vars, TableChanges, TypeOK, Existing, Exists, Matches
<1>2. QED
  BY <1>1, InsertMeans, ChangeMeans DEF Next

-----------------------------------------------------------------------------
(* Types.                                                                  *)

\* No step breaks them: a cursor is made of a row of the table.
LEMMA TypeStep == TypeOK /\ [Next]_vars => TypeOK'
<1> SUFFICES ASSUME TypeOK, [Next]_vars PROVE TypeOK'
  OBVIOUS
<1>1. CASE ClientBegins
  BY <1>1 DEF ClientBegins, TypeOK
<1>2. CASE ListPage
  <2>1. /\ pc = "paging" /\ UNCHANGED <<rows, query, steady>> /\ listed' = listed \cup Page
        /\ Page \subseteq Ids
    BY <1>2, ListPageMeans, PageMeans DEF Existing
  <2>2. CASE cursor' = None /\ pc' = "done" /\ UNCHANGED ends
    BY <2>1, <2>2 DEF TypeOK
  <2>3. ASSUME NEW last \in Page, cursor' = encodeCursor(last), ends' = ends \cup {last},
               UNCHANGED pc
        PROVE  TypeOK'
    <3>1. encodeCursor(last) \in Cursor
      BY CursorMeans, PageMeans
    <3>2. QED
      BY <2>1, <2>3, <3>1 DEF TypeOK
  <2>4. QED
    BY <1>2, <2>2, <2>3, ListPageMeans
<1>3. CASE TableChanges
  BY <1>3 DEF TableChanges, TypeOK
<1>4. QED
  BY <1>1, <1>2, <1>3, NextMeans

\* Every reachable state is well typed (rows, query and cursor).
THEOREM TypeCorrect == Spec => []TypeOK
<1>1. Init => TypeOK
  BY DEF Init, TypeOK
<1>2. QED
  BY <1>1, TypeStep, PTL DEF Spec

-----------------------------------------------------------------------------
(* No row twice.                                                           *)

\* Before the first page nothing is listed; then the listed rows are in the table, at the
\* cursor or above.
AtOrAbove(i, c) == ~Below(rows[i].createdAt, i, c.createdAt, c.id)
OrderInv ==
    /\ TypeOK /\ listed \subseteq Existing
    /\ pc # "done" /\ cursor = None => listed = {}
    /\ cursor # None => \A i \in listed : AtOrAbove(i, cursor)

\* What is selected next is below all that is listed.
LEMMA SelectedBelow ==
    ASSUME OrderInv, pc = "paging", NEW i \in Selected, NEW j \in listed
    PROVE  Precedes(j, i)
<1>1. cursor # None /\ AtOrAbove(j, cursor)
  BY DEF OrderInv
<1>2. Below(rows[i].createdAt, i, cursor.createdAt, cursor.id)
  BY <1>1 DEF Selected, AfterCursor
<1>3. /\ i \in Nat /\ rows[i].createdAt \in Nat /\ j \in Nat /\ rows[j].createdAt \in Nat
  BY RowMeans, PageMeans DEF OrderInv
<1>4. cursor.createdAt \in Nat /\ cursor.id \in Nat
  <2>1. cursor \in Cursor
    BY <1>1 DEF OrderInv, TypeOK
  <2>2. cursor.createdAt \in 0..MaxTime /\ cursor.id \in Ids
    BY <2>1 DEF Cursor
  <2>3. \A t \in 0..MaxTime : t \in Nat
    OBVIOUS
  <2>4. QED
    BY <2>2, <2>3, Bounds, Zenon
<1>5. QED
  BY <1>1, <1>2, <1>3, <1>4 DEF AtOrAbove, Precedes, Below

LEMMA OrderStep == OrderInv /\ [Next]_vars => OrderInv'
<1> SUFFICES ASSUME OrderInv, [Next]_vars PROVE OrderInv'
  OBVIOUS
<1>1. TypeOK /\ TypeOK' /\ listed \subseteq Existing
  BY TypeStep DEF OrderInv
<1>2. CASE ClientBegins
  BY <1>1, <1>2 DEF ClientBegins, OrderInv, Existing, Exists, AtOrAbove
<1>3. CASE ListPage
  <2>1. /\ pc = "paging" /\ UNCHANGED rows /\ listed' = listed \cup Page
        /\ Page \subseteq Selected /\ Page \in SUBSET Existing
    BY <1>1, <1>3, ListPageMeans, PageMeans
  <2>2. listed' \subseteq Existing'
    BY <1>1, <2>1 DEF Existing, Exists
  <2>3. CASE cursor' = None /\ pc' = "done"
    BY <1>1, <2>2, <2>3 DEF OrderInv
  <2>4. ASSUME NEW last \in Page, \A j \in Page : j = last \/ Precedes(j, last),
               cursor' = encodeCursor(last)
        PROVE  OrderInv'
    <3>1. /\ cursor' # None /\ cursor'.id = last
          /\ cursor'.createdAt = Token(rows[last].createdAt)
      BY <1>1, <2>1, <2>4, CursorMeans
    <3>2. ASSUME NEW i \in listed' PROVE AtOrAbove(i, cursor)'
      <4>1. i = last \/ Precedes(i, last)
        BY <2>1, <2>4, <3>2, SelectedBelow
      <4>2. i \in Existing /\ last \in Existing
        BY <1>1, <2>1, <3>2
      <4>3. /\ i \in Nat /\ rows[i].createdAt \in Nat
            /\ last \in Nat /\ rows[last].createdAt \in Nat
        BY <1>1, <4>2, RowMeans
      <4>4. /\ Token(rows[last].createdAt) \in Nat
            /\ Token(rows[last].createdAt) <= rows[last].createdAt
        BY <4>3, TokenMeans
      <4>5. rows'[i].createdAt = rows[i].createdAt
        BY <2>1
      <4>6. QED
        BY <3>1, <4>1, <4>3, <4>4, <4>5 DEF AtOrAbove, Precedes, Below
    <3>3. QED
      BY <1>1, <2>2, <3>1, <3>2 DEF OrderInv
  <2>5. QED
    BY <1>1, <1>3, <2>3, <2>4, ListPageMeans
<1>4. CASE TableChanges
  BY <1>1, <1>4 DEF TableChanges, OrderInv, AtOrAbove
<1>5. QED
  BY <1>1, <1>2, <1>3, <1>4, NextMeans

LEMMA OrderInvariant == Spec => []OrderInv
<1>1. Init => OrderInv
  BY DEF Init, OrderInv, TypeOK
<1>2. QED
  BY <1>1, OrderStep, PTL DEF Spec

\* No row is on two pages, whatever happens to the table between them, and each page is
\* entirely below the pages before it (the comparison with the cursor in the queries).
THEOREM PagesDescend == Spec => NoRowTwice
<1>1. ASSUME OrderInv, ListPage
      PROVE  \A i \in FirstOf(Selected, query.limit), j \in listed : Precedes(j, i)
  <2>1. pc = "paging" /\ Page \subseteq Selected
    BY <1>1, PageMeans DEF OrderInv, ListPage
  <2>2. QED
    BY <1>1, <2>1, SelectedBelow DEF Page
<1>2. QED
  BY <1>1, OrderInvariant, PTL DEF NoRowTwice

-----------------------------------------------------------------------------
(* What is skipped.                                                        *)

\* Some page ended in the millisecond of this row.
PageEndedIn(i) ==
    \E j \in ends : Token(rows[i].createdAt) = Token(rows[j].createdAt)

\* A row that matched all the time is listed, still to come, or of such a millisecond.
CoverInv ==
    /\ OrderInv /\ ends \subseteq Existing
    /\ \A i \in steady : Matches(i)
    /\ pc = "start" => cursor = None
    /\ \A i \in steady \ listed : (pc # "done" /\ AfterCursor(i)) \/ PageEndedIn(i)

LEMMA CoverStep == CoverInv /\ [Next]_vars => CoverInv'
<1> SUFFICES ASSUME CoverInv, [Next]_vars PROVE CoverInv'
  OBVIOUS
<1>1. TypeOK /\ OrderInv /\ OrderInv' /\ ends \subseteq Existing /\ steady \subseteq Existing
  BY OrderStep DEF CoverInv, OrderInv, TypeOK, Existing, Matches
<1>2. CASE ClientBegins
  BY <1>1, <1>2 DEF ClientBegins, CoverInv, Existing, Exists, Matches, AfterCursor
<1>3. CASE ListPage
  <2>1. /\ pc = "paging" /\ UNCHANGED <<rows, query, steady>> /\ listed' = listed \cup Page
        /\ Page \subseteq Selected /\ Page \in SUBSET Existing
        /\ \A i \in Page, j \in Selected \ Page : Precedes(i, j)
    BY <1>1, <1>3, ListPageMeans, PageMeans
  <2>2. \A i \in steady : Matches(i)'
    BY <2>1 DEF CoverInv, Matches, Exists
  <2>3. ASSUME NEW i \in steady \ listed', ~PageEndedIn(i) PROVE i \in Selected \ Page
    BY <1>1, <2>1, <2>3 DEF CoverInv, Selected, Existing
  <2>4. CASE Selected = Page /\ pc' = "done" /\ UNCHANGED ends
    <3>1. \A i \in steady \ listed' : PageEndedIn(i)'
      BY <2>1, <2>3, <2>4 DEF PageEndedIn
    <3>2. QED
      BY <1>1, <2>1, <2>2, <2>4, <3>1 DEF CoverInv, Existing, Exists
  <2>5. ASSUME NEW last \in Page, cursor' = encodeCursor(last), ends' = ends \cup {last},
               UNCHANGED pc
        PROVE  CoverInv'
    <3>1. cursor'.id = last /\ cursor'.createdAt = Token(rows[last].createdAt)
      BY <1>1, <2>1, <2>5, CursorMeans
    <3>2. ASSUME NEW i \in steady \ listed' PROVE AfterCursor(i)' \/ PageEndedIn(i)'
      <4>1. CASE PageEndedIn(i)
        BY <2>1, <2>5, <4>1 DEF PageEndedIn
      <4>2. CASE Token(rows[i].createdAt) = Token(rows[last].createdAt)
        BY <2>1, <2>5, <4>2 DEF PageEndedIn
      <4>3. CASE ~PageEndedIn(i) /\ Token(rows[i].createdAt) # Token(rows[last].createdAt)
        <5>1. Precedes(last, i) /\ i \in Existing /\ last \in Existing
          BY <1>1, <2>1, <2>3, <3>2, <4>3
        <5>2. rows[i].createdAt \in Nat /\ rows[last].createdAt \in Nat
              /\ rows[i].createdAt <= rows[last].createdAt
          BY <1>1, <5>1, RowMeans DEF Precedes, Below
        <5>3. rows[i].createdAt < Token(rows[last].createdAt)
          BY <4>3, <5>2, TokenSeparates
        <5>4. QED
          BY <2>1, <3>1, <5>3 DEF AfterCursor, Below
      <4>4. QED
        BY <4>1, <4>2, <4>3
    <3>3. QED
      BY <1>1, <2>1, <2>2, <2>5, <3>2 DEF CoverInv, Existing, Exists
  <2>6. QED
    BY <1>1, <1>3, <2>4, <2>5, ListPageMeans
<1>4. CASE TableChanges
  <2>1. /\ UNCHANGED <<cursor, pc, listed, ends>> /\ steady' \subseteq steady
        /\ \A i \in Existing : i \in Existing' /\ rows'[i].createdAt = rows[i].createdAt
        /\ \A i \in steady' : Matches(i)'
    BY <1>1, <1>4 DEF TableChanges, CoverInv
  <2>2. ASSUME NEW i \in steady' \ listed'
        PROVE  (pc' # "done" /\ AfterCursor(i)') \/ PageEndedIn(i)'
    <3>1. i \in Existing /\ rows'[i].createdAt = rows[i].createdAt
      BY <1>1, <2>1, <2>2
    <3>2. AfterCursor(i)' = AfterCursor(i) /\ PageEndedIn(i)' = PageEndedIn(i)
      BY <1>1, <2>1, <3>1 DEF AfterCursor, PageEndedIn
    <3>3. QED
      BY <2>1, <2>2, <3>2 DEF CoverInv
  <2>3. QED
    BY <1>1, <2>1, <2>2 DEF CoverInv
<1>5. QED
  BY <1>1, <1>2, <1>3, <1>4, NextMeans

\* A client that read to the end got every row that matched all the time, except rows of
\* the millisecond in which some page ended (encodeCursor).
THEOREM SkippedShareMillisecond == Spec => []OnlyCursorMillisecondSkipped
<1>1. Init => CoverInv
  BY DEF Init, CoverInv, OrderInv, TypeOK
<1>2. CoverInv => OnlyCursorMillisecondSkipped
  BY DEF CoverInv, OnlyCursorMillisecondSkipped, PageEndedIn
<1>3. QED
  BY <1>1, <1>2, CoverStep, PTL DEF Spec
=============================================================================
