--------------------------- MODULE MCExtractions ----------------------------
(* Values for the constants of Extractions.                                *)
EXTENDS Extractions, TLC

CONSTANTS r1, r2, r3, r4, d1, d2, d3, k1, k2, e1, f1, f2, a, b

\* The worker delivers both fields or one of them.
MCResults == {f1 :> a @@ f2 :> a, f1 :> a @@ f2 :> NoField}
\* A review corrects one field or both.
MCPatches == {f1 :> b @@ f2 :> NoField, f1 :> b @@ f2 :> b}

Interchangeable == Permutations(Requests) \cup Permutations(Documents \ Stored)
                    \cup Permutations(Keys)
=============================================================================
