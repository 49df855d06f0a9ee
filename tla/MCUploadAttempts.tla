-------------------------- MODULE MCUploadAttempts --------------------------
(* Values for the constants of UploadAttempts.                             *)
EXTENDS UploadAttempts, TLC

CONSTANTS r1, r2, r3, r4, d1, d2, k1, k2

\* Requests name the fresh values they draw, which keeps them interchangeable;
\* so are the documents, and so are the keys.
Interchangeable == Permutations(Requests) \cup Permutations(Documents)
                   \cup Permutations(Keys)
=============================================================================
