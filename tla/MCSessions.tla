----------------------------- MODULE MCSessions -----------------------------
(* Values for the constants of Sessions.                                   *)
EXTENDS Sessions, TLC

CONSTANTS r1, r2, r3, r4, u1, u2, e1, p1, p2

Interchangeable == Permutations(Requests) \cup Permutations(Users)
                   \cup Permutations(Secrets)
=============================================================================
