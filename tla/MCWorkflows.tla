---------------------------- MODULE MCWorkflows -----------------------------
(* Values for the constants of Workflows.                                  *)
EXTENDS Workflows, TLC

CONSTANTS r1, r2, r3, r4, u1, u2, u3, k1, k2, p1, p2

\* A new payload, or a new status.
MCEdits == {[payload |-> p1, status |-> Nobody]}
            \cup [payload: {Nobody}, status: Status]

Interchangeable == Permutations(Requests) \cup Permutations(Keys)
=============================================================================
