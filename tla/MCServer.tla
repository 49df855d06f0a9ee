------------------------------ MODULE MCServer ------------------------------
(* Values for the constants of Server.                                     *)
EXTENDS Server

CONSTANTS r1, r2

\* A route of app.ts, whose pools are created by need, and two of server.ts.
MCServed == {<<"PATCH", "/workflows/:id">>, <<"GET", "/organization/hierarchy">>,
             <<"POST", "/documents/:id/uploads/:id/complete">>}
=============================================================================
