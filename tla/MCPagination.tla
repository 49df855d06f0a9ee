---------------------------- MODULE MCPagination ----------------------------
(* Values for the constants of Pagination.                                 *)
EXTENDS Pagination

CONSTANTS active, paused

MCIds == 1..3
=============================================================================
