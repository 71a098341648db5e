---------------------------- MODULE MCPagination ----------------------------
(* A sorted set with two members of the same score. *)
EXTENDS Pagination

MCRows == {[key |-> 1, id |-> 1], [key |-> 1, id |-> 2], [key |-> 2, id |-> 3]}
MCShapes == {[id |-> "string", created |-> "time"]}
MCColonIDs == {}
=============================================================================
