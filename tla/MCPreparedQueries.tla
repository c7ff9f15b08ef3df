------------------------- MODULE MCPreparedQueries -------------------------
(***************************************************************************)
(* A small instance of PreparedQueries.                                     *)
(***************************************************************************)
EXTENDS PreparedQueries

CONSTANTS c1, c2, k1, k2, theDb, table, column, v1, v2

SelectOf(filter, params) ==
  [type |-> "SELECT", table |-> table, filter |-> filter, form |-> "AND, ASC",
   params |-> params]

Columns == [t \in {table} |-> {column}]

\* A list with an empty array of filters next to proper ones.
WithEmptyFilter ==
  {SelectOf(NoFilter, v1), SelectOf(<<column>>, v2), SelectOf(<<>>, v1)}

=============================================================================
