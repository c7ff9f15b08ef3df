----------------------------- MODULE MCReports -----------------------------
(***************************************************************************)
(* Small instances of Reports.                                             *)
(***************************************************************************)
EXTENDS Reports, TLC

CONSTANTS t1, t2, w1, w2, p1, n1, x1, i1, i2

Symmetry == Permutations(Tasks)

\* What is booked within the period, and one tick before it.
Op(i, p, w, n, at) == [invoice |-> i, product |-> p, warehouse |-> w, count |-> n, at |-> at]
BoundaryOperations ==
  {Op(i1, p1, w1, 2, Unit * 121), Op(i2, p1, w1, 1, Unit * 120 - 1)}

Current(w) == [kind |-> "current", warehouse |-> w]
Period(w, from, to) == [kind |-> "period", warehouse |-> w, from |-> from, to |-> to]

\* Reports of either kind, one of a warehouse that does not exist, one of a
\* period that begins at a full minute, which is read only when it is written
\* as the second 60 of the minute before.
ReportRequests ==
  {Current(w1), Current(w2), Period(w1, <<0, 1, 60>>, <<0, 2, 2>>),
   Period(w1, <<0, 2, 0>>, <<0, 2, 2>>)}
=============================================================================
