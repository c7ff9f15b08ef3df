---------------------------- MODULE StockLedger ----------------------------
(***************************************************************************)
(* What the stock core promises: every request is carried out at once, on  *)
(* the stock as it is at that moment, or not at all, and is answered once. *)
(*                                                                         *)
(* This is the abstract specification.  StockTransactions, the statements  *)
(* that concurrent tasks send to PostgreSQL, implements it.                *)
(***************************************************************************)
EXTENDS StockData

VARIABLES
  stock,      (* committed Warehouse_Item: the count of a row, or NoRow    *)
  products,   (* committed Product: the ids of its rows                    *)
  booked,     (* committed Operation, summed by warehouse and product      *)
  result      (* the answer of each task                                   *)

vars == <<stock, products, booked, result>>

TypeOK ==
  /\ stock \in [Rows -> ItemCounts \cup {NoRow}]
  /\ products \in SUBSET Products
  /\ booked \in [Rows -> Int]
  /\ result \in [Tasks -> Answers \cup {"none"}]

\* The database starts as the invoices so far have left it.
Init ==
  /\ stock \in InitialStocks
  /\ products = InitialProducts
  /\ booked = [k \in Rows |-> Amount(stock[k])]
  /\ result = [t \in Tasks |-> "none"]

\* The request can be carried out on the stock s and the product ids P.
Acceptable(r, new, s, P) ==
  LET all == WithNew(r.items, new)
  IN  /\ r.from \in Warehouses \cup {NoWarehouse}
      /\ r.to \in Warehouses \cup {NoWarehouse}
      /\ r.dup = {}
      /\ DOMAIN all # {}
      /\ DOMAIN r.items \subseteq P
      /\ \A k \in Rows : Reduces(r, all, k) => s[k] # NoRow

\* The request takes effect.  It is answered SUCCESS, or ERROR when the
\* outcome of its commit did not reach the task.
Apply(t) ==
  /\ result[t] = "none"
  /\ \E r \in Requests :
     \E new \in UNION {[N -> Counts] : N \in SUBSET (Products \ products)} :
       LET all == WithNew(r.items, new)
       IN  /\ Acceptable(r, new, stock, products)
           /\ Cardinality(DOMAIN new) = r.fresh
           /\ stock' = [k \in Rows |-> Effect(r, all, k, stock[k])]
           /\ \A k \in Rows : stock'[k] \in ItemCounts \cup {NoRow}
           /\ products' = products \cup DOMAIN new
           /\ booked' = [k \in Rows |-> booked[k] + Booking(r, all)[k]]
  /\ \E a \in {"SUCCESS", "ERROR"} : result' = [result EXCEPT ![t] = a]

\* The request is refused and leaves no trace.
Refuse(t) ==
  /\ result[t] = "none"
  /\ \E a \in {"VIOLATION", "ERROR"} : result' = [result EXCEPT ![t] = a]
  /\ UNCHANGED <<stock, products, booked>>

Next == \E t \in Tasks : Apply(t) \/ Refuse(t)

Spec == Init /\ [][Next]_vars

-----------------------------------------------------------------------------
\* The units that the operations book into a warehouse are there: no history
\* of invoices shows more goods than Warehouse_Item holds.  The converse does
\* not hold, because a reduction may ask for more than the stock.
BookedIsBacked == \A k \in Rows : booked[k] <= Amount(stock[k])

\* Rows exist only for warehouses and products that exist, as the foreign
\* keys of Warehouse_Item demand.
RowsAreReferenced ==
  \A k \in Rows : stock[k] # NoRow => k[1] \in Warehouses /\ k[2] \in products
=============================================================================
