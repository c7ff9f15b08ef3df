------------------------ MODULE MCStockTransactions ------------------------
(* Small instances of StockTransactions for TLC.                           *)
EXTENDS StockInvariant, Folds, TLC

CONSTANTS w1, w2, w3, p1, p2, p3, t1, t2, t3

Create(to, items, fresh) ==
  [kind |-> "create", from |-> NoWarehouse, to |-> to, items |-> items,
   dup |-> {}, fresh |-> fresh]
Move(from, to, items) ==
  [kind |-> "move", from |-> from, to |-> to, items |-> items,
   dup |-> {}, fresh |-> 0]
Remove(from, items) ==
  [kind |-> "remove", from |-> from, to |-> NoWarehouse, items |-> items,
   dup |-> {}, fresh |-> 0]
Repeating(r, p) == [r EXCEPT !.dup = {p}]

\* The rows of w1 for two products; all other rows are missing.
Holding(a, b) ==
  [k \in Rows |-> CASE k = <<w1, p1>> -> a
                    [] k = <<w1, p2>> -> b
                    [] OTHER -> NoRow]

\* Requests that compete for the rows of two warehouses.
CrossingRequests ==
  {Create(w1, p1 :> 1, 1),
   Move(w1, w2, p1 :> 2 @@ p2 :> 1),
   Remove(w1, p1 :> 1 @@ p2 :> 2)}
RivalStocks == {Holding(2, 1), Holding(3, 2)}

\* Requests at the edges: a warehouse that does not exist, a product that does
\* not, or that is listed twice, no products at all, a move within one
\* warehouse, counts of 0, below 0 and above what the column can hold; and one
\* whose rows two tasks may lock in opposite orders.
EdgeRequests ==
  {Create(w3, p1 :> 1, 1),
   Create(w1, p1 :> 3, 0),
   Create(w1, p1 :> 3, 1),
   Create(w1, p1 :> 3 @@ p2 :> 9, 1),
   Create(w1, p3 :> 1, 1),
   Create(w2, p1 :> -3, 1),
   Repeating(Create(w1, p1 :> 1 @@ p2 :> 1, 1), p1),
   Repeating(Remove(w1, p1 :> 1), p1),
   Remove(w1, << >>),
   Remove(w3, p1 :> 1),
   Remove(w1, p2 :> 0),
   Remove(w1, p1 :> 3 @@ p2 :> 3),
   Move(w1, w1, p1 :> 3),
   Move(w1, w2, p1 :> 1 @@ p2 :> -3)}
EdgeCounts == {-3, 0, 1, 3, 9}
EdgeStocks == {Holding(2, NoRow), Holding(3, 3)}

-----------------------------------------------------------------------------
\* The units of a product in all warehouses.
Goods(s, p) ==
  MapThenFoldSet(+, 0, LAMBDA w : Amount(s[<<w, p>>]),
                 LAMBDA S : CHOOSE w \in S : TRUE, WarehouseIds)

\* ProductEdit.js shows the stock of the source warehouse as the maximum count
\* of a move: goods change their place and their number stays the same.
MovesKeepTheGoods ==
  [][\A t \in Tasks :
       (pc[t] = "commit" /\ req[t].kind = "move" /\ result'[t] = "SUCCESS") =>
         \A p \in Products :
           Goods(stock', p) = Goods(stock, p)]_vars

\* Transaction::Execute logs "Serialization conflict, will retry": a task is
\* not answered by the step that meets a row committed since its snapshot.
ConflictsAreRetried ==
  [][\A t \in Tasks, p \in Products :
       DeleteRow(t, p) \/ UpdateRow(t, p) => result'[t] = "none"]_vars
=============================================================================
