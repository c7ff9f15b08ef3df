----------------------------- MODULE MCBrowsing -----------------------------
(***************************************************************************)
(* A small instance of Browsing: two products, two warehouses, three       *)
(* operations at the beginning, and bookings that bring and take.          *)
(***************************************************************************)
EXTENDS Browsing

Item(w, p) == [warehouse_id |-> w, product_id |-> p, count |-> 1]

TwoWarehouses ==
  [Invoice |-> {[invoice_id |-> n] : n \in 1 .. 3},
   Invoice_Item |-> {[invoice_id |-> n, product_id |-> 1, count |-> 1] : n \in 1 .. 3},
   Operation |-> {[operation_id |-> n, product_id |-> 1, warehouse_id |-> 1] : n \in 1 .. 3},
   Product |-> {[product_id |-> 1], [product_id |-> 2]},
   Report |-> {[report_id |-> 1], [report_id |-> 2]},
   User |-> {[user_id |-> 1, login |-> "a", name |-> "b"]},
   Warehouse |-> {[warehouse_id |-> 1], [warehouse_id |-> 2]},
   Warehouse_Item |-> {Item(1, 1), Item(2, 2)}]

BringAndTake ==
  {[product |-> 1, warehouse |-> 1, brings |-> FALSE],
   [product |-> 2, warehouse |-> 1, brings |-> TRUE],
   [product |-> 1, warehouse |-> 2, brings |-> TRUE]}
=============================================================================
