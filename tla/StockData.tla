----------------------------- MODULE StockData -----------------------------
(***************************************************************************)
(* The data of the stock core: the rows of the table Warehouse_Item, the   *)
(* three kinds of request that change them (products_create, products_move *)
(* and products_remove) and what one request means for one row.            *)
(*                                                                         *)
(* A row <<w, p>> of Warehouse_Item says how many units of product p the   *)
(* warehouse w holds.  A product that is not in a warehouse has no row.    *)
(***************************************************************************)
EXTENDS Integers, FiniteSets

CONSTANTS
  WarehouseIds,   (* every warehouse id a request can name                 *)
  Warehouses,     (* the ids that are rows of the table Warehouse          *)
  Products,       (* every product id: existing, future or never given     *)
  Counts,         (* the counts a request can carry                        *)
  MaxCount,       (* bound of the SQL type integer of the count columns    *)
  NoRow,          (* the value of a row that does not exist                *)
  NoWarehouse,    (* an empty std::optional<int64_t> warehouse id          *)
  Requests,       (* the requests that clients send                        *)
  Tasks,          (* the tasks that carry out requests, one each           *)
  InitialProducts,  (* the rows of the table Product at the start          *)
  InitialStocks     (* what the table Warehouse_Item can hold at the start *)

Rows == WarehouseIds \X Products

\* What a column of the SQL type integer can hold.
ItemCounts == (-MaxCount - 1) .. MaxCount

(***************************************************************************)
(* A parsed request.  "items" maps the products the client names by id to  *)
(* their counts, "dup" holds the products it lists more than once, "fresh" *)
(* is the number of products it asks to create ("type": "new").            *)
(***************************************************************************)
Request ==
  [kind  : {"create", "move", "remove"},
   from  : WarehouseIds \cup {NoWarehouse},
   to    : WarehouseIds \cup {NoWarehouse},
   items : UNION {[P -> Counts] : P \in SUBSET Products},
   dup   : SUBSET Products,
   fresh : Nat]

\* What the parsers produce: a create has no source, a remove no target,
\* and only a create asks for new products.
WellFormed(r) ==
  /\ r \in Request
  /\ r.dup \subseteq DOMAIN r.items
  /\ (r.kind = "create") <=> (r.from = NoWarehouse)
  /\ (r.kind = "remove") <=> (r.to = NoWarehouse)
  /\ r.kind # "create" => r.fresh = 0

ASSUME DataAssumption ==
  /\ Warehouses \subseteq WarehouseIds
  /\ NoWarehouse \notin WarehouseIds
  /\ Counts \subseteq Int
  /\ MaxCount \in Nat
  /\ NoRow \notin Int
  /\ NoRow \notin Rows
  /\ \A r \in Requests : WellFormed(r)
  /\ InitialProducts \subseteq Products
  /\ InitialStocks \subseteq [Rows -> ItemCounts \cup {NoRow}]
  /\ \A s \in InitialStocks, k \in Rows :
       s[k] # NoRow => k[1] \in Warehouses /\ k[2] \in InitialProducts

Answers == {"SUCCESS", "VIOLATION", "ERROR"}

-----------------------------------------------------------------------------
\* The units a row stands for.
Amount(s) == IF s = NoRow THEN 0 ELSE s

\* The items of an invoice: the products named by id and the created ones.
WithNew(items, new) ==
  [p \in DOMAIN items \cup DOMAIN new |->
     IF p \in DOMAIN new THEN new[p] ELSE items[p]]

\* The request takes from, or adds to, this row.
Reduces(r, all, k) == k[1] = r.from /\ k[2] \in DOMAIN all
Expands(r, all, k) == k[1] = r.to /\ k[2] \in DOMAIN all

\* The variants named Wrong... are never part of the specification.  Each is a
\* plausible slip in the definition that follows it, and shows that the
\* properties of the modules that use it would notice.
WrongReduceRow(s, c) == IF c >= s THEN NoRow ELSE c

\* One row of a reducing ChangeCount: a count that reaches the stock, or
\* exceeds it, deletes the row.
ReduceRow(s, c) == IF c >= s THEN NoRow ELSE s - c

WrongExpandRow(s, c) == c

\* One row of an expanding ChangeCount.
ExpandRow(s, c) == IF s = NoRow THEN c ELSE s + c

\* A whole request on one row: ProductsMove reduces before it expands.
Effect(r, all, k, s) ==
  LET mid == IF Reduces(r, all, k) THEN ReduceRow(s, all[k[2]]) ELSE s
  IN  IF Expands(r, all, k) THEN ExpandRow(mid, all[k[2]]) ELSE mid

\* The rows that the triggers of Invoice_Item add to the table Operation,
\* summed by warehouse and product: -count at the source, +count at the target.
\* (The table has a positive count in either case, and marks a removal by the
\* negated id of the warehouse.)
Booking(r, all) ==
  [k \in Rows |-> (IF Expands(r, all, k) THEN all[k[2]] ELSE 0)
                  - (IF Reduces(r, all, k) THEN all[k[2]] ELSE 0)]
=============================================================================
