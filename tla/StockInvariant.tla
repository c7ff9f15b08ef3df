--------------------------- MODULE StockInvariant ---------------------------
(***************************************************************************)
(* The inductive invariant of StockTransactions: what a task has done so   *)
(* far, row by row, in terms of the stock that is committed now.           *)
(***************************************************************************)
EXTENDS StockTransactions

Todo(t) == crit[t] \cup upd[t]

\* A task that does not run holds nothing.
AtRest(t) ==
  /\ req[t] = NoRequest
  /\ new[t] = NoProducts
  /\ visible[t] = {}
  /\ stale[t] = {}
  /\ writes[t] = {}
  /\ leg[t] = "none"
  /\ crit[t] = {}
  /\ upd[t] = {}
  /\ waits[t] = NoRow
  /\ booking[t] = Nothing

\* The ChangeCount that has run, or runs, by the entry that comes next.
Flow(t) ==
  /\ req[t].kind = "create" =>
       \/ leg[t] = "none" /\ pc[t] = "expand"
       \/ leg[t] = "expand" /\ pc[t] \in {"products", "invoice", "newItems", "commit"}
  /\ req[t].kind = "move" =>
       \/ leg[t] = "none" /\ pc[t] \in {"invoice", "reduce"}
       \/ leg[t] = "reduce" /\ pc[t] = "expand"
       \/ leg[t] = "expand" /\ pc[t] = "commit"
  /\ req[t].kind = "remove" =>
       \/ leg[t] = "none" /\ pc[t] \in {"invoice", "reduce"}
       \/ leg[t] = "reduce" /\ pc[t] = "commit"
  /\ leg[t] = "none" => Todo(t) = {}
  /\ req[t].kind = "create" /\ pc[t] # "products" => Todo(t) = {}

\* The rows still to be written are as the selects of the ChangeCount saw them.
Plan(t) ==
  /\ Todo(t) \subseteq DOMAIN req[t].items
  /\ crit[t] \cap upd[t] = {}
  /\ \A p \in Todo(t) :
       LET s == view[t][RowOf(t, p)]
       IN  /\ leg[t] = "reduce" => /\ s # NoRow
                                   /\ p \in crit[t] <=> req[t].items[p] >= s
           /\ leg[t] = "expand" => (p \in crit[t] <=> s = NoRow)

\* What the task has done to a row.
ReducedBy(t, k) ==
  /\ k[1] = req[t].from
  /\ k[2] \in DOMAIN req[t].items
  /\ leg[t] = "expand" \/ (leg[t] = "reduce" /\ k[2] \notin Todo(t))

ExpandedBy(t, k) ==
  /\ k[1] = req[t].to
  /\ k[2] \in DOMAIN req[t].items
  /\ leg[t] = "expand" /\ k[2] \notin Todo(t)

CreatedBy(t, k) ==
  /\ k[1] = req[t].to
  /\ k[2] \in DOMAIN new[t]
  /\ pc[t] = "commit"

\* The value this gives the row, computed from the committed value.
ValueBy(t, k) ==
  LET mid == IF ReducedBy(t, k) THEN ReduceRow(stock[k], req[t].items[k[2]])
                                ELSE stock[k]
  IN  IF CreatedBy(t, k) THEN new[t][k[2]]
      ELSE IF ExpandedBy(t, k) THEN ExpandRow(mid, req[t].items[k[2]]) ELSE mid

Progressed(t) ==
  \A k \in Rows :
    /\ k \in writes[t] <=> ReducedBy(t, k) \/ ExpandedBy(t, k) \/ CreatedBy(t, k)
    /\ k \in writes[t] => view[t][k] = ValueBy(t, k)
    /\ k \notin writes[t] \cup stale[t] => view[t][k] = stock[k]
    /\ ReducedBy(t, k) => stock[k] # NoRow
    /\ k \in writes[t] /\ ~CreatedBy(t, k) => k[2] \in products

\* The invoice has passed its checks.
Invoiced(t) ==
  \/ pc[t] \in {"reduce", "newItems", "commit"}
  \/ pc[t] = "expand" /\ req[t].kind = "move"

Booked(t) ==
  Invoiced(t) => /\ booking[t] = Booking(req[t], All(t))
                 /\ {req[t].from, req[t].to} \subseteq Warehouses \cup {NoWarehouse}
                 /\ req[t].dup = {}
                 /\ DOMAIN All(t) # {}
                 /\ DOMAIN req[t].items \subseteq products
                 /\ \A p \in DOMAIN new[t] : new[t][p] \in ItemCounts

\* The products the task has created, which only it can see.
Created(t) ==
  /\ DOMAIN new[t] \subseteq allocated \ products
  /\ visible[t] \subseteq products \cup DOMAIN new[t]
  /\ IF req[t].kind = "create" /\ pc[t] \in {"invoice", "newItems", "commit"}
     THEN Cardinality(DOMAIN new[t]) = req[t].fresh
     ELSE new[t] = NoProducts

Running(t) ==
  /\ req[t] \in Requests
  /\ Flow(t)
  /\ Plan(t)
  /\ Progressed(t)
  /\ Booked(t)
  /\ Created(t)

\* Two tasks never write the same row or create the same product.
Apart ==
  \A t, u \in Tasks : t # u =>
    writes[t] \cap writes[u] = {} /\ DOMAIN new[t] \cap DOMAIN new[u] = {}

Stored ==
  /\ products \subseteq allocated
  /\ \A k \in Rows : stock[k] # NoRow => k[1] \in Warehouses /\ k[2] \in products
  /\ \A k \in Rows : booked[k] <= Amount(stock[k])

IInv ==
  /\ Apart
  /\ Stored
  /\ \A t \in Tasks : /\ Active(t) => Running(t) /\ result[t] = "none"
                      /\ ~Active(t) => AtRest(t)
                      /\ pc[t] = "idle" => result[t] = "none"
=============================================================================
