---------------------------- MODULE StockProofs ----------------------------
(***************************************************************************)
(* Proofs about StockTransactions: its type invariant, the inductive       *)
(* invariant IInv, what follows from it, and that concurrent transactions  *)
(* implement StockLedger, which carries out requests one at a time.        *)
(***************************************************************************)
EXTENDS StockInvariant, FiniteSetTheorems, TLAPS

-----------------------------------------------------------------------------
(* What the steps leave behind, in the form in which the proofs use it.    *)

\* A request has the fields that its parser fills.
LEMMA RequestFields ==
  ASSUME NEW r \in Requests
  PROVE  /\ r.kind \in {"create", "move", "remove"}
         /\ r.from \in WarehouseIds \cup {NoWarehouse}
         /\ r.to \in WarehouseIds \cup {NoWarehouse}
         /\ r.items \in [DOMAIN r.items -> Counts]
         /\ DOMAIN r.items \subseteq Products
         /\ r.fresh \in Nat
         /\ r.kind = "create" <=> r.from = NoWarehouse
         /\ r.kind = "remove" <=> r.to = NoWarehouse
         /\ r.kind # "create" => r.fresh = 0
         /\ r # NoRequest
  BY DataAssumption DEF WellFormed, Request, NoRequest

\* Products are at most the product ids.
LEMMA NewType ==
  ASSUME NEW n \in UNION {[P -> Counts] : P \in SUBSET Products}
  PROVE  n \in [DOMAIN n -> Counts] /\ DOMAIN n \subseteq Products
  OBVIOUS

LEMMA CountsAreInt == Counts \subseteq Int /\ ItemCounts \subseteq Int
                      /\ NoRow \notin Int /\ NoRow \notin ItemCounts
  BY DataAssumption DEF ItemCounts

LEMMA AmountType ==
  ASSUME NEW s \in ItemCounts \cup {NoRow}
  PROVE  Amount(s) \in Int
  <1>1. CASE s = NoRow
    BY <1>1 DEF Amount
  <1>2. CASE s # NoRow
    <2>1. s \in ItemCounts
      BY <1>2
    <2>2. s \in Int
      BY <2>1, CountsAreInt
    <2>3. QED
      BY <1>2, <2>2 DEF Amount
  <1>3. QED
    BY <1>1, <1>2

\* The values that a finished transaction leaves are of their types.
LEMMA Defaults ==
  /\ NoProducts \in UNION {[P -> Counts] : P \in SUBSET Products}
  /\ DOMAIN NoProducts = {}
  /\ Unseen \in [Rows -> ItemCounts \cup {NoRow}]
  /\ Nothing \in [Rows -> Int]
  <1>1. NoProducts \in [{} -> Counts] /\ DOMAIN NoProducts = {}
    BY DEF NoProducts
  <1>2. QED
    BY <1>1 DEF Unseen, Nothing

LEMMA BookingType ==
  ASSUME NEW r \in Requests, NEW n \in UNION {[P -> Counts] : P \in SUBSET Products}
  PROVE  Booking(r, WithNew(r.items, n)) \in [Rows -> Int]
  <1> DEFINE all == WithNew(r.items, n)
  <1>1. all \in [DOMAIN all -> Int]
    BY RequestFields, NewType, CountsAreInt DEF WithNew
  <1> HIDE DEF all
  <1>2. ASSUME NEW k \in Rows
        PROVE  (IF Expands(r, all, k) THEN all[k[2]] ELSE 0)
               - (IF Reduces(r, all, k) THEN all[k[2]] ELSE 0) \in Int
    BY <1>1 DEF Expands, Reduces
  <1>3. QED
    BY <1>2 DEF Booking, all

LEMMA Types == ASSUME TypeOK, NEW t \in Tasks, Active(t), Running(t)
  PROVE /\ req[t] \in Requests
        /\ req[t].items \in [DOMAIN req[t].items -> Counts]
        /\ new[t] \in UNION {[P -> Counts] : P \in SUBSET Products}
  BY RequestFields DEF TypeOK, Running

-----------------------------------------------------------------------------
\* The transaction of task u is not touched by the step.
SameTx(u) ==
  /\ pc'[u] = pc[u]
  /\ req'[u] = req[u]
  /\ new'[u] = new[u]
  /\ view'[u] = view[u]
  /\ visible'[u] = visible[u]
  /\ stale'[u] = stale[u]
  /\ writes'[u] = writes[u]
  /\ leg'[u] = leg[u]
  /\ crit'[u] = crit[u]
  /\ upd'[u] = upd[u]
  /\ waits'[u] = waits[u]
  /\ booking'[u] = booking[u]
  /\ result'[u] = result[u]

\* What IInv says of one task.
TaskInv(u) ==
  /\ Active(u) => Running(u) /\ result[u] = "none"
  /\ ~Active(u) => AtRest(u)
  /\ pc[u] = "idle" => result[u] = "none"

\* A task keeps its part of the invariant while others do not commit.
LEMMA OthersKept ==
  ASSUME NEW u \in Tasks, TaskInv(u), SameTx(u), stock' = stock,
         products' = products, allocated \subseteq allocated'
  PROVE  TaskInv(u)'
  <1>1. Active(u)' = Active(u)
    BY DEF Active, SameTx
  <1>2. Running(u) => Running(u)'
    <2> SUFFICES ASSUME Running(u) PROVE Running(u)'
      OBVIOUS
    <2>1. All(u)' = All(u) /\ Todo(u)' = Todo(u) /\ Invoiced(u)' = Invoiced(u)
      BY DEF SameTx, All, Todo, Invoiced
    <2>2. Flow(u)'
      BY <2>1 DEF Running, Flow, SameTx
    <2>3. Plan(u)'
      BY <2>1 DEF Running, Plan, SameTx, RowOf
    <2>4. Progressed(u)'
      <3>1. ASSUME NEW k \in Rows
            PROVE  /\ ReducedBy(u, k)' = ReducedBy(u, k)
                   /\ ExpandedBy(u, k)' = ExpandedBy(u, k)
                   /\ CreatedBy(u, k)' = CreatedBy(u, k)
        BY <2>1 DEF SameTx, ReducedBy, ExpandedBy, CreatedBy
      <3>2. ASSUME NEW k \in Rows
            PROVE  ValueBy(u, k)' = ValueBy(u, k)
        BY <3>1 DEF SameTx, ValueBy
      <3>3. QED
        BY <3>1, <3>2 DEF Running, Progressed, SameTx
    <2>5. Booked(u)'
      BY <2>1 DEF Running, Booked, SameTx
    <2>6. Created(u)'
      BY DEF Running, Created, SameTx
    <2>7. QED
      BY <2>2, <2>3, <2>4, <2>5, <2>6 DEF Running, SameTx
  <1>3. AtRest(u) => AtRest(u)'
    BY DEF AtRest, SameTx
  <1>4. QED
    BY <1>1, <1>2, <1>3 DEF TaskInv, SameTx

\* A transaction that is rolled back leaves the invariant as it was.
LEMMA AbortKeeps ==
  ASSUME TypeOK, IInv, NEW t \in Tasks, NEW answer \in Answers, Abort(t, answer)
  PROVE  TypeOK' /\ IInv'
  <1>1. TypeOK'
    BY Defaults DEF TypeOK, Abort, Finish, Release
  <1>2. ASSUME NEW u \in Tasks, u # t PROVE SameTx(u)
    BY <1>2 DEF TypeOK, Abort, Finish, Release, SameTx
  <1>3. AtRest(t)' /\ ~Active(t)' /\ pc'[t] = "done"
    BY DEF TypeOK, Abort, Finish, Release, AtRest, Active, Entries
  <1>4. ASSUME NEW u \in Tasks PROVE TaskInv(u)'
    <2>1. CASE u = t
      BY <2>1, <1>3 DEF TaskInv
    <2>2. CASE u # t
      BY <2>2, <1>2, OthersKept DEF IInv, TaskInv, Abort
    <2>3. QED
      BY <2>1, <2>2
  <1>5. Apart'
    BY <1>2, <1>3, Defaults DEF IInv, Apart, SameTx, AtRest
  <1>6. Stored'
    BY DEF IInv, Stored, Abort
  <1>7. QED
    BY <1>1, <1>4, <1>5, <1>6 DEF IInv, TaskInv

\* A step of one task that commits nothing is judged by that task alone.
LEMMA OneTask ==
  ASSUME IInv, NEW t \in Tasks, \A u \in Tasks \ {t} : SameTx(u),
         stock' = stock, products' = products, booked' = booked,
         allocated \subseteq allocated', products \subseteq allocated',
         TaskInv(t)', Apart'
  PROVE  IInv'
  <1>1. ASSUME NEW u \in Tasks PROVE TaskInv(u)'
    <2>1. CASE u = t
      BY <2>1
    <2>2. CASE u # t
      BY <2>2, OthersKept DEF IInv, TaskInv
    <2>3. QED
      BY <2>1, <2>2
  <1>2. Stored'
    BY DEF IInv, Stored
  <1>3. QED
    BY <1>1, <1>2 DEF IInv, TaskInv

\* A new transaction has seen the committed stock and done nothing.
LEMMA ExecuteKeeps ==
  ASSUME TypeOK, IInv, NEW t \in Tasks, NEW r \in Requests, Execute(t, r)
  PROVE  TypeOK' /\ IInv'
  <1>1. CASE r.kind = "create" /\ r.fresh = 0
    BY <1>1, AbortKeeps DEF Execute, Answers
  <1>2. CASE ~(r.kind = "create" /\ r.fresh = 0)
    <2> USE <1>2
    <2>1. TypeOK'
      <3>1. pc' \in [Tasks -> Entries \cup {"idle", "done"}]
        BY DEF TypeOK, Execute, Entries
      <3>2. req' \in [Tasks -> Requests \cup {NoRequest}]
        BY DEF TypeOK, Execute
      <3>3. /\ stock \in [Rows -> ItemCounts \cup {NoRow}]
            /\ products \in SUBSET Products
            /\ view \in [Tasks -> [Rows -> ItemCounts \cup {NoRow}]]
            /\ visible \in [Tasks -> SUBSET Products]
        BY DEF TypeOK
      <3>4. /\ view' = [view EXCEPT ![t] = stock]
            /\ visible' = [visible EXCEPT ![t] = products]
        BY DEF Execute
      <3>5. view' \in [Tasks -> [Rows -> ItemCounts \cup {NoRow}]]
        BY <3>3, <3>4
      <3>6. visible' \in [Tasks -> SUBSET Products]
        BY <3>3, <3>4
      <3>7. QED
        BY <3>1, <3>2, <3>5, <3>6 DEF TypeOK, Execute, dbVars
    <2>2. \A u \in Tasks \ {t} : SameTx(u)
      BY DEF TypeOK, Execute, dbVars, SameTx
    <2>3. /\ pc[t] = "idle" /\ pc'[t] = IF r.kind = "create" THEN "expand" ELSE "invoice"
          /\ req'[t] = r /\ view'[t] = stock /\ visible'[t] = products
          /\ new'[t] = new[t] /\ stale'[t] = stale[t] /\ writes'[t] = writes[t]
          /\ leg'[t] = leg[t] /\ crit'[t] = crit[t] /\ upd'[t] = upd[t]
          /\ result'[t] = result[t]
          /\ stock' = stock /\ products' = products
      BY DEF TypeOK, Execute, dbVars
    <2>4. AtRest(t) /\ result[t] = "none"
      BY <2>3 DEF IInv, Active, Entries
    <2>5. Flow(t)' /\ Todo(t)' = {} /\ ~Invoiced(t)'
      BY <2>3, <2>4, RequestFields DEF AtRest, Flow, Todo, Invoiced
    <2>6. Plan(t)'
      BY <2>3, <2>4, <2>5 DEF AtRest, Plan, Todo
    <2>7. Progressed(t)'
      BY <2>3, <2>4, Defaults DEF AtRest, Progressed, ReducedBy, ExpandedBy, CreatedBy, ValueBy
    <2>8. Booked(t)' /\ Created(t)'
      BY <2>3, <2>4, <2>5, Defaults, RequestFields DEF AtRest, Booked, Created, IInv, Stored
    <2>9. TaskInv(t)'
      BY <2>3, <2>4, <2>5, <2>6, <2>7, <2>8 DEF TaskInv, Running, Active, Entries
    <2>10. Apart'
      BY <2>2, <2>3 DEF IInv, Apart, SameTx
    <2>11. QED
      BY <2>1, <2>2, <2>9, <2>10, OneTask DEF Execute, dbVars, IInv, Stored
  <1>3. QED
    BY <1>1, <1>2

\* The invoice is inserted: the transaction has passed all its checks.
LEMMA InvoiceKeeps ==
  ASSUME TypeOK, IInv, NEW t \in Tasks, InvoiceEntry(t)
  PROVE  TypeOK' /\ IInv'
  <1> DEFINE all == All(t)
  <1>1. CASE \E answer \in Answers : Abort(t, answer)
    BY <1>1, AbortKeeps
  <1>2. CASE ~\E answer \in Answers : Abort(t, answer)
    <2>1. /\ {req[t].from, req[t].to} \subseteq Warehouses \cup {NoWarehouse}
          /\ DOMAIN all # {}
          /\ \A p \in DOMAIN all : all[p] \in ItemCounts
          /\ req[t].dup = {} /\ DOMAIN all \subseteq visible[t]
          /\ booking' = [booking EXCEPT ![t] = Booking(req[t], all)]
          /\ Advance(t)
          /\ UNCHANGED <<dbVars, req, new, view, visible, stale, writes, leg,
                         crit, upd, waits, allocated>>
      BY <1>2 DEF InvoiceEntry, Answers
    <2>2. /\ pc[t] = "invoice" /\ crit[t] = {} /\ upd[t] = {} /\ Active(t)
          /\ Running(t) /\ result[t] = "none" /\ req[t] \in Requests
      BY DEF InvoiceEntry, AtEntry, Ready, Active, Entries, IInv, Running
    <2>3. \A u \in Tasks \ {t} : SameTx(u)
      BY <2>1 DEF TypeOK, Advance, dbVars, SameTx
    <2>4. pc'[t] = IF req[t].kind = "create" THEN "newItems" ELSE "reduce"
      BY <2>1, <2>2, RequestFields DEF TypeOK, Advance, Following, Running, Flow
    <2>5. booking'[t] = Booking(req[t], all)
      BY <2>1 DEF TypeOK
    <2>6. TypeOK'
      <3>1. Booking(req[t], all) \in [Rows -> Int]
        BY <2>2, BookingType DEF TypeOK, All
      <3>2. pc' \in [Tasks -> Entries \cup {"idle", "done"}]
        BY <2>1, <2>4 DEF TypeOK, Advance, Entries
      <3>3. QED
        BY <2>1, <3>1, <3>2 DEF TypeOK, dbVars
    <2>7. /\ req'[t] = req[t] /\ new'[t] = new[t] /\ view'[t] = view[t]
          /\ visible'[t] = visible[t] /\ stale'[t] = stale[t]
          /\ writes'[t] = writes[t] /\ leg'[t] = leg[t] /\ crit'[t] = crit[t]
          /\ upd'[t] = upd[t] /\ result'[t] = result[t] /\ stock' = stock
          /\ products' = products /\ allocated' = allocated /\ booked' = booked
      BY <2>1 DEF dbVars
    <2>8. Flow(t)'
      BY <2>2, <2>4, <2>7, RequestFields DEF Running, Flow, Todo
    <2>9. Plan(t)'
      BY <2>2, <2>7 DEF Running, Plan, Todo, RowOf
    <2>10. Progressed(t)'
      <3>1. ASSUME NEW k \in Rows
            PROVE  /\ ReducedBy(t, k)' = ReducedBy(t, k)
                   /\ ExpandedBy(t, k)' = ExpandedBy(t, k)
                   /\ CreatedBy(t, k)' = CreatedBy(t, k)
        BY <2>2, <2>4, <2>7 DEF ReducedBy, ExpandedBy, CreatedBy, Todo
      <3>2. ASSUME NEW k \in Rows PROVE ValueBy(t, k)' = ValueBy(t, k)
        BY <2>7, <3>1 DEF ValueBy
      <3>3. QED
        BY <2>2, <2>7, <3>1, <3>2 DEF Running, Progressed
    <2>11. DOMAIN req[t].items \subseteq products
      <3>1. CASE req[t].kind = "create"
        <4>1. leg[t] = "expand" /\ req[t].to \in WarehouseIds
          BY <2>2, <3>1, RequestFields DEF Running, Flow
        <4>2. ASSUME NEW p \in DOMAIN req[t].items PROVE p \in products
          <5>1. <<req[t].to, p>> \in Rows
            BY <2>2, <4>1, RequestFields DEF Rows
          <5>2. ExpandedBy(t, <<req[t].to, p>>) /\ ~CreatedBy(t, <<req[t].to, p>>)
            BY <2>2, <4>1 DEF ExpandedBy, CreatedBy, Todo
          <5>3. QED
            BY <2>2, <5>1, <5>2 DEF Running, Progressed
        <4>3. QED
          BY <4>2
      <3>2. CASE req[t].kind # "create"
        <4>1. DOMAIN new[t] = {} /\ visible[t] \subseteq products
          BY <2>2, <3>2, Defaults DEF Running, Created
        <4>2. QED
          BY <2>1, <4>1 DEF All, WithNew
      <3>3. QED
        BY <3>1, <3>2
    <2>12. Booked(t)'
      <3>1. \A p \in DOMAIN new[t] : new[t][p] \in ItemCounts
        BY <2>1 DEF All, WithNew
      <3>2. QED
        BY <2>1, <2>5, <2>7, <2>11, <3>1 DEF Booked, All
    <2>13. Created(t)'
      BY <2>2, <2>4, <2>7 DEF Running, Created
    <2>14. TaskInv(t)'
      BY <2>2, <2>4, <2>7, <2>8, <2>9, <2>10, <2>12, <2>13
         DEF TaskInv, Running, Active, Entries
    <2>15. Apart'
      BY <2>1 DEF IInv, Apart
    <2>16. QED
      BY <2>3, <2>6, <2>7, <2>14, <2>15, OneTask DEF IInv, Stored
  <1>3. QED
    BY <1>1, <1>2

\* The selects of a reducing ChangeCount.
LEMMA ReduceKeeps ==
  ASSUME TypeOK, IInv, NEW t \in Tasks, ReduceEntry(t)
  PROVE  TypeOK' /\ IInv'
  <1> DEFINE items == req[t].items
             seen(p) == view[t][<<req[t].from, p>>]
  <1>1. CASE \E answer \in Answers : Abort(t, answer)
    BY <1>1, AbortKeeps
  <1>2. CASE ~\E answer \in Answers : Abort(t, answer)
    <2>1. /\ \A p \in DOMAIN items : seen(p) # NoRow
          /\ crit' = [crit EXCEPT ![t] = {p \in DOMAIN items : items[p] >= seen(p)}]
          /\ upd' = [upd EXCEPT ![t] = {p \in DOMAIN items : ~(items[p] >= seen(p))}]
          /\ leg' = [leg EXCEPT ![t] = "reduce"]
          /\ Advance(t)
          /\ UNCHANGED <<dbVars, req, new, view, visible, stale, writes, waits,
                         booking, allocated>>
      BY <1>2 DEF ReduceEntry, Answers
    <2>2. /\ pc[t] = "reduce" /\ crit[t] = {} /\ upd[t] = {} /\ Active(t)
          /\ Running(t) /\ result[t] = "none" /\ req[t] \in Requests
          /\ DOMAIN items \subseteq Products
      BY RequestFields DEF ReduceEntry, AtEntry, Ready, Active, Entries, IInv, Running
    <2>3. \A u \in Tasks \ {t} : SameTx(u)
      BY <2>1 DEF TypeOK, Advance, dbVars, SameTx
    <2>4. /\ req[t].kind \in {"move", "remove"}
          /\ pc'[t] = IF req[t].kind = "move" THEN "expand" ELSE "commit"
          /\ leg[t] = "none"
      BY <2>1, <2>2, RequestFields DEF TypeOK, Advance, Following, Running, Flow
    <2>5. /\ crit'[t] = {p \in DOMAIN items : items[p] >= seen(p)}
          /\ upd'[t] = {p \in DOMAIN items : ~(items[p] >= seen(p))}
          /\ leg'[t] = "reduce"
      BY <2>1 DEF TypeOK
    <2>6. TypeOK'
      <3>1. pc' \in [Tasks -> Entries \cup {"idle", "done"}]
        BY <2>1, <2>4 DEF TypeOK, Advance, Entries
      <3>2. crit' \in [Tasks -> SUBSET Products] /\ upd' \in [Tasks -> SUBSET Products]
        BY <2>1, <2>2, <2>5 DEF TypeOK
      <3>3. leg' \in [Tasks -> {"none", "reduce", "expand"}]
        BY <2>1 DEF TypeOK
      <3>4. QED
        BY <2>1, <3>1, <3>2, <3>3 DEF TypeOK, dbVars
    <2>7. /\ req'[t] = req[t] /\ new'[t] = new[t] /\ view'[t] = view[t]
          /\ visible'[t] = visible[t] /\ stale'[t] = stale[t]
          /\ writes'[t] = writes[t] /\ booking'[t] = booking[t]
          /\ result'[t] = result[t] /\ stock' = stock
          /\ products' = products /\ allocated' = allocated /\ booked' = booked
      BY <2>1 DEF dbVars
    <2>8. Todo(t)' = DOMAIN items
      BY <2>5 DEF Todo
    <2>9. Flow(t)'
      BY <2>2, <2>4, <2>5, <2>7, RequestFields DEF Running, Flow
    <2>10. Plan(t)'
      <3>1. crit'[t] \cap upd'[t] = {}
        BY <2>5
      <3>2. ASSUME NEW p \in DOMAIN items PROVE RowOf(t, p)' = <<req[t].from, p>>
        BY <2>5, <2>7 DEF RowOf
      <3>3. QED
        BY <2>1, <2>5, <2>7, <2>8, <3>1, <3>2 DEF Plan
    <2>11. Progressed(t)'
      <3>1. ASSUME NEW k \in Rows
            PROVE  /\ ~ReducedBy(t, k) /\ ~ReducedBy(t, k)'
                   /\ ~ExpandedBy(t, k) /\ ~ExpandedBy(t, k)'
                   /\ ~CreatedBy(t, k) /\ ~CreatedBy(t, k)'
        <4>1. DOMAIN new[t] = {}
          BY <2>2, <2>4, Defaults DEF Running, Created
        <4>2. QED
          BY <2>4, <2>5, <2>7, <2>8, <4>1 DEF ReducedBy, ExpandedBy, CreatedBy
      <3>2. QED
        BY <2>2, <2>7, <3>1 DEF Running, Progressed, ValueBy
    <2>12. Booked(t)'
      BY <2>2, <2>7 DEF Running, Booked, Invoiced, All
    <2>13. Created(t)'
      BY <2>2, <2>4, <2>7 DEF Running, Created
    <2>14. TaskInv(t)'
      BY <2>2, <2>4, <2>7, <2>9, <2>10, <2>11, <2>12, <2>13
         DEF TaskInv, Running, Active, Entries
    <2>15. Apart'
      BY <2>1 DEF IInv, Apart
    <2>16. QED
      BY <2>3, <2>6, <2>7, <2>14, <2>15, OneTask DEF IInv, Stored
  <1>3. QED
    BY <1>1, <1>2

\* The selects of an expanding ChangeCount.
LEMMA ExpandKeeps ==
  ASSUME TypeOK, IInv, NEW t \in Tasks, ExpandEntry(t)
  PROVE  TypeOK' /\ IInv'
  <1> DEFINE items == req[t].items
             seen(p) == view[t][<<req[t].to, p>>]
  <1>1. /\ crit' = [crit EXCEPT ![t] = {p \in DOMAIN items : seen(p) = NoRow}]
        /\ upd' = [upd EXCEPT ![t] = {p \in DOMAIN items : seen(p) # NoRow}]
        /\ leg' = [leg EXCEPT ![t] = "expand"]
        /\ Advance(t)
        /\ UNCHANGED <<dbVars, req, new, view, visible, stale, writes, waits,
                       booking, allocated>>
    BY DEF ExpandEntry
  <1>2. /\ pc[t] = "expand" /\ crit[t] = {} /\ upd[t] = {} /\ Active(t)
        /\ Running(t) /\ result[t] = "none" /\ req[t] \in Requests
        /\ DOMAIN items \subseteq Products
    BY RequestFields DEF ExpandEntry, AtEntry, Ready, Active, Entries, IInv, Running
  <1>3. \A u \in Tasks \ {t} : SameTx(u)
    BY <1>1 DEF TypeOK, Advance, dbVars, SameTx
  <1>4. /\ \/ req[t].kind = "create" /\ leg[t] = "none"
           \/ req[t].kind = "move" /\ leg[t] = "reduce"
        /\ pc'[t] = IF req[t].kind = "create" THEN "products" ELSE "commit"
    BY <1>1, <1>2, RequestFields DEF TypeOK, Advance, Following, Running, Flow
  <1>5. /\ crit'[t] = {p \in DOMAIN items : seen(p) = NoRow}
        /\ upd'[t] = {p \in DOMAIN items : seen(p) # NoRow}
        /\ leg'[t] = "expand"
    BY <1>1 DEF TypeOK
  <1>6. TypeOK'
    <2>1. pc' \in [Tasks -> Entries \cup {"idle", "done"}]
      BY <1>1, <1>4 DEF TypeOK, Advance, Entries
    <2>2. crit' \in [Tasks -> SUBSET Products] /\ upd' \in [Tasks -> SUBSET Products]
      BY <1>1, <1>2, <1>5 DEF TypeOK
    <2>3. leg' \in [Tasks -> {"none", "reduce", "expand"}]
      BY <1>1 DEF TypeOK
    <2>4. QED
      BY <1>1, <2>1, <2>2, <2>3 DEF TypeOK, dbVars
  <1>7. /\ req'[t] = req[t] /\ new'[t] = new[t] /\ view'[t] = view[t]
        /\ visible'[t] = visible[t] /\ stale'[t] = stale[t]
        /\ writes'[t] = writes[t] /\ booking'[t] = booking[t]
        /\ result'[t] = result[t] /\ stock' = stock
        /\ products' = products /\ allocated' = allocated /\ booked' = booked
    BY <1>1 DEF dbVars
  <1>8. Todo(t)' = DOMAIN items /\ Todo(t) = {}
    BY <1>2, <1>5 DEF Todo
  <1>9. DOMAIN new[t] = {}
    BY <1>2, <1>4, Defaults DEF Running, Created
  <1>10. Flow(t)'
    BY <1>4, <1>5, <1>7 DEF Flow
  <1>11. Plan(t)'
    <2>1. crit'[t] \cap upd'[t] = {}
      BY <1>5
    <2>2. ASSUME NEW p \in DOMAIN items PROVE RowOf(t, p)' = <<req[t].to, p>>
      BY <1>5, <1>7 DEF RowOf
    <2>3. QED
      BY <1>5, <1>7, <1>8, <2>1, <2>2 DEF Plan
  <1>12. Progressed(t)'
    <2>1. ASSUME NEW k \in Rows
          PROVE  /\ ReducedBy(t, k)' = ReducedBy(t, k)
                 /\ ~ExpandedBy(t, k) /\ ~ExpandedBy(t, k)'
                 /\ ~CreatedBy(t, k) /\ ~CreatedBy(t, k)'
      <3>1. ~(req[t].kind = "create" /\ k[1] = req[t].from)
        BY <1>2, RequestFields, DataAssumption DEF Rows
      <3>2. QED
        BY <1>4, <1>5, <1>7, <1>8, <1>9, <3>1 DEF ReducedBy, ExpandedBy, CreatedBy
    <2>2. ASSUME NEW k \in Rows PROVE ValueBy(t, k)' = ValueBy(t, k)
      BY <1>7, <2>1 DEF ValueBy
    <2>3. QED
      BY <1>2, <1>7, <2>1, <2>2 DEF Running, Progressed
  <1>13. Booked(t)'
    BY <1>2, <1>4, <1>7 DEF Running, Booked, Invoiced, All
  <1>14. Created(t)'
    BY <1>2, <1>4, <1>7 DEF Running, Created
  <1>15. TaskInv(t)'
    BY <1>2, <1>4, <1>7, <1>10, <1>11, <1>12, <1>13, <1>14
       DEF TaskInv, Running, Active, Entries
  <1>16. Apart'
    BY <1>1 DEF IInv, Apart
  <1>17. QED
    BY <1>3, <1>6, <1>7, <1>15, <1>16, OneTask DEF IInv, Stored

\* New products are created: nobody else knows of them.
LEMMA ProductsKeeps ==
  ASSUME TypeOK, IInv, NEW t \in Tasks, ProductsEntry(t)
  PROVE  TypeOK' /\ IInv'
  <1>1. CASE \E answer \in Answers : Abort(t, answer)
    BY <1>1, AbortKeeps
  <1>2. CASE ~\E answer \in Answers : Abort(t, answer)
    <2>1. PICK ids \in SUBSET (Products \ allocated) :
            /\ Cardinality(ids) = req[t].fresh
            /\ \E n \in [ids -> Counts] : new' = [new EXCEPT ![t] = n]
            /\ allocated' = allocated \cup ids
            /\ visible' = [visible EXCEPT ![t] = @ \cup ids]
      BY <1>2 DEF FreeIds, ProductsEntry, Answers
    <2>2. /\ Advance(t)
          /\ UNCHANGED <<dbVars, req, view, stale, writes, leg, crit, upd,
                         waits, booking>>
      BY <1>2 DEF FreeIds, ProductsEntry, Answers
    <2>3. PICK n \in [ids -> Counts] : new' = [new EXCEPT ![t] = n]
      BY <2>1
    <2>4. /\ pc[t] = "products" /\ crit[t] = {} /\ upd[t] = {} /\ Active(t)
          /\ Running(t) /\ result[t] = "none" /\ req[t] \in Requests
      BY DEF FreeIds, ProductsEntry, AtEntry, Ready, Active, Entries, IInv, Running
    <2>5. \A u \in Tasks \ {t} : SameTx(u)
      BY <2>1, <2>2, <2>3 DEF TypeOK, Advance, dbVars, SameTx
    <2>6. req[t].kind = "create" /\ leg[t] = "expand" /\ pc'[t] = "invoice"
      BY <2>2, <2>4, RequestFields DEF TypeOK, Advance, Following, Running, Flow
    <2>7. new'[t] = n /\ visible'[t] = visible[t] \cup ids
      BY <2>1, <2>3 DEF TypeOK
    <2>8. TypeOK'
      <3>1. pc' \in [Tasks -> Entries \cup {"idle", "done"}]
        BY <2>2, <2>6 DEF TypeOK, Advance, Entries
      <3>2. n \in UNION {[P -> Counts] : P \in SUBSET Products}
        BY <2>3
      <3>3. new' \in [Tasks -> UNION {[P -> Counts] : P \in SUBSET Products}]
        BY <2>3, <3>2 DEF TypeOK
      <3>4. visible' \in [Tasks -> SUBSET Products] /\ allocated' \in SUBSET Products
        BY <2>1 DEF TypeOK
      <3>5. QED
        BY <2>2, <3>1, <3>3, <3>4 DEF TypeOK, dbVars
    <2>9. /\ req'[t] = req[t] /\ view'[t] = view[t] /\ stale'[t] = stale[t]
          /\ writes'[t] = writes[t] /\ leg'[t] = leg[t] /\ crit'[t] = crit[t]
          /\ upd'[t] = upd[t] /\ result'[t] = result[t] /\ stock' = stock
          /\ products' = products /\ booked' = booked
      BY <2>2 DEF dbVars
    <2>10. new[t] = NoProducts /\ DOMAIN new[t] = {} /\ DOMAIN n = ids
      BY <2>3, <2>4, <2>6, Defaults DEF Running, Created
    <2>11. Flow(t)'
      BY <2>4, <2>6, <2>9 DEF Running, Flow, Todo
    <2>12. Plan(t)'
      BY <2>4, <2>9 DEF Running, Plan, Todo, RowOf
    <2>13. Progressed(t)'
      <3>1. ASSUME NEW k \in Rows
            PROVE  /\ ReducedBy(t, k)' = ReducedBy(t, k)
                   /\ ExpandedBy(t, k)' = ExpandedBy(t, k)
                   /\ ~CreatedBy(t, k) /\ ~CreatedBy(t, k)'
        BY <2>4, <2>6, <2>9 DEF ReducedBy, ExpandedBy, CreatedBy, Todo
      <3>2. ASSUME NEW k \in Rows PROVE ValueBy(t, k)' = ValueBy(t, k)
        BY <2>9, <3>1 DEF ValueBy
      <3>3. QED
        BY <2>4, <2>9, <3>1, <3>2 DEF Running, Progressed
    <2>14. Booked(t)'
      BY <2>6, <2>9 DEF Booked, Invoiced
    <2>15. Created(t)'
      BY <2>1, <2>4, <2>6, <2>7, <2>9, <2>10 DEF Running, Created, IInv, Stored
    <2>16. TaskInv(t)'
      BY <2>4, <2>6, <2>9, <2>11, <2>12, <2>13, <2>14, <2>15
         DEF TaskInv, Running, Active, Entries
    <2>17. Apart'
      <3>1. \A u \in Tasks : DOMAIN new[u] \subseteq allocated
        BY Defaults DEF IInv, Running, AtRest, Created
      <3>2. QED
        BY <2>1, <2>5, <2>7, <2>9, <2>10, <3>1 DEF IInv, Apart, SameTx
    <2>18. QED
      BY <2>1, <2>5, <2>8, <2>9, <2>16, <2>17, OneTask DEF IInv, Stored
  <1>3. QED
    BY <1>1, <1>2

\* The rows of the new products are inserted: they were in nobody's way.
LEMMA NewItemsKeeps ==
  ASSUME TypeOK, IInv, NEW t \in Tasks, NewItemsEntry(t)
  PROVE  TypeOK' /\ IInv'
  <1> DEFINE rows == {<<req[t].to, p>> : p \in DOMAIN new[t]}
  <1>1. /\ view' = [view EXCEPT ![t] = [k \in Rows |-> IF k \in rows THEN new[t][k[2]]
                                                                    ELSE @[k]]]
        /\ writes' = [writes EXCEPT ![t] = @ \cup rows]
        /\ Advance(t)
        /\ UNCHANGED <<dbVars, req, new, visible, stale, leg, crit, upd, waits,
                       booking, allocated>>
    BY DEF NewItemsEntry
  <1>2. /\ pc[t] = "newItems" /\ crit[t] = {} /\ upd[t] = {} /\ Active(t)
        /\ Running(t) /\ result[t] = "none" /\ req[t] \in Requests
    BY DEF NewItemsEntry, AtEntry, Ready, Active, Entries, IInv, Running
  <1>3. \A u \in Tasks \ {t} : SameTx(u)
    BY <1>1 DEF TypeOK, Advance, dbVars, SameTx
  <1>4. /\ req[t].kind = "create" /\ leg[t] = "expand" /\ pc'[t] = "commit"
        /\ req[t].to \in WarehouseIds
    BY <1>1, <1>2, RequestFields DEF TypeOK, Advance, Following, Running, Flow
  <1>5. /\ view'[t] = [k \in Rows |-> IF k \in rows THEN new[t][k[2]] ELSE view[t][k]]
        /\ writes'[t] = writes[t] \cup rows
    BY <1>1 DEF TypeOK
  <1>6. /\ new[t] \in [DOMAIN new[t] -> Counts]
        /\ DOMAIN new[t] \subseteq Products
        /\ rows \subseteq Rows
        /\ \A p \in DOMAIN new[t] : new[t][p] \in ItemCounts
    <2>1. new[t] \in [DOMAIN new[t] -> Counts] /\ DOMAIN new[t] \subseteq Products
      BY NewType DEF TypeOK
    <2>2. rows \subseteq Rows
      BY <1>4, <2>1 DEF Rows
    <2>3. QED
      BY <1>2, <2>1, <2>2 DEF Running, Booked, Invoiced
  <1>7. TypeOK'
    <2>1. pc' \in [Tasks -> Entries \cup {"idle", "done"}]
      BY <1>1, <1>4 DEF TypeOK, Advance, Entries
    <2>2. view'[t] \in [Rows -> ItemCounts \cup {NoRow}]
      BY <1>5, <1>6 DEF TypeOK
    <2>3. view' \in [Tasks -> [Rows -> ItemCounts \cup {NoRow}]]
      BY <1>1, <2>2 DEF TypeOK
    <2>4. writes' \in [Tasks -> SUBSET Rows]
      BY <1>1, <1>6 DEF TypeOK
    <2>5. QED
      BY <1>1, <2>1, <2>3, <2>4 DEF TypeOK, dbVars
  <1>8. /\ req'[t] = req[t] /\ new'[t] = new[t] /\ visible'[t] = visible[t]
        /\ stale'[t] = stale[t] /\ leg'[t] = leg[t] /\ crit'[t] = crit[t]
        /\ upd'[t] = upd[t] /\ booking'[t] = booking[t]
        /\ result'[t] = result[t] /\ stock' = stock
        /\ products' = products /\ allocated' = allocated /\ booked' = booked
    BY <1>1 DEF dbVars
  <1>9. Flow(t)'
    BY <1>2, <1>4, <1>8 DEF Running, Flow, Todo
  <1>10. Plan(t)'
    BY <1>2, <1>8 DEF Running, Plan, Todo
  <1>11. DOMAIN new[t] \cap products = {} /\ DOMAIN req[t].items \subseteq products
    BY <1>2 DEF Running, Created, Booked, Invoiced
  <1>12. Progressed(t)'
    <2>1. ASSUME NEW k \in Rows
          PROVE  /\ ReducedBy(t, k)' = ReducedBy(t, k)
                 /\ ExpandedBy(t, k)' = ExpandedBy(t, k)
                 /\ ~CreatedBy(t, k)
                 /\ CreatedBy(t, k)' <=> k \in rows
                 /\ CreatedBy(t, k)' => ~ReducedBy(t, k) /\ ~ExpandedBy(t, k)
      BY <1>2, <1>4, <1>8, <1>11 DEF ReducedBy, ExpandedBy, CreatedBy, Todo, Rows
    <2>2. ASSUME NEW k \in Rows
          PROVE  ValueBy(t, k)' = IF k \in rows THEN new[t][k[2]] ELSE ValueBy(t, k)
      BY <1>8, <2>1 DEF ValueBy
    <2>3. QED
      BY <1>2, <1>5, <1>8, <2>1, <2>2 DEF Running, Progressed
  <1>13. Booked(t)'
    BY <1>2, <1>8 DEF Running, Booked, Invoiced, All
  <1>14. Created(t)'
    BY <1>2, <1>4, <1>8 DEF Running, Created
  <1>15. TaskInv(t)'
    BY <1>2, <1>4, <1>8, <1>9, <1>10, <1>12, <1>13, <1>14
       DEF TaskInv, Running, Active, Entries
  <1>16. Apart'
    <2>1. ASSUME NEW u \in Tasks, u # t, NEW k \in writes[u]
          PROVE  k \notin rows
      <3>1. k \in Rows /\ Active(u) /\ Running(u)
        BY <2>1 DEF TypeOK, IInv, AtRest
      <3>2. k[2] \in products \cup DOMAIN new[u]
        BY <2>1, <3>1 DEF Running, Progressed, CreatedBy
      <3>3. DOMAIN new[t] \cap DOMAIN new[u] = {}
        BY <2>1 DEF IInv, Apart
      <3>4. QED
        BY <1>11, <3>2, <3>3
    <2>2. QED
      BY <1>3, <1>5, <1>8, <2>1 DEF IInv, Apart, SameTx
  <1>17. QED
    BY <1>3, <1>7, <1>8, <1>15, <1>16, OneTask DEF IInv, Stored

\* A transaction that begins to wait has changed nothing.
LEMMA WaitKeeps ==
  ASSUME TypeOK, IInv, NEW t \in Tasks, NEW p \in Products, WaitForRow(t, p)
  PROVE  TypeOK' /\ IInv'
  <1>1. /\ waits' = [waits EXCEPT ![t] = RowOf(t, p)]
        /\ UNCHANGED <<dbVars, pc, req, new, view, visible, stale, writes, leg,
                       crit, upd, booking, allocated>>
        /\ p \in Todo(t) /\ LockedByOther(t, RowOf(t, p))
    BY DEF WaitForRow, NextRows, Todo
  <1>2. RowOf(t, p) \in Rows
    BY <1>1 DEF LockedByOther, TypeOK
  <1>3. TypeOK'
    <2>1. waits' \in [Tasks -> Rows \cup {NoRow}]
      BY <1>1, <1>2 DEF TypeOK
    <2>2. QED
      BY <1>1, <2>1 DEF TypeOK, dbVars
  <1>4. \A u \in Tasks \ {t} : SameTx(u)
    BY <1>1 DEF TypeOK, dbVars, SameTx
  <1>5. Active(t) /\ Running(t) /\ result[t] = "none"
    BY <1>1 DEF IInv, AtRest, Todo
  <1>6. Running(t)'
    BY <1>1, <1>5 DEF Running, Flow, Plan, Progressed, Booked, Created, ReducedBy,
      ExpandedBy, CreatedBy, ValueBy, Todo, RowOf, Invoiced, All, dbVars
  <1>7. TaskInv(t)'
    BY <1>1, <1>5, <1>6 DEF TaskInv, Active, Entries, dbVars
  <1>8. Apart'
    BY <1>1 DEF IInv, Apart
  <1>9. QED
    BY <1>1, <1>3, <1>4, <1>7, <1>8, OneTask DEF dbVars, IInv, Stored

\* What holds when a task is about to write a row.
LEMMA AtRow ==
  ASSUME TypeOK, IInv, NEW t \in Tasks, NEW p \in Todo(t)
  PROVE  /\ Active(t) /\ Running(t) /\ result[t] = "none" /\ req[t] \in Requests
         /\ p \in DOMAIN req[t].items /\ p \in Products
         /\ req[t].items \in [DOMAIN req[t].items -> Counts]
         /\ leg[t] \in {"reduce", "expand"}
         /\ RowOf(t, p) \in Rows
         /\ leg[t] = "reduce" => RowOf(t, p) \notin writes[t]
         /\ new[t] = NoProducts
         /\ pc[t] \in {"products", "expand", "commit"}
         /\ req[t].kind = "create" => pc[t] = "products"
         /\ leg[t] = "reduce" => req[t].kind \in {"move", "remove"}
  <1>1. /\ Active(t) /\ Running(t) /\ result[t] = "none" /\ req[t] \in Requests
        /\ req[t].items \in [DOMAIN req[t].items -> Counts]
        /\ DOMAIN req[t].items \subseteq Products
    BY RequestFields DEF IInv, AtRest, Todo, Running
  <1>2. p \in DOMAIN req[t].items /\ p \in Products
    BY <1>1 DEF Running, Plan
  <1>3. /\ leg[t] \in {"reduce", "expand"}
        /\ pc[t] \in {"products", "expand", "commit"}
        /\ req[t].kind = "create" => pc[t] = "products"
        /\ leg[t] = "reduce" => req[t].kind \in {"move", "remove"}
        /\ leg[t] = "expand" => req[t].kind \in {"create", "move"}
    BY <1>1, RequestFields DEF Running, Flow, TypeOK
  <1>4. new[t] = NoProducts
    BY <1>1, <1>3 DEF Running, Created
  <1>5. RowOf(t, p) \in Rows
    BY <1>1, <1>2, <1>3, RequestFields DEF RowOf, Rows
  <1>6. leg[t] = "reduce" => RowOf(t, p) \notin writes[t]
    BY <1>1, <1>4, <1>5, Defaults DEF Running, Progressed, ReducedBy, ExpandedBy, CreatedBy, RowOf
  <1>7. QED
    BY <1>1, <1>2, <1>3, <1>4, <1>5, <1>6

\* A write that computes its value from the committed one keeps the invariant.
LEMMA WriteKeeps ==
  ASSUME TypeOK, IInv, NEW t \in Tasks, NEW p \in Todo(t),
         ~LockedByOther(t, RowOf(t, p)),
         NEW value \in ItemCounts \cup {NoRow}, Written(t, p, value),
         NEW old, old = IF RowOf(t, p) \in writes[t] THEN view[t][RowOf(t, p)]
                                                     ELSE stock[RowOf(t, p)],
         leg[t] = "reduce" => old # NoRow /\ value = ReduceRow(old, req[t].items[p]),
         leg[t] = "expand" => value = ExpandRow(old, req[t].items[p]),
         p \in products
  PROVE  TypeOK' /\ IInv'
  <1> DEFINE row == RowOf(t, p)
             items == req[t].items
  <1>1. /\ view' = [view EXCEPT ![t][row] = value]
        /\ writes' = [writes EXCEPT ![t] = @ \cup {row}]
        /\ crit' = [crit EXCEPT ![t] = @ \ {p}]
        /\ upd' = [upd EXCEPT ![t] = @ \ {p}]
        /\ waits' = [waits EXCEPT ![t] = NoRow]
        /\ UNCHANGED <<dbVars, pc, req, new, visible, stale, leg, booking, allocated>>
    BY DEF Written
  <1>2. /\ Active(t) /\ Running(t) /\ result[t] = "none" /\ req[t] \in Requests
        /\ p \in DOMAIN items /\ leg[t] \in {"reduce", "expand"}
        /\ row \in Rows /\ DOMAIN new[t] = {}
        /\ leg[t] = "reduce" => row \notin writes[t]
        /\ req[t].kind = "create" => pc[t] = "products"
    BY AtRow, Defaults
  <1>3. \A u \in Tasks \ {t} : SameTx(u)
    BY <1>1 DEF TypeOK, dbVars, SameTx
  <1>4. /\ view'[t] = [view[t] EXCEPT ![row] = value]
        /\ writes'[t] = writes[t] \cup {row}
        /\ crit'[t] = crit[t] \ {p} /\ upd'[t] = upd[t] \ {p}
        /\ Todo(t)' = Todo(t) \ {p}
        /\ req'[t] = req[t] /\ new'[t] = new[t] /\ visible'[t] = visible[t]
        /\ stale'[t] = stale[t] /\ leg'[t] = leg[t] /\ pc'[t] = pc[t]
        /\ booking'[t] = booking[t] /\ result'[t] = result[t] /\ stock' = stock
        /\ products' = products /\ allocated' = allocated /\ booked' = booked
    BY <1>1 DEF TypeOK, dbVars, Todo
  <1>5. TypeOK'
    <2>1. view'[t] \in [Rows -> ItemCounts \cup {NoRow}]
      BY <1>2, <1>4 DEF TypeOK
    <2>2. view' \in [Tasks -> [Rows -> ItemCounts \cup {NoRow}]]
      BY <1>1, <2>1 DEF TypeOK
    <2>3. writes' \in [Tasks -> SUBSET Rows]
      BY <1>1, <1>2 DEF TypeOK
    <2>4. crit' \in [Tasks -> SUBSET Products] /\ upd' \in [Tasks -> SUBSET Products]
      BY <1>1 DEF TypeOK
    <2>5. waits' \in [Tasks -> Rows \cup {NoRow}]
      BY <1>1 DEF TypeOK
    <2>6. QED
      BY <1>1, <2>2, <2>3, <2>4, <2>5 DEF TypeOK, dbVars
  <1>6. Flow(t)'
    BY <1>2, <1>4 DEF Running, Flow
  <1>7. Plan(t)'
    <2>1. ASSUME NEW q \in Todo(t)'
          PROVE  /\ q \in Todo(t) /\ RowOf(t, q)' = RowOf(t, q)
                 /\ view'[t][RowOf(t, q)] = view[t][RowOf(t, q)]
                 /\ q \in crit'[t] <=> q \in crit[t]
      <3>1. q \in Todo(t) /\ q # p
        BY <1>4
      <3>2. RowOf(t, q) # row /\ RowOf(t, q) \in Rows
        BY <3>1, AtRow DEF RowOf
      <3>3. QED
        BY <1>4, <3>1, <3>2 DEF TypeOK, RowOf
    <2>2. QED
      BY <1>2, <1>4, <2>1 DEF Running, Plan
  <1>8. ASSUME NEW k \in Rows, k # row
        PROVE  /\ ReducedBy(t, k)' = ReducedBy(t, k)
               /\ ExpandedBy(t, k)' = ExpandedBy(t, k)
               /\ CreatedBy(t, k)' = CreatedBy(t, k)
    <2>1. k[1] # row[1] \/ k[2] # p
      BY <1>8 DEF RowOf, Rows
    <2>2. QED
      BY <1>2, <1>4, <2>1 DEF ReducedBy, ExpandedBy, CreatedBy, RowOf
  <1>9. /\ ~CreatedBy(t, row) /\ ~CreatedBy(t, row)'
        /\ row[2] = p
        /\ leg[t] = "reduce" => /\ ReducedBy(t, row)' /\ ~ReducedBy(t, row)
                                /\ ~ExpandedBy(t, row)' /\ ~ExpandedBy(t, row)
        /\ leg[t] = "expand" => /\ ReducedBy(t, row)' = ReducedBy(t, row)
                                /\ ExpandedBy(t, row)' /\ ~ExpandedBy(t, row)
    BY <1>2, <1>4 DEF ReducedBy, ExpandedBy, CreatedBy, RowOf
  <1>10. Progressed(t)'
    <2>1. ASSUME NEW k \in Rows, k # row
          PROVE  /\ ValueBy(t, k)' = ValueBy(t, k)
                 /\ view'[t][k] = view[t][k]
                 /\ k \in writes'[t] <=> k \in writes[t]
      BY <1>4, <1>8, <2>1 DEF ValueBy, TypeOK
    <2>0. row' = row
      BY <1>4 DEF RowOf
    <2>2. ValueBy(t, row)' = value
      <3> DEFINE mid == IF ReducedBy(t, row)' THEN ReduceRow(stock[row], items[p])
                                              ELSE stock[row]
      <3>1. ValueBy(t, row)' = IF ExpandedBy(t, row)' THEN ExpandRow(mid, items[p])
                                                      ELSE mid
        BY <1>4, <1>9, <2>0 DEF ValueBy
      <3>2. CASE leg[t] = "reduce"
        BY <1>2, <1>9, <3>1, <3>2
      <3>3. CASE leg[t] = "expand"
        <4>1. old = mid
          BY <1>2, <1>9, <3>3 DEF Running, Progressed, ValueBy
        <4>2. QED
          BY <1>9, <3>1, <3>3, <4>1
      <3>4. QED
        BY <1>2, <3>2, <3>3
    <2>3. view'[t][row] = value /\ row \in writes'[t]
      BY <1>2, <1>4 DEF TypeOK
    <2>4. ReducedBy(t, row)' => stock[row] # NoRow
      BY <1>2, <1>9 DEF Running, Progressed
    <2>5. ASSUME NEW k \in Rows
          PROVE  /\ k \in writes'[t] <=> (ReducedBy(t, k) \/ ExpandedBy(t, k) \/ CreatedBy(t, k))'
                 /\ k \in writes'[t] => view'[t][k] = ValueBy(t, k)'
                 /\ k \notin writes'[t] \cup stale'[t] => view'[t][k] = stock'[k]
                 /\ ReducedBy(t, k)' => stock'[k] # NoRow
                 /\ k \in writes'[t] /\ ~CreatedBy(t, k)' => k[2] \in products'
      <3>1. CASE k = row
        BY <1>2, <1>4, <1>9, <2>2, <2>3, <2>4, <2>0, <3>1
      <3>2. CASE k # row
        BY <1>2, <1>4, <1>8, <2>1, <3>2 DEF Running, Progressed
      <3>3. QED
        BY <3>1, <3>2
    <2>6. QED
      BY <2>5 DEF Progressed
  <1>11. Booked(t)'
    BY <1>2, <1>4 DEF Running, Booked, Invoiced, All
  <1>12. Created(t)'
    BY <1>2, <1>4 DEF Running, Created
  <1>13. TaskInv(t)'
    BY <1>2, <1>4, <1>6, <1>7, <1>10, <1>11, <1>12
       DEF TaskInv, Running, Active, Entries
  <1>14. Apart'
    BY <1>3, <1>4 DEF IInv, Apart, SameTx, LockedByOther
  <1>15. QED
    BY <1>3, <1>4, <1>5, <1>13, <1>14, OneTask DEF IInv, Stored

\* The three statements that write rows compute their values from committed ones.
LEMMA DeleteKeeps ==
  ASSUME TypeOK, IInv, NEW t \in Tasks, NEW p \in Products, DeleteRow(t, p)
  PROVE  TypeOK' /\ IInv'
  <1> DEFINE row == RowOf(t, p)
  <1>1. p \in Todo(t) /\ p \in crit[t] /\ leg[t] = "reduce" /\ ~LockedByOther(t, row)
    BY DEF DeleteRow, Reaches, Todo
  <1>2. CASE Conflict(t, row)
    BY <1>2, AbortKeeps DEF DeleteRow, Answers
  <1>3. CASE ~Conflict(t, row)
    <2>1. Written(t, p, NoRow)
      BY <1>3 DEF DeleteRow
    <2>2. /\ Running(t) /\ row \in Rows /\ row \notin writes[t] /\ row[2] = p
      BY <1>1, AtRow DEF RowOf
    <2>3. view[t][row] = stock[row]
      BY <1>3, <2>2 DEF Conflict, Running, Progressed
    <2>4. view[t][row] # NoRow /\ req[t].items[p] >= view[t][row]
      BY <1>1, <2>2 DEF Running, Plan
    <2>5. p \in products
      BY <2>2, <2>3, <2>4 DEF IInv, Stored
    <2>6. NoRow = ReduceRow(stock[row], req[t].items[p])
      BY <2>3, <2>4 DEF ReduceRow
    <2>7. QED
      BY <1>1, <2>1, <2>2, <2>3, <2>4, <2>5, <2>6, WriteKeeps
  <1>4. QED
    BY <1>2, <1>3

LEMMA InsertKeeps ==
  ASSUME TypeOK, IInv, NEW t \in Tasks, NEW p \in Products, InsertRow(t, p)
  PROVE  TypeOK' /\ IInv'
  <1> DEFINE row == RowOf(t, p)
             value == req[t].items[p]
  <1>1. /\ p \in Todo(t) /\ p \in crit[t] /\ leg[t] = "expand"
        /\ ~LockedByOther(t, row) /\ ~OutOfRange(t, p)
    BY DEF InsertRow, Reaches, Todo
  <1>2. CASE Abort(t, "VIOLATION")
    BY <1>2, AbortKeeps DEF Answers
  <1>3. CASE ~Abort(t, "VIOLATION")
    <2>1. Written(t, p, value) /\ (stock[row] = NoRow \/ row \in writes[t])
          /\ p \in visible[t]
      BY <1>3 DEF InsertRow, Refused
    <2>2. /\ Running(t) /\ row \in Rows /\ DOMAIN new[t] = {}
      BY <1>1, AtRow, Defaults
    <2>3. view[t][row] = NoRow
      BY <1>1, <2>2 DEF Running, Plan
    <2>4. p \in products
      BY <2>1, <2>2 DEF Running, Created
    <2>5. value \in ItemCounts
      BY <1>1 DEF OutOfRange
    <2>6. value = ExpandRow(NoRow, req[t].items[p])
      BY DEF ExpandRow
    <2>7. QED
      BY <1>1, <2>1, <2>3, <2>4, <2>5, <2>6, WriteKeeps
  <1>4. QED
    BY <1>2, <1>3

LEMMA UpdateKeeps ==
  ASSUME TypeOK, IInv, NEW t \in Tasks, NEW p \in Products, UpdateRow(t, p)
  PROVE  TypeOK' /\ IInv'
  <1> DEFINE row == RowOf(t, p)
  <1>1. /\ p \in Todo(t) /\ p \in upd[t]
        /\ ~LockedByOther(t, row) /\ ~OutOfRange(t, p)
    BY DEF UpdateRow, Reaches, Todo
  <1>2. CASE Conflict(t, row)
    BY <1>2, AbortKeeps DEF UpdateRow, Answers
  <1>3. CASE ~Conflict(t, row)
    <2>1. Written(t, p, Target(t, p))
      BY <1>3 DEF UpdateRow
    <2>2. /\ Running(t) /\ row \in Rows /\ leg[t] \in {"reduce", "expand"}
          /\ DOMAIN new[t] = {} /\ row[2] = p
      BY <1>1, AtRow, Defaults DEF RowOf
    <2>3. p \notin crit[t]
      BY <1>1, <2>2 DEF Running, Plan
    <2>4. view[t][row] # NoRow
      BY <1>1, <2>2, <2>3 DEF Running, Plan
    <2>5. row \notin writes[t] => view[t][row] = stock[row]
      BY <1>3, <2>2 DEF Conflict, Running, Progressed
    <2>6. p \in products
      BY <2>2, <2>4, <2>5 DEF IInv, Stored, Running, Progressed, CreatedBy
    <2>7. Target(t, p) \in ItemCounts
      BY <1>1, <2>3 DEF OutOfRange
    <2>8. Target(t, p) = IF leg[t] = "reduce"
                         THEN ReduceRow(view[t][row], req[t].items[p])
                         ELSE ExpandRow(view[t][row], req[t].items[p])
      BY DEF Target
    <2>9. QED
      BY <1>1, <2>1, <2>2, <2>4, <2>5, <2>6, <2>7, <2>8, WriteKeeps
  <1>4. QED
    BY <1>2, <1>3

\* Requests that are refused, connections that break and deadlocks that are
\* found all end in a rollback.
LEMMA RefuseKeeps ==
  ASSUME TypeOK, IInv, NEW t \in Tasks, NEW p \in Products, RefuseValue(t, p)
  PROVE  TypeOK' /\ IInv'
  BY AbortKeeps DEF RefuseValue, Answers

LEMMA LoseKeeps ==
  ASSUME TypeOK, IInv, NEW t \in Tasks, LoseConnection(t) \/ DeadlockDetected(t)
  PROVE  TypeOK' /\ IInv'
  BY AbortKeeps DEF LoseConnection, DeadlockDetected, Answers

\* What a transaction is about to commit is its whole request, applied to the
\* stock that is committed now.
LEMMA CommitEffect ==
  ASSUME TypeOK, IInv, NEW t \in Tasks, AtEntry(t, "commit")
  PROVE  /\ Active(t) /\ Running(t) /\ req[t] \in Requests
         /\ DOMAIN req[t].items \cap DOMAIN new[t] = {}
         /\ \A k \in Rows :
              /\ (IF k \in writes[t] THEN view[t][k] ELSE stock[k])
                   = Effect(req[t], All(t), k, stock[k])
              /\ k \in writes[t] <=> Reduces(req[t], All(t), k) \/ Expands(req[t], All(t), k)
              /\ Reduces(req[t], All(t), k) => stock[k] # NoRow
  <1> DEFINE r == req[t]
             all == All(t)
  <1>1. /\ Active(t) /\ Running(t) /\ r \in Requests /\ pc[t] = "commit"
        /\ Todo(t) = {}
    BY DEF AtEntry, Ready, Active, Entries, IInv, Running, Todo
  <1>2. /\ r.kind = "create" => leg[t] = "expand" /\ r.from \notin WarehouseIds
        /\ r.kind = "move" => leg[t] = "expand" /\ new[t] = NoProducts
        /\ r.kind = "remove" => /\ leg[t] = "reduce" /\ r.to \notin WarehouseIds
                                /\ new[t] = NoProducts
        /\ r.kind \in {"create", "move", "remove"}
    BY <1>1, RequestFields, DataAssumption DEF Running, Flow, Created
  <1>3. DOMAIN r.items \cap DOMAIN new[t] = {}
    BY <1>1 DEF Running, Booked, Invoiced, Created
  <1>4. /\ DOMAIN all = DOMAIN r.items \cup DOMAIN new[t]
        /\ \A p \in DOMAIN r.items : all[p] = r.items[p]
        /\ \A p \in DOMAIN new[t] : all[p] = new[t][p]
    BY <1>3 DEF All, WithNew
  <1>5. ASSUME NEW k \in Rows
        PROVE  /\ Reduces(r, all, k) <=> ReducedBy(t, k)
               /\ Expands(r, all, k) <=> ExpandedBy(t, k) \/ CreatedBy(t, k)
               /\ ExpandedBy(t, k) => ~CreatedBy(t, k)
               /\ CreatedBy(t, k) => ~ReducedBy(t, k) /\ stock[k] = NoRow
               /\ ReducedBy(t, k) \/ ExpandedBy(t, k) => all[k[2]] = r.items[k[2]]
               /\ CreatedBy(t, k) => all[k[2]] = new[t][k[2]]
    <2>1. k[1] \in WarehouseIds
      BY DEF Rows
    <2>2. Reduces(r, all, k) <=> ReducedBy(t, k)
      BY <1>1, <1>2, <1>4, <2>1, Defaults DEF Reduces, ReducedBy
    <2>3. Expands(r, all, k) <=> ExpandedBy(t, k) \/ CreatedBy(t, k)
      BY <1>1, <1>2, <1>4, <2>1, Defaults DEF Expands, ExpandedBy, CreatedBy
    <2>4. CreatedBy(t, k) => stock[k] = NoRow
      BY <1>1 DEF CreatedBy, Running, Created, IInv, Stored
    <2>5. QED
      BY <1>3, <1>4, <2>2, <2>3, <2>4 DEF ReducedBy, ExpandedBy, CreatedBy
  <1>6. ASSUME NEW k \in Rows
        PROVE  (IF k \in writes[t] THEN view[t][k] ELSE stock[k])
                 = Effect(r, all, k, stock[k])
    <2>1. (IF k \in writes[t] THEN view[t][k] ELSE stock[k]) = ValueBy(t, k)
      BY <1>1 DEF Running, Progressed, ValueBy
    <2>2. ValueBy(t, k) = Effect(r, all, k, stock[k])
      BY <1>5 DEF ValueBy, Effect, ExpandRow
    <2>3. QED
      BY <2>1, <2>2
  <1>7. ASSUME NEW k \in Rows
        PROVE  /\ k \in writes[t] <=> Reduces(r, all, k) \/ Expands(r, all, k)
               /\ Reduces(r, all, k) => stock[k] # NoRow
    BY <1>1, <1>5 DEF Running, Progressed
  <1>8. QED
    BY <1>1, <1>3, <1>6, <1>7

\* A request never books more into a row than it adds to the row: an
\* overdrawing reduction takes less from the stock than it books.
LEMMA EffectCoversBooking ==
  ASSUME NEW r, NEW all, NEW k \in Rows, NEW s \in ItemCounts \cup {NoRow},
         k[2] \in DOMAIN all => all[k[2]] \in Int,
         Reduces(r, all, k) => s # NoRow
  PROVE  Amount(s) + Booking(r, all)[k] <= Amount(Effect(r, all, k, s))
  <1> DEFINE c == all[k[2]]
             mid == IF Reduces(r, all, k) THEN ReduceRow(s, c) ELSE s
  <1>1. s \in Int \cup {NoRow} /\ NoRow \notin Int
    BY CountsAreInt
  <1>2. mid \in Int \cup {NoRow}
    BY <1>1 DEF Reduces, ReduceRow
  <1>3. Amount(s) - (IF Reduces(r, all, k) THEN c ELSE 0) <= Amount(mid)
    BY <1>1 DEF Reduces, ReduceRow, Amount
  <1>4. Amount(mid) \in Int /\ Amount(s) \in Int
    BY <1>1, <1>2 DEF Amount
  <1>5. Amount(mid) + (IF Expands(r, all, k) THEN c ELSE 0)
          = Amount(Effect(r, all, k, s))
    BY <1>1, <1>2 DEF Expands, ExpandRow, Effect, Amount
  <1>6. Booking(r, all)[k] = (IF Expands(r, all, k) THEN c ELSE 0)
                             - (IF Reduces(r, all, k) THEN c ELSE 0)
    BY DEF Booking
  <1>7. QED
    <2> HIDE DEF mid
    <2>1. CASE k[2] \in DOMAIN all
      BY <1>3, <1>4, <1>5, <1>6, <2>1
    <2>2. CASE k[2] \notin DOMAIN all
      BY <1>3, <1>4, <1>5, <1>6, <2>2 DEF Reduces, Expands
    <2>3. QED
      BY <2>1, <2>2

\* The commit of one task keeps what the invariant says of another.
LEMMA PublishKeepsOthers ==
  ASSUME TypeOK, IInv, NEW t \in Tasks, NEW answer \in Answers,
         AtEntry(t, "commit"), Publish(t, answer), NEW u \in Tasks, u # t
  PROVE  TaskInv(u)'
  <1>1. /\ Active(t) /\ Running(t)
        /\ DOMAIN new[t] \cap products = {} /\ DOMAIN new[t] \cap DOMAIN new[u] = {}
        /\ writes[t] \cap writes[u] = {}
    BY CommitEffect DEF Running, Created, IInv, Apart
  <1>2. /\ pc'[u] = pc[u] /\ req'[u] = req[u] /\ new'[u] = new[u]
        /\ view'[u] = view[u] /\ visible'[u] = visible[u] /\ writes'[u] = writes[u]
        /\ leg'[u] = leg[u] /\ crit'[u] = crit[u] /\ upd'[u] = upd[u]
        /\ waits'[u] = waits[u] /\ booking'[u] = booking[u] /\ result'[u] = result[u]
        /\ allocated' = allocated
    BY DEF Publish, Finish, Release, TypeOK
  <1>3. /\ stale'[u] = IF Active(u) THEN stale[u] \cup writes[t] ELSE stale[u]
        /\ products' = products \cup DOMAIN new[t]
        /\ \A k \in Rows : k \notin writes[t] => stock'[k] = stock[k]
    BY DEF Publish
  <1>4. CASE ~Active(u)
    BY <1>2, <1>3, <1>4 DEF IInv, TaskInv, AtRest, Active
  <1>5. CASE Active(u)
    <2>1. /\ Running(u) /\ result[u] = "none" /\ Active(u)'
          /\ All(u)' = All(u) /\ Todo(u)' = Todo(u) /\ Invoiced(u)' = Invoiced(u)
      BY <1>2, <1>5 DEF IInv, Active, All, Todo, Invoiced
    <2>2. Flow(u)' /\ Plan(u)'
      BY <1>2, <2>1 DEF Running, Flow, Plan, RowOf
    <2>3. Progressed(u)'
      <3>1. ASSUME NEW k \in Rows
            PROVE  /\ ReducedBy(u, k)' = ReducedBy(u, k)
                   /\ ExpandedBy(u, k)' = ExpandedBy(u, k)
                   /\ CreatedBy(u, k)' = CreatedBy(u, k)
        BY <1>2, <2>1 DEF ReducedBy, ExpandedBy, CreatedBy
      <3>2. ASSUME NEW k \in Rows, k \in writes[u]
            PROVE  stock'[k] = stock[k] /\ ValueBy(u, k)' = ValueBy(u, k)
        BY <1>1, <1>2, <1>3, <3>1, <3>2 DEF ValueBy
      <3>3. QED
        BY <1>2, <1>3, <1>5, <2>1, <3>1, <3>2 DEF Running, Progressed
    <2>4. Booked(u)' /\ Created(u)'
      BY <1>1, <1>2, <1>3, <2>1 DEF Running, Booked, Created
    <2>5. QED
      BY <1>2, <2>1, <2>2, <2>3, <2>4 DEF TaskInv, Running, Active, Entries
  <1>6. QED
    BY <1>4, <1>5

LEMMA PublishKeeps ==
  ASSUME TypeOK, IInv, NEW t \in Tasks, NEW answer \in Answers,
         AtEntry(t, "commit"), Publish(t, answer)
  PROVE  TypeOK' /\ IInv'
  <1> DEFINE r == req[t]
             all == All(t)
  <1>1. /\ Active(t) /\ Running(t) /\ r \in Requests
        /\ Booked(t) /\ Invoiced(t) /\ Created(t)
    BY CommitEffect DEF Running, AtEntry, Invoiced
  <1>2. /\ stock' = [k \in Rows |-> Effect(r, all, k, stock[k])]
        /\ booked' = [k \in Rows |-> booked[k] + Booking(r, all)[k]]
        /\ products' = products \cup DOMAIN new[t]
        /\ allocated' = allocated
    BY <1>1, CommitEffect DEF Publish, Booked
  <1>3. TypeOK'
    <2>1. stock' \in [Rows -> ItemCounts \cup {NoRow}]
      BY DEF Publish, TypeOK
    <2>2. booked' \in [Rows -> Int]
      BY DEF Publish, TypeOK
    <2>3. products' \in SUBSET Products /\ DOMAIN new[t] \subseteq Products
      BY <1>2, NewType DEF TypeOK
    <2>4. stale' \in [Tasks -> SUBSET Rows]
      BY DEF Publish, TypeOK
    <2>5. /\ pc' \in [Tasks -> Entries \cup {"idle", "done"}]
          /\ result' \in [Tasks -> Answers \cup {"none"}]
          /\ req' \in [Tasks -> Requests \cup {NoRequest}]
          /\ new' \in [Tasks -> UNION {[P -> Counts] : P \in SUBSET Products}]
          /\ view' \in [Tasks -> [Rows -> ItemCounts \cup {NoRow}]]
          /\ visible' \in [Tasks -> SUBSET Products]
          /\ writes' \in [Tasks -> SUBSET Rows]
          /\ leg' \in [Tasks -> {"none", "reduce", "expand"}]
          /\ crit' \in [Tasks -> SUBSET Products]
          /\ upd' \in [Tasks -> SUBSET Products]
          /\ waits' \in [Tasks -> Rows \cup {NoRow}]
          /\ booking' \in [Tasks -> [Rows -> Int]]
      BY Defaults DEF Publish, Finish, Release, TypeOK
    <2>6. QED
      BY <1>2, <2>1, <2>2, <2>3, <2>4, <2>5 DEF TypeOK
  <1>4. ASSUME NEW u \in Tasks PROVE TaskInv(u)'
    <2>1. CASE u = t
      <3>1. pc'[t] = "done" /\ AtRest(t)'
        BY DEF Publish, Finish, Release, AtRest, TypeOK
      <3>2. QED
        BY <2>1, <3>1 DEF TaskInv, Active, Entries
    <2>2. CASE u # t
      BY <2>2, PublishKeepsOthers
    <2>3. QED
      BY <2>1, <2>2
  <1>5. Apart'
    BY Defaults DEF IInv, Apart, Publish, Finish, Release, TypeOK
  <1>6. Stored'
    <2>1. products' \subseteq allocated'
      BY <1>1, <1>2 DEF IInv, Stored, Created
    <2>2. ASSUME NEW k \in Rows, stock'[k] # NoRow
          PROVE  k[1] \in Warehouses /\ k[2] \in products'
      <3>1. CASE k \in writes[t]
        <4>1. Reduces(r, all, k) \/ Expands(r, all, k)
          BY <3>1, CommitEffect
        <4>2. k[1] \in {r.from, r.to} /\ k[2] \in DOMAIN r.items \cup DOMAIN new[t]
          BY <4>1 DEF Reduces, Expands, All, WithNew
        <4>3. k[1] # NoWarehouse
          BY DataAssumption DEF Rows
        <4>4. QED
          BY <1>1, <1>2, <4>2, <4>3 DEF Booked
      <3>2. CASE k \notin writes[t]
        BY <1>2, <2>2, <3>2 DEF Publish, IInv, Stored
      <3>3. QED
        BY <3>1, <3>2
    <2>3. ASSUME NEW k \in Rows PROVE booked'[k] <= Amount(stock'[k])
      <3>1. booked[k] <= Amount(stock[k]) /\ booked[k] \in Int
        BY DEF IInv, Stored, TypeOK
      <3>2. k[2] \in DOMAIN all => all[k[2]] \in Int
        BY <1>1, RequestFields, NewType, CountsAreInt DEF All, WithNew, TypeOK
      <3>3. /\ stock[k] \in ItemCounts \cup {NoRow}
            /\ Reduces(r, all, k) => stock[k] # NoRow
        BY CommitEffect DEF TypeOK
      <3>4. Amount(stock[k]) + Booking(r, all)[k] <= Amount(Effect(r, all, k, stock[k]))
        BY <3>2, <3>3, EffectCoversBooking
      <3>5. /\ Amount(stock[k]) \in Int /\ Booking(r, all)[k] \in Int
            /\ Amount(stock'[k]) \in Int
        <4>1. stock'[k] \in ItemCounts \cup {NoRow}
          BY <1>3 DEF TypeOK
        <4>2. Booking(r, all) \in [Rows -> Int]
          BY <1>1, BookingType DEF TypeOK, All
        <4>3. QED
          BY <3>3, <4>1, <4>2, AmountType
      <3>6. booked'[k] = booked[k] + Booking(r, all)[k]
        BY <1>2
      <3>7. Amount(stock[k]) + Booking(r, all)[k] <= Amount(stock'[k])
        <4>1. stock'[k] = Effect(r, all, k, stock[k])
          BY <1>2
        <4>2. QED
          BY <3>4, <4>1
      <3>8. QED
        <4> HIDE DEF r, all
        <4> QED
          BY <3>1, <3>5, <3>6, <3>7
    <2>4. QED
      BY <2>1, <2>2, <2>3 DEF Stored
  <1>7. QED
    BY <1>3, <1>4, <1>5, <1>6 DEF IInv, TaskInv

-----------------------------------------------------------------------------
\* The invoices up to now have left a database that the invariant describes.
LEMMA InitHolds == Init => TypeOK /\ IInv
  <1> SUFFICES ASSUME Init PROVE TypeOK /\ IInv
    OBVIOUS
  <1>1. stock \in [Rows -> ItemCounts \cup {NoRow}] /\ products \subseteq Products
    BY DataAssumption DEF Init
  <1>2. booked \in [Rows -> Int] /\ \A k \in Rows : booked[k] <= Amount(stock[k])
    <2>1. ASSUME NEW k \in Rows PROVE Amount(stock[k]) \in Int
      <3>1. stock[k] \in ItemCounts \cup {NoRow}
        BY <1>1
      <3>2. QED
        BY <3>1, AmountType
    <2>2. booked = [k \in Rows |-> Amount(stock[k])]
      BY DEF Init
    <2>3. QED
      BY <2>1, <2>2
  <1>3. TypeOK
    BY <1>1, <1>2, Defaults DEF Init, TypeOK
  <1>4. Stored
    BY <1>2, DataAssumption DEF Init, Stored
  <1>5. Apart
    BY Defaults DEF Init, Apart
  <1>6. \A t \in Tasks : AtRest(t) /\ pc[t] = "idle" /\ result[t] = "none"
    BY DEF Init, AtRest
  <1>7. QED
    BY <1>3, <1>4, <1>5, <1>6 DEF IInv, Active, Entries

\* Every step of a task keeps the invariant.
LEMMA StepKeeps == TypeOK /\ IInv /\ [Next]_vars => TypeOK' /\ IInv'
  <1> SUFFICES ASSUME TypeOK, IInv, [Next]_vars PROVE TypeOK' /\ IInv'
    OBVIOUS
  <1>1. CASE UNCHANGED vars
    <2>1. TypeOK'
      BY <1>1 DEF TypeOK, vars, dbVars, txVars
    <2>2. \A u \in Tasks : SameTx(u)
      BY <1>1 DEF SameTx, vars, dbVars, txVars
    <2>3. ASSUME NEW u \in Tasks PROVE TaskInv(u)'
      BY <1>1, <2>2, OthersKept DEF IInv, TaskInv, vars, dbVars
    <2>4. Apart' /\ Stored'
      BY <1>1 DEF IInv, Apart, Stored, vars, dbVars, txVars
    <2>5. QED
      BY <2>1, <2>3, <2>4 DEF IInv, TaskInv
  <1>2. ASSUME NEW t \in Tasks, NEW r \in Requests, Execute(t, r)
        PROVE  TypeOK' /\ IInv'
    BY <1>2, ExecuteKeeps
  <1>3. ASSUME NEW t \in Tasks, Progress(t) PROVE TypeOK' /\ IInv'
    <2>1. CASE InvoiceEntry(t)
      BY <2>1, InvoiceKeeps
    <2>2. CASE ReduceEntry(t)
      BY <2>2, ReduceKeeps
    <2>3. CASE ExpandEntry(t)
      BY <2>3, ExpandKeeps
    <2>4. CASE ProductsEntry(t)
      BY <2>4, ProductsKeeps
    <2>5. CASE NewItemsEntry(t)
      BY <2>5, NewItemsKeeps
    <2>6. ASSUME NEW p \in Products, RefuseValue(t, p) PROVE TypeOK' /\ IInv'
      BY <2>6, RefuseKeeps
    <2>7. ASSUME NEW p \in Products, WaitForRow(t, p) PROVE TypeOK' /\ IInv'
      BY <2>7, WaitKeeps
    <2>8. ASSUME NEW p \in Products, DeleteRow(t, p) PROVE TypeOK' /\ IInv'
      BY <2>8, DeleteKeeps
    <2>9. ASSUME NEW p \in Products, InsertRow(t, p) PROVE TypeOK' /\ IInv'
      BY <2>9, InsertKeeps
    <2>10. ASSUME NEW p \in Products, UpdateRow(t, p) PROVE TypeOK' /\ IInv'
      BY <2>10, UpdateKeeps
    <2>11. CASE Commit(t)
      BY <2>11, PublishKeeps DEF Commit, Answers
    <2>12. CASE DeadlockDetected(t)
      BY <2>12, LoseKeeps
    <2>13. QED
      BY <1>3, <2>1, <2>2, <2>3, <2>4, <2>5, <2>6, <2>7, <2>8, <2>9, <2>10,
         <2>11, <2>12 DEF Progress
  <1>4. ASSUME NEW t \in Tasks, Failure(t) PROVE TypeOK' /\ IInv'
    BY <1>4, PublishKeeps, LoseKeeps DEF Failure, CommitInDoubt, Answers
  <1>5. QED
    BY <1>1, <1>2, <1>3, <1>4 DEF Next, AllAnswered

\* Type correctness of the tasks and of the tables they share: no step leaves
\* a count in Warehouse_Item that the column cannot hold.
THEOREM TypeCorrect == Spec => []TypeOK
  <1>1. TypeOK /\ IInv /\ [Next]_vars => (TypeOK /\ IInv)'
    BY StepKeeps
  <1>2. QED
    BY <1>1, InitHolds, PTL DEF Spec

\* What a transaction of products_create, products_move or products_remove has
\* written is at each moment its request so far, applied to the stock that is
\* committed at this moment, although it was computed from an older snapshot.
THEOREM Invariance == Spec => []IInv
  <1>1. TypeOK /\ IInv /\ [Next]_vars => (TypeOK /\ IInv)'
    BY StepKeeps
  <1>2. QED
    BY <1>1, InitHolds, PTL DEF Spec

\* The triggers of Invoice_Item and the entries of ChangeCount agree at least
\* so far that no warehouse holds less than its operations say, whatever the
\* requests ask for.
THEOREM Backed == Spec => []BookedIsBacked
  <1>1. IInv => BookedIsBacked
    BY DEF IInv, Stored, BookedIsBacked, Ledger!BookedIsBacked, Rows,
           Ledger!Rows, Amount, Ledger!Amount
  <1>2. QED
    BY <1>1, Invariance, PTL

\* The insert of the rows of new products (WarehouseItem::InsertsEntry) meets
\* neither a row nor a lock of another task.
THEOREM NoClash == Spec => []NewItemsNeverClash
  <1>1. TypeOK /\ IInv => NewItemsNeverClash
    <2> SUFFICES ASSUME TypeOK, IInv, NEW t \in Tasks, NEW p \in DOMAIN new[t],
                        NEW w \in WarehouseIds
                 PROVE  stock[<<w, p>>] = NoRow /\ ~LockedByOther(t, <<w, p>>)
      BY DEF NewItemsNeverClash
    <2>1. Active(t) /\ Running(t) /\ p \in Products /\ p \notin products
      BY Defaults, NewType DEF IInv, AtRest, Running, Created, TypeOK
    <2>2. <<w, p>> \in Rows
      BY <2>1 DEF Rows
    <2>3. stock[<<w, p>>] = NoRow
      BY <2>1, <2>2 DEF IInv, Stored
    <2>4. ASSUME NEW u \in Tasks \ {t}, <<w, p>> \in writes[u] PROVE FALSE
      <3>1. Active(u) /\ Running(u)
        BY <2>4 DEF IInv, AtRest
      <3>2. CreatedBy(u, <<w, p>>)
        BY <2>1, <2>2, <2>4, <3>1 DEF Running, Progressed
      <3>3. QED
        BY <3>2 DEF CreatedBy, IInv, Apart
    <2>5. QED
      BY <2>3, <2>4 DEF LockedByOther
  <1>2. QED
    BY <1>1, TypeCorrect, Invariance, PTL

-----------------------------------------------------------------------------
\* Both specifications speak of the same data.
LEMMA SameData ==
  /\ Ledger!Rows = Rows /\ Ledger!ItemCounts = ItemCounts
  /\ Ledger!Answers = Answers
  /\ \A s : Ledger!Amount(s) = Amount(s)
  /\ \A items, n : Ledger!WithNew(items, n) = WithNew(items, n)
  /\ \A r, all, k : /\ Ledger!Reduces(r, all, k) = Reduces(r, all, k)
                    /\ Ledger!Expands(r, all, k) = Expands(r, all, k)
  BY DEF Ledger!Rows, Rows, Ledger!ItemCounts, ItemCounts, Ledger!Answers, Answers,
         Ledger!Amount, Amount, Ledger!WithNew, WithNew, Ledger!Reduces, Reduces,
         Ledger!Expands, Expands

LEMMA SameCardinality == \A S : Ledger!Cardinality(S) = Cardinality(S)
  BY DEF Ledger!Cardinality, Cardinality

LEMMA SameEffect ==
  /\ \A r, all, k, s : Ledger!Effect(r, all, k, s) = Effect(r, all, k, s)
  /\ \A r, all : Ledger!Booking(r, all) = Booking(r, all)
  <1>1. \A s, c : /\ Ledger!ReduceRow(s, c) = ReduceRow(s, c)
                  /\ Ledger!ExpandRow(s, c) = ExpandRow(s, c)
    BY DEF Ledger!ReduceRow, ReduceRow, Ledger!ExpandRow, ExpandRow
  <1>2. QED
    BY <1>1, SameData DEF Ledger!Effect, Effect, Ledger!Booking, Booking

\* A rollback is a refusal.
LEMMA AbortRefuses ==
  ASSUME TypeOK, IInv, NEW t \in Tasks, Active(t) \/ pc[t] = "idle",
         NEW answer \in {"VIOLATION", "ERROR"}, Abort(t, answer)
  PROVE  Ledger!Refuse(t)
  BY DEF IInv, Abort, Finish, Release, Ledger!Refuse

\* A commit carries out the request, on the stock that is committed then.
LEMMA PublishApplies ==
  ASSUME TypeOK, IInv, NEW t \in Tasks, AtEntry(t, "commit"),
         NEW answer \in {"SUCCESS", "ERROR"}, Publish(t, answer)
  PROVE  Ledger!Apply(t)
  <1> DEFINE r == req[t]
             n == new[t]
             all == WithNew(r.items, n)
  <1>1. /\ Active(t) /\ Running(t) /\ r \in Requests /\ result[t] = "none"
        /\ Booked(t) /\ Invoiced(t) /\ Created(t) /\ pc[t] = "commit"
        /\ all = All(t)
    BY CommitEffect DEF Running, AtEntry, Invoiced, IInv, All
  <1>2. Ledger!Acceptable(r, n, stock, products)
    <2>1. /\ r.from \in Warehouses \cup {NoWarehouse}
          /\ r.to \in Warehouses \cup {NoWarehouse}
          /\ r.dup = {} /\ DOMAIN all # {} /\ DOMAIN r.items \subseteq products
      BY <1>1 DEF Booked
    <2>2. \A k \in Rows : Reduces(r, all, k) => stock[k] # NoRow
      BY <1>1, CommitEffect
    <2>3. QED
      BY <2>1, <2>2, SameData DEF Ledger!Acceptable
  <1>3. n \in UNION {[N -> Counts] : N \in SUBSET (Products \ products)}
    <2>1. n \in [DOMAIN n -> Counts] /\ DOMAIN n \subseteq Products
      BY NewType DEF TypeOK
    <2>2. DOMAIN n \subseteq Products \ products
      BY <1>1, <2>1 DEF Created
    <2>3. QED
      BY <2>1, <2>2
  <1>4. Cardinality(DOMAIN n) = r.fresh
    <2>1. CASE r.kind = "create"
      BY <1>1, <2>1 DEF Created
    <2>2. CASE r.kind # "create"
      <3>1. DOMAIN n = {} /\ r.fresh = 0
        BY <1>1, <2>2, Defaults, RequestFields DEF Created
      <3>2. QED
        BY <3>1, FS_EmptySet
    <2>3. QED
      BY <2>1, <2>2
  <1>5. stock' = [k \in Rows |-> Effect(r, all, k, stock[k])]
    BY <1>1, CommitEffect DEF Publish
  <1>6. \A k \in Rows : stock'[k] \in ItemCounts \cup {NoRow}
    BY PublishKeeps DEF TypeOK, Answers
  <1>7. /\ products' = products \cup DOMAIN n
        /\ booked' = [k \in Rows |-> booked[k] + Booking(r, all)[k]]
    BY <1>1 DEF Publish, Booked
  <1>8. result' = [result EXCEPT ![t] = answer]
    BY DEF Publish, Finish, Release
  <1>9. QED
    <2> HIDE DEF r, n
    <2>1. /\ Ledger!Acceptable(r, n, stock, products)
          /\ Cardinality(DOMAIN n) = r.fresh
          /\ stock' = [k \in Ledger!Rows |->
                         Ledger!Effect(r, Ledger!WithNew(r.items, n), k, stock[k])]
          /\ \A k \in Ledger!Rows : stock'[k] \in Ledger!ItemCounts \cup {NoRow}
          /\ products' = products \cup DOMAIN n
          /\ booked' = [k \in Ledger!Rows |->
                booked[k] + Ledger!Booking(r, Ledger!WithNew(r.items, n))[k]]
      <3>1. Ledger!WithNew(r.items, n) = all
        BY SameData
      <3>2. Ledger!Booking(r, all) = Booking(r, all)
        BY SameEffect
      <3>3. \A k \in Rows : Ledger!Effect(r, all, k, stock[k]) = Effect(r, all, k, stock[k])
        BY SameEffect
      <3> HIDE DEF all
      <3>4. QED
        BY <1>2, <1>4, <1>5, <1>6, <1>7, <3>1, <3>2, <3>3, SameData
    <2>2. \E a \in {"SUCCESS", "ERROR"} : result' = [result EXCEPT ![t] = a]
      BY <1>8
    <2>3. result[t] = "none" /\ r \in Requests
      BY <1>1
    <2>4. \E q \in Requests :
          \E m \in UNION {[N -> Counts] : N \in SUBSET (Products \ products)} :
            /\ Ledger!Acceptable(q, m, stock, products)
            /\ Cardinality(DOMAIN m) = q.fresh
            /\ stock' = [k \in Ledger!Rows |->
                           Ledger!Effect(q, Ledger!WithNew(q.items, m), k, stock[k])]
            /\ \A k \in Ledger!Rows : stock'[k] \in Ledger!ItemCounts \cup {NoRow}
            /\ products' = products \cup DOMAIN m
            /\ booked' = [k \in Ledger!Rows |->
                  booked[k] + Ledger!Booking(q, Ledger!WithNew(q.items, m))[k]]
      <3> USE <1>3, <2>3
      <3>1. WITNESS r \in Requests
      <3>2. WITNESS n \in UNION {[N -> Counts] : N \in SUBSET (Products \ products)}
      <3>3. QED
        BY <2>1
    <2>5. QED
      BY <2>2, <2>3, <2>4, SameCardinality DEF Ledger!Apply

\* Every step of the tasks is a step of the ledger or changes nothing there.
LEMMA StepRefines ==
  TypeOK /\ IInv /\ [Next]_vars => [Ledger!Next]_(Ledger!vars)
  <1> SUFFICES ASSUME TypeOK, IInv, [Next]_vars
               PROVE  Ledger!Next \/ UNCHANGED dbVars
    BY DEF Ledger!vars, dbVars
  <1>1. CASE UNCHANGED vars
    BY <1>1 DEF vars
  <1>2. ASSUME NEW t \in Tasks, NEW r \in Requests, Execute(t, r)
        PROVE  Ledger!Refuse(t) \/ UNCHANGED dbVars
    BY <1>2, AbortRefuses DEF Execute
  <1>3. ASSUME NEW t \in Tasks, Progress(t)
        PROVE  Ledger!Apply(t) \/ Ledger!Refuse(t) \/ UNCHANGED dbVars
    <2>1. CASE InvoiceEntry(t)
      BY <2>1, AbortRefuses DEF InvoiceEntry, AtEntry, Active, Entries
    <2>2. CASE ReduceEntry(t)
      BY <2>2, AbortRefuses DEF ReduceEntry, AtEntry, Active, Entries
    <2>3. CASE ExpandEntry(t) \/ NewItemsEntry(t)
      BY <2>3 DEF ExpandEntry, NewItemsEntry
    <2>4. CASE ProductsEntry(t)
      BY <2>4, AbortRefuses DEF ProductsEntry, AtEntry, Active, Entries
    <2>5. ASSUME NEW p \in Products,
                 \/ RefuseValue(t, p) \/ WaitForRow(t, p)
                 \/ DeleteRow(t, p) \/ InsertRow(t, p) \/ UpdateRow(t, p)
          PROVE  Ledger!Refuse(t) \/ UNCHANGED dbVars
      <3>1. Active(t)
        <4>1. p \in Todo(t)
          BY <2>5 DEF RefuseValue, WaitForRow, DeleteRow, InsertRow, UpdateRow,
                      Reaches, NextRows, Todo
        <4>2. QED
          BY <4>1 DEF IInv, AtRest, Todo
      <3>2. QED
        BY <2>5, <3>1, AbortRefuses
           DEF RefuseValue, WaitForRow, DeleteRow, InsertRow, UpdateRow, Written
    <2>6. CASE Commit(t)
      BY <2>6, PublishApplies DEF Commit
    <2>7. CASE DeadlockDetected(t)
      <3>1. waits[t] # NoRow
        BY <2>7 DEF DeadlockDetected, WaitingCycle
      <3>2. Active(t)
        BY <3>1 DEF IInv, AtRest
      <3>3. QED
        BY <2>7, <3>2, AbortRefuses DEF DeadlockDetected
    <2>8. QED
      BY <1>3, <2>1, <2>2, <2>3, <2>4, <2>5, <2>6, <2>7 DEF Progress
  <1>4. ASSUME NEW t \in Tasks, Failure(t)
        PROVE  Ledger!Apply(t) \/ Ledger!Refuse(t)
    BY <1>4, PublishApplies, AbortRefuses DEF Failure, CommitInDoubt, LoseConnection
  <1>5. QED
    BY <1>1, <1>2, <1>3, <1>4 DEF Next, AllAnswered, Ledger!Next, vars

\* The tasks products_create, products_move and products_remove are atomic and
\* isolated: what ChangeCount computes from its selects never overwrites what
\* another task has committed in between, and a task that is answered with a
\* failure before its commit leaves no trace.
THEOREM Atomicity == Spec => RequestsAreAtomic
  <1>1. Init => Ledger!Init
    BY SameData DEF Init, Ledger!Init
  <1>2. TypeOK /\ IInv /\ [Next]_vars => [Ledger!Next]_(Ledger!vars)
    BY StepRefines
  <1>3. QED
    BY <1>1, <1>2, TypeCorrect, Invariance, PTL
       DEF Spec, RequestsAreAtomic, Ledger!Spec

-----------------------------------------------------------------------------
\* A request changes what the operations do not explain of a row only where it
\* takes more from the row than there is.
LEMMA EffectDrifts ==
  ASSUME NEW r, NEW all, NEW k \in Rows, NEW s \in ItemCounts \cup {NoRow},
         k[2] \in DOMAIN all => all[k[2]] \in Int,
         Reduces(r, all, k) => s # NoRow,
         Amount(Effect(r, all, k, s)) # Amount(s) + Booking(r, all)[k]
  PROVE  Reduces(r, all, k) /\ all[k[2]] > s
  <1> DEFINE c == all[k[2]]
             mid == IF Reduces(r, all, k) THEN ReduceRow(s, c) ELSE s
             out == IF Reduces(r, all, k) THEN c ELSE 0
             in == IF Expands(r, all, k) THEN c ELSE 0
  <1>1. s \in Int \cup {NoRow} /\ NoRow \notin Int
    BY CountsAreInt
  <1>2. mid \in Int \cup {NoRow} /\ out \in Int /\ in \in Int
    BY <1>1 DEF Reduces, Expands, ReduceRow
  <1>3. Booking(r, all)[k] = in - out
    BY DEF Booking
  <1>4. Amount(Effect(r, all, k, s)) = Amount(mid) + in
    BY <1>1, <1>2 DEF Expands, ExpandRow, Effect, Amount
  <1>5. Amount(mid) \in Int /\ Amount(s) \in Int
    BY <1>1, <1>2 DEF Amount
  <1>6. Amount(mid) # Amount(s) - out
    <2> HIDE DEF mid, in, out
    <2>1. QED
      BY <1>2, <1>3, <1>4, <1>5
  <1>7. QED
    BY <1>1, <1>6 DEF Reduces, ReduceRow, Amount

\* Stock and operations change only when a transaction is committed.
LEMMA OnlyCommits ==
  ASSUME TypeOK, [Next]_vars
  PROVE  \/ UNCHANGED <<stock, booked>>
         \/ \E t \in Tasks : \E answer \in {"SUCCESS", "ERROR"} :
               AtEntry(t, "commit") /\ Publish(t, answer)
  <1>1. CASE UNCHANGED vars
    BY <1>1 DEF vars, dbVars
  <1>2. ASSUME NEW t \in Tasks, NEW r \in Requests, Execute(t, r)
        PROVE  UNCHANGED <<stock, booked>>
    BY <1>2 DEF Execute, Abort, dbVars
  <1>3. ASSUME NEW t \in Tasks, Progress(t), ~Commit(t)
        PROVE  UNCHANGED <<stock, booked>>
    BY <1>3 DEF Progress, InvoiceEntry, ReduceEntry, ExpandEntry, ProductsEntry, NewItemsEntry,
                RefuseValue, WaitForRow, DeleteRow, InsertRow, UpdateRow, DeadlockDetected,
                Written, Abort, dbVars
  <1>4. ASSUME NEW t \in Tasks, LoseConnection(t)
        PROVE  UNCHANGED <<stock, booked>>
    BY <1>4 DEF LoseConnection, Abort
  <1>5. QED
    BY <1>1, <1>2, <1>3, <1>4 DEF Next, AllAnswered, Failure, Commit, CommitInDoubt

\* A warehouse and the operations of its invoices part only where somebody has
\* asked it for more than it holds (ChangeCount, which deletes the row then):
\* no interleaving of requests that ask for what is there makes them differ.
THEOREM DriftExplained == Spec => DriftOnlyByOverdraw
  <1> DEFINE Overdrawn(k) ==
        \E t \in Tasks : /\ pc[t] = "commit" /\ pc'[t] = "done"
                         /\ Reduces(req[t], req[t].items, k)
                         /\ req[t].items[k[2]] > stock[k]
  <1>1. ASSUME TypeOK, IInv, [Next]_vars, NEW k \in Rows, Drift(k)' # Drift(k)
        PROVE  Overdrawn(k)
    <2>1. PICK t \in Tasks, answer \in {"SUCCESS", "ERROR"} :
            AtEntry(t, "commit") /\ Publish(t, answer)
      BY <1>1, OnlyCommits DEF Drift
    <2> DEFINE r == req[t]
               all == All(t)
               s == stock[k]
    <2>2. /\ Active(t) /\ Running(t) /\ r \in Requests /\ pc[t] = "commit"
          /\ DOMAIN r.items \cap DOMAIN new[t] = {}
          /\ (IF k \in writes[t] THEN view[t][k] ELSE stock[k]) = Effect(r, all, k, s)
          /\ Reduces(r, all, k) => s # NoRow
      BY <1>1, <2>1, CommitEffect DEF AtEntry
    <2>3. stock'[k] = Effect(r, all, k, s) /\ booked'[k] = booked[k] + Booking(r, all)[k]
      BY <2>1, <2>2 DEF Publish, Running, Booked, Invoiced
    <2>4. s \in ItemCounts \cup {NoRow} /\ booked[k] \in Int
      BY <1>1 DEF TypeOK
    <2>5. stock'[k] \in ItemCounts \cup {NoRow}
      BY <1>1, <2>1, PublishKeeps DEF TypeOK, Answers
    <2>6. k[2] \in DOMAIN all => all[k[2]] \in Int
      BY <1>1, <2>2, RequestFields, NewType, CountsAreInt DEF All, WithNew, TypeOK
    <2>7. Amount(stock'[k]) # Amount(s) + Booking(r, all)[k]
      <3>1. Amount(s) \in Int /\ Amount(stock'[k]) \in Int
        BY <2>4, <2>5, AmountType
      <3>2. Booking(r, all)[k] \in Int
        BY <2>6 DEF Booking, Expands, Reduces
      <3>3. Amount(stock'[k]) - booked'[k] # Amount(s) - booked[k]
        BY <1>1 DEF Drift, Amount
      <3> HIDE DEF s, all, r
      <3>4. QED
        BY <2>3, <2>4, <3>1, <3>2, <3>3
    <2>8. Reduces(r, all, k) /\ all[k[2]] > s
      <3> HIDE DEF s, all, r
      <3>1. QED
        BY <2>2, <2>3, <2>4, <2>6, <2>7, EffectDrifts
    <2>9. DOMAIN new[t] = {}
      <3>1. r.kind # "create"
        BY <2>2, <2>8, RequestFields, DataAssumption DEF Reduces, Rows
      <3>2. QED
        BY <2>2, <3>1, Defaults DEF Running, Created
    <2>10. Reduces(r, r.items, k) /\ r.items[k[2]] > s
      BY <2>8, <2>9 DEF Reduces, All, WithNew
    <2>11. pc'[t] = "done"
      BY <1>1, <2>1 DEF Publish, Finish, Release, TypeOK
    <2>12. QED
      BY <2>2, <2>10, <2>11
  <1>2. TypeOK /\ IInv /\ [Next]_vars =>
          [\A k \in Rows : Drift(k)' # Drift(k) => Overdrawn(k)]_vars
    <2> HIDE DEF Overdrawn
    <2>1. QED
      BY <1>1
  <1>3. QED
    BY <1>2, TypeCorrect, Invariance, PTL DEF Spec, DriftOnlyByOverdraw
=============================================================================
