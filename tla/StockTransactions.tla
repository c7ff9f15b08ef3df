------------------------- MODULE StockTransactions -------------------------
(***************************************************************************)
(* The tasks products_create, products_move and products_remove, run by    *)
(* concurrent workers as transactions of PostgreSQL at the isolation level *)
(* REPEATABLE READ (the default of IAccessor::CreateTransaction).          *)
(*                                                                         *)
(* A task executes a list of entries: it inserts an invoice and changes    *)
(* the rows of Warehouse_Item by ChangeCount, which first selects the      *)
(* counts of all products and then deletes, inserts and updates rows.  The *)
(* selects read the snapshot of the transaction, so that all selects of    *)
(* one ChangeCount are one step here.  Each row written is a step of its   *)
(* own, since it may wait for the lock of another transaction.             *)
(***************************************************************************)
EXTENDS StockData

CONSTANT
  MayFail         (* whether connections to the database can break         *)

ASSUME FailureAssumption == MayFail \in BOOLEAN

VARIABLES
  stock,      (* committed Warehouse_Item: the count of a row, or NoRow    *)
  products,   (* committed Product: the ids of its rows                    *)
  booked,     (* committed Operation, summed by warehouse and product      *)
  result,     (* the answer of each task                                   *)
  pc,         (* the entry that the task executes next                     *)
  req,        (* the request the task executes                             *)
  new,        (* the products the task created: id -> count                *)
  view,       (* Warehouse_Item as the transaction sees it                 *)
  visible,    (* the ids of Product that the transaction sees              *)
  stale,      (* rows that others committed since the snapshot was taken   *)
  writes,     (* rows the transaction wrote; it holds their locks          *)
  leg,        (* which ChangeCount is running: "reduce" or "expand"        *)
  crit,       (* products whose row is still to be deleted or inserted     *)
  upd,        (* products whose row is still to be updated                 *)
  waits,      (* the row whose lock the transaction waits for, or NoRow    *)
  booking,    (* the rows the transaction adds to Operation, summed        *)
  allocated   (* the ids drawn from Product_product_id_seq                 *)

dbVars == <<stock, products, booked, result>>
txVars == <<pc, req, new, view, visible, stale, writes, leg, crit, upd, waits,
            booking>>
vars == <<dbVars, txVars, allocated>>

Entries == {"invoice", "reduce", "expand", "products", "newItems", "commit"}

NoRequest == [kind |-> "none"]
Nothing == [k \in Rows |-> 0]
Unseen == [k \in Rows |-> NoRow]
NoProducts == [p \in {} |-> 0]

\* The variants named Wrong... are never part of the specification.  Each is a
\* plausible slip in the definition that follows it, and shows that the
\* properties below would notice.
WrongFollowing(kind, entry) ==
  CASE kind = "move" /\ entry = "invoice" -> "expand"
    [] kind = "move" /\ entry = "expand"  -> "reduce"
    [] kind = "remove" /\ entry = "invoice" -> "reduce"
    [] kind = "create" /\ entry = "expand"   -> "products"
    [] kind = "create" /\ entry = "products" -> "invoice"
    [] kind = "create" /\ entry = "invoice"  -> "newItems"
    [] OTHER -> "commit"

\* The entry that SetNext has put behind an entry.
Following(kind, entry) ==
  CASE kind = "create" /\ entry = "expand"   -> "products"
    [] kind = "create" /\ entry = "products" -> "invoice"
    [] kind = "create" /\ entry = "invoice"  -> "newItems"
    [] kind = "move"   /\ entry = "invoice"  -> "reduce"
    [] kind = "move"   /\ entry = "reduce"   -> "expand"
    [] kind = "remove" /\ entry = "invoice"  -> "reduce"
    [] OTHER -> "commit"

Active(t) == pc[t] \in Entries

\* The row operations of the last ChangeCount are done.
Ready(t) == crit[t] = {} /\ upd[t] = {}

AtEntry(t, entry) == pc[t] = entry /\ Ready(t)

Advance(t) == pc' = [pc EXCEPT ![t] = Following(req[t].kind, pc[t])]

\* The row of product p in the warehouse that the running ChangeCount is about.
RowOf(t, p) ==
  <<IF leg[t] = "reduce" THEN req[t].from ELSE req[t].to, p>>

All(t) == WithNew(req[t].items, new[t])

-----------------------------------------------------------------------------
\* The database starts as the invoices so far have left it.
Init ==
  /\ stock \in InitialStocks
  /\ products = InitialProducts
  /\ booked = [k \in Rows |-> Amount(stock[k])]
  /\ result = [t \in Tasks |-> "none"]
  /\ pc = [t \in Tasks |-> "idle"]
  /\ req = [t \in Tasks |-> NoRequest]
  /\ new = [t \in Tasks |-> NoProducts]
  /\ view = [t \in Tasks |-> Unseen]
  /\ visible = [t \in Tasks |-> {}]
  /\ stale = [t \in Tasks |-> {}]
  /\ writes = [t \in Tasks |-> {}]
  /\ leg = [t \in Tasks |-> "none"]
  /\ crit = [t \in Tasks |-> {}]
  /\ upd = [t \in Tasks |-> {}]
  /\ waits = [t \in Tasks |-> NoRow]
  /\ booking = [t \in Tasks |-> Nothing]
  /\ allocated = InitialProducts

\* Mistaken: the transaction outlives its task.
WrongRelease(t) == UNCHANGED writes

\* The transaction ends with its owner, whatever has become of it, and leaves
\* no row locked.
Release(t) == writes' = [writes EXCEPT ![t] = {}]

\* The transaction is over, its locks are released and the task is answered.
Finish(t, answer) ==
  /\ pc' = [pc EXCEPT ![t] = "done"]
  /\ result' = [result EXCEPT ![t] = answer]
  /\ req' = [req EXCEPT ![t] = NoRequest]
  /\ new' = [new EXCEPT ![t] = NoProducts]
  /\ view' = [view EXCEPT ![t] = Unseen]
  /\ visible' = [visible EXCEPT ![t] = {}]
  /\ Release(t)
  /\ leg' = [leg EXCEPT ![t] = "none"]
  /\ crit' = [crit EXCEPT ![t] = {}]
  /\ upd' = [upd EXCEPT ![t] = {}]
  /\ waits' = [waits EXCEPT ![t] = NoRow]
  /\ booking' = [booking EXCEPT ![t] = Nothing]

\* An exception leaves the entries: the transaction is rolled back.
Abort(t, answer) ==
  /\ Finish(t, answer)
  /\ stale' = [stale EXCEPT ![t] = {}]
  /\ UNCHANGED <<stock, products, booked, allocated>>

\* The first statement of the transaction takes its snapshot.  Building the
\* entries of a create without new products throws before any statement.
Execute(t, r) ==
  /\ pc[t] = "idle"
  /\ IF r.kind = "create" /\ r.fresh = 0
     THEN Abort(t, "ERROR")
     ELSE /\ pc' = [pc EXCEPT ![t] = IF r.kind = "create" THEN "expand"
                                                         ELSE "invoice"]
          /\ req' = [req EXCEPT ![t] = r]
          /\ view' = [view EXCEPT ![t] = stock]
          /\ visible' = [visible EXCEPT ![t] = products]
          /\ UNCHANGED <<dbVars, new, stale, writes, leg, crit, upd, waits,
                         booking, allocated>>

-----------------------------------------------------------------------------
\* Insert the row of Invoice and the rows of Invoice_Item, whose triggers
\* book the operations.
InvoiceEntry(t) ==
  LET all == All(t)
  IN  /\ AtEntry(t, "invoice")
      /\ IF {req[t].from, req[t].to} \subseteq Warehouses \cup {NoWarehouse}
         THEN IF \/ DOMAIN all = {}
                 \/ \E p \in DOMAIN all : all[p] \notin ItemCounts
              THEN Abort(t, "ERROR")
              ELSE IF req[t].dup # {} \/ ~(DOMAIN all \subseteq visible[t])
              THEN Abort(t, "VIOLATION")
              ELSE /\ booking' = [booking EXCEPT ![t] = Booking(req[t], all)]
                   /\ Advance(t)
                   /\ UNCHANGED <<dbVars, req, new, view, visible, stale,
                                  writes, leg, crit, upd, waits, allocated>>
         ELSE Abort(t, "VIOLATION")

\* The selects of a reducing ChangeCount: which rows go and which shrink.
ReduceEntry(t) ==
  LET items == req[t].items
      seen(p) == view[t][<<req[t].from, p>>]
  IN  /\ AtEntry(t, "reduce")
      /\ IF \E p \in DOMAIN items : seen(p) = NoRow
         THEN Abort(t, "VIOLATION")
         ELSE /\ crit' = [crit EXCEPT ![t] =
                            {p \in DOMAIN items : items[p] >= seen(p)}]
              /\ upd' = [upd EXCEPT ![t] =
                            {p \in DOMAIN items : ~(items[p] >= seen(p))}]
              /\ leg' = [leg EXCEPT ![t] = "reduce"]
              /\ Advance(t)
              /\ UNCHANGED <<dbVars, req, new, view, visible, stale, writes,
                             waits, booking, allocated>>

\* The selects of an expanding ChangeCount: which rows appear and which grow.
ExpandEntry(t) ==
  LET items == req[t].items
      seen(p) == view[t][<<req[t].to, p>>]
  IN  /\ AtEntry(t, "expand")
      /\ crit' = [crit EXCEPT ![t] = {p \in DOMAIN items : seen(p) = NoRow}]
      /\ upd' = [upd EXCEPT ![t] = {p \in DOMAIN items : seen(p) # NoRow}]
      /\ leg' = [leg EXCEPT ![t] = "expand"]
      /\ Advance(t)
      /\ UNCHANGED <<dbVars, req, new, view, visible, stale, writes, waits,
                     booking, allocated>>

\* The ids that the sequence of Product has not given yet.
FreeIds == Products \ allocated

\* Insert the new products, which the sequence of Product numbers until it
\* reaches its maximum.
ProductsEntry(t) ==
  /\ AtEntry(t, "products")
  /\ IF Cardinality(FreeIds) < req[t].fresh
     THEN Abort(t, "ERROR")
     ELSE /\ \E ids \in SUBSET FreeIds :
               /\ Cardinality(ids) = req[t].fresh
               /\ \E n \in [ids -> Counts] : new' = [new EXCEPT ![t] = n]
               /\ allocated' = allocated \cup ids
               /\ visible' = [visible EXCEPT ![t] = @ \cup ids]
          /\ Advance(t)
          /\ UNCHANGED <<dbVars, req, view, stale, writes, leg, crit, upd,
                         waits, booking>>

\* Insert the rows of the new products, which nobody else can know of.
NewItemsEntry(t) ==
  LET rows == {<<req[t].to, p>> : p \in DOMAIN new[t]}
  IN  /\ AtEntry(t, "newItems")
      /\ view' = [view EXCEPT ![t] =
                    [k \in Rows |-> IF k \in rows THEN new[t][k[2]] ELSE @[k]]]
      /\ writes' = [writes EXCEPT ![t] = @ \cup rows]
      /\ Advance(t)
      /\ UNCHANGED <<dbVars, req, new, visible, stale, leg, crit, upd, waits,
                     booking, allocated>>

-----------------------------------------------------------------------------
\* Deletes and inserts come first, then the updates one by one.
NextRows(t) == IF crit[t] # {} THEN crit[t] ELSE upd[t]

\* The value that the update of a row sets.
Target(t, p) ==
  LET s == view[t][RowOf(t, p)]
  IN  IF leg[t] = "reduce" THEN ReduceRow(s, req[t].items[p])
                           ELSE ExpandRow(s, req[t].items[p])

\* A count that does not fit its column is refused with the statement, an
\* insert of several rows as a whole.
OutOfRange(t, p) ==
  IF p \in crit[t]
  THEN leg[t] = "expand" /\ \E q \in crit[t] : req[t].items[q] \notin ItemCounts
  ELSE Target(t, p) \notin ItemCounts

LockedByOther(t, k) == \E u \in Tasks \ {t} : k \in writes[u]

\* The row was committed by another transaction after the snapshot.
Conflict(t, k) == k \in stale[t] \ writes[t]

Written(t, p, value) ==
  /\ view' = [view EXCEPT ![t][RowOf(t, p)] = value]
  /\ writes' = [writes EXCEPT ![t] = @ \cup {RowOf(t, p)}]
  /\ crit' = [crit EXCEPT ![t] = @ \ {p}]
  /\ upd' = [upd EXCEPT ![t] = @ \ {p}]
  /\ waits' = [waits EXCEPT ![t] = NoRow]
  /\ UNCHANGED <<dbVars, pc, req, new, visible, stale, leg, booking, allocated>>

\* The statement reaches a row that it may write now.
Reaches(t, p) ==
  /\ p \in NextRows(t)
  /\ ~OutOfRange(t, p)
  /\ waits[t] \in {NoRow, RowOf(t, p)}
  /\ ~LockedByOther(t, RowOf(t, p))

RefuseValue(t, p) ==
  /\ p \in NextRows(t)
  /\ waits[t] = NoRow
  /\ OutOfRange(t, p)
  /\ Abort(t, "ERROR")

WaitForRow(t, p) ==
  /\ p \in NextRows(t)
  /\ ~OutOfRange(t, p)
  /\ waits[t] = NoRow
  /\ LockedByOther(t, RowOf(t, p))
  /\ waits' = [waits EXCEPT ![t] = RowOf(t, p)]
  /\ UNCHANGED <<dbVars, pc, req, new, view, visible, stale, writes, leg, crit,
                 upd, booking, allocated>>

\* A serialization failure is not retried: ReInitialize begins a transaction
\* while the failed one is alive, which throws out of Transaction::Execute.
DeleteRow(t, p) ==
  /\ Reaches(t, p)
  /\ p \in crit[t]
  /\ leg[t] = "reduce"
  /\ IF Conflict(t, RowOf(t, p))
     THEN Abort(t, "ERROR")
     ELSE Written(t, p, NoRow)

\* An insert meets the primary key and the foreign keys, not the snapshot.
WrongRefused(t, p) ==
  LET k == RowOf(t, p)
  IN  \/ stock[k] # NoRow /\ k \notin writes[t]
      \/ k[1] \notin Warehouses
      \/ p \in req[t].dup
Refused(t, p) ==
  LET k == RowOf(t, p)
  IN  \/ stock[k] # NoRow /\ k \notin writes[t]
      \/ p \notin visible[t]
      \/ k[1] \notin Warehouses
      \/ p \in req[t].dup

InsertRow(t, p) ==
  /\ Reaches(t, p)
  /\ p \in crit[t]
  /\ leg[t] = "expand"
  /\ IF Refused(t, p) THEN Abort(t, "VIOLATION")
                      ELSE Written(t, p, req[t].items[p])

UpdateRow(t, p) ==
  /\ Reaches(t, p)
  /\ p \in upd[t]
  /\ IF Conflict(t, RowOf(t, p))
     THEN Abort(t, "ERROR")
     ELSE Written(t, p, Target(t, p))

-----------------------------------------------------------------------------
\* The committed writes replace the rows, and every other transaction that
\* has a snapshot will find them changed.
Publish(t, answer) ==
  /\ stock' = [k \in Rows |-> IF k \in writes[t] THEN view[t][k] ELSE stock[k]]
  /\ products' = products \cup DOMAIN new[t]
  /\ booked' = [k \in Rows |-> booked[k] + booking[t][k]]
  /\ stale' = [u \in Tasks |-> IF u # t /\ Active(u)
                               THEN stale[u] \cup writes[t]
                               ELSE IF u = t THEN {} ELSE stale[u]]
  /\ Finish(t, answer)
  /\ UNCHANGED allocated

Commit(t) ==
  /\ AtEntry(t, "commit")
  /\ Publish(t, "SUCCESS")

\* The commit takes effect, but the connection breaks before the task learns
\* of it (pqxx::in_doubt_error).
CommitInDoubt(t) ==
  /\ MayFail
  /\ AtEntry(t, "commit")
  /\ Publish(t, "ERROR")

\* The connection breaks, or none is to be had, before the commit.
LoseConnection(t) ==
  /\ MayFail
  /\ Active(t)
  /\ Abort(t, "ERROR")

\* Every member of S waits for a row that another member has written.
WaitingCycle(S) ==
  /\ \A t \in S : waits[t] # NoRow /\ \E u \in S \ {t} : waits[t] \in writes[u]
  /\ \A t \in S : \E u \in S \ {t} : waits[u] \in writes[t]

\* PostgreSQL finds a deadlock and cancels one of the transactions.
DeadlockDetected(t) ==
  /\ \E S \in SUBSET Tasks : t \in S /\ WaitingCycle(S)
  /\ Abort(t, "ERROR")

\* What a task does once it runs.
Progress(t) ==
  \/ InvoiceEntry(t)
  \/ ReduceEntry(t)
  \/ ExpandEntry(t)
  \/ ProductsEntry(t)
  \/ NewItemsEntry(t)
  \/ \E p \in Products :
       \/ RefuseValue(t, p)
       \/ WaitForRow(t, p)
       \/ DeleteRow(t, p)
       \/ InsertRow(t, p)
       \/ UpdateRow(t, p)
  \/ Commit(t)
  \/ DeadlockDetected(t)

Failure(t) == CommitInDoubt(t) \/ LoseConnection(t)

AllAnswered == (\A t \in Tasks : pc[t] = "done") /\ UNCHANGED vars

Next ==
  \/ \E t \in Tasks :
       \/ \E r \in Requests : Execute(t, r)
       \/ Progress(t)
       \/ Failure(t)
  \/ AllAnswered

Spec == Init /\ [][Next]_vars

\* A worker goes on with its task and the database answers every statement:
\* it grants a lock when it is free and looks for deadlocks among the waiting.
\* Nothing makes a client send a request.
FairSpec == Spec /\ \A t \in Tasks : WF_vars(Progress(t))

-----------------------------------------------------------------------------
TypeOK ==
  /\ stock \in [Rows -> ItemCounts \cup {NoRow}]
  /\ products \in SUBSET Products
  /\ booked \in [Rows -> Int]
  /\ result \in [Tasks -> Answers \cup {"none"}]
  /\ pc \in [Tasks -> Entries \cup {"idle", "done"}]
  /\ req \in [Tasks -> Requests \cup {NoRequest}]
  /\ new \in [Tasks -> UNION {[P -> Counts] : P \in SUBSET Products}]
  /\ view \in [Tasks -> [Rows -> ItemCounts \cup {NoRow}]]
  /\ visible \in [Tasks -> SUBSET Products]
  /\ stale \in [Tasks -> SUBSET Rows]
  /\ writes \in [Tasks -> SUBSET Rows]
  /\ leg \in [Tasks -> {"none", "reduce", "expand"}]
  /\ crit \in [Tasks -> SUBSET Products]
  /\ upd \in [Tasks -> SUBSET Products]
  /\ waits \in [Tasks -> Rows \cup {NoRow}]
  /\ booking \in [Tasks -> [Rows -> Int]]
  /\ allocated \in SUBSET Products

\* Concurrent tasks have the effect of executing the requests one at a time
\* on the committed stock, in the order of their commits: no statement that
\* was computed from a snapshot overwrites what another task committed.
Ledger == INSTANCE StockLedger
RequestsAreAtomic == Ledger!Spec

\* The operations never book more goods into a warehouse than it holds.
BookedIsBacked == Ledger!BookedIsBacked

\* A row of a product that a task has just created belongs to this task:
\* newItems needs no lock and cannot meet a row of somebody else.
NewItemsNeverClash ==
  \A t \in Tasks : \A p \in DOMAIN new[t], w \in WarehouseIds :
    /\ stock[<<w, p>>] = NoRow
    /\ ~LockedByOther(t, <<w, p>>)

\* What the operations do not explain of a row's count.
Drift(k) == Amount(stock[k]) - booked[k]

\* A row departs from the operations only when a task that asked its
\* warehouse for more than the stock is committed.
DriftOnlyByOverdraw ==
  [][\A k \in Rows : Drift(k)' # Drift(k) =>
       \E t \in Tasks : /\ pc[t] = "commit" /\ pc'[t] = "done"
                        /\ Reduces(req[t], req[t].items, k)
                        /\ req[t].items[k[2]] > stock[k]]_vars

\* Every task that runs is answered, whatever locks it has to wait for.
EveryTaskAnswered == \A t \in Tasks : Active(t) ~> pc[t] = "done"
=============================================================================
