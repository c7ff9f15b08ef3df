------------------------------ MODULE Browsing ------------------------------
(***************************************************************************)
(* A person looks at data with the web client while others book.  The      *)
(* client loads a list piece by piece: the screen of a product appends the *)
(* next operations to those it shows (Product.js), the screen of a         *)
(* warehouse asks how many products there are and turns pages              *)
(* (Warehouse.js; WarehouseList.js does the same without a filter).        *)
(* Every piece is a request of its own, which a reading task answers from  *)
(* a snapshot of its own (Reading).  Requests and answers overtake one     *)
(* another, tasks fail, and a number drawn early may be committed late.    *)
(***************************************************************************)
EXTENDS Reading

CONSTANTS Product, Warehouse,  \* currentProduct, currentWarehouse
          Batch, PageSize,     \* operationsBatchSize, pagesize
          Tables,              \* the database at the beginning
          Bookings,            \* what others book: [product, warehouse, brings]
          MaxNumber,           \* bound: numbers drawn for operations
          MaxFlight, MaxSent   \* bounds: requests in flight, requests in all

\* The primary keys of the tables (initialize_tables.h).
PrimaryKey ==
  [Invoice |-> {"invoice_id"}, Invoice_Item |-> {"invoice_id", "product_id"},
   Operation |-> {"operation_id"}, Product |-> {"product_id"}, Report |-> {"report_id"},
   User |-> {"user_id"}, Warehouse |-> {"warehouse_id"},
   Warehouse_Item |-> {"warehouse_id", "product_id"}]

Keyed(rows, key) == \A x, y \in rows : (\A k \in key : x[k] = y[k]) => x = y

\* The rows of d are what the database can hold.
WellKept(d) ==
  /\ d = [t \in DOMAIN Schema |-> d[t]]
  /\ \A t \in DOMAIN Schema : IsFiniteSet(d[t]) /\ Keyed(d[t], PrimaryKey[t])

ASSUME BrowsingAssumption ==
  /\ {Batch, PageSize, MaxFlight, MaxSent} \subseteq Nat \ {0}
  /\ Batch < Half /\ PageSize < Half

\* The sequences have drawn as many numbers as there are operations.
ASSUME TablesAssumption ==
  /\ WellKept(Tables)
  /\ \A o \in Tables.Operation : o.operation_id \in 1 .. Cardinality(Tables.Operation)
  /\ \A v \in Tables.Invoice : v.invoice_id \in 1 .. Cardinality(Tables.Operation)
  /\ \A i \in Tables.Invoice_Item : \E v \in Tables.Invoice : v.invoice_id = i.invoice_id
  /\ \A i \in Tables.Warehouse_Item :
       i = [warehouse_id |-> i.warehouse_id, product_id |-> i.product_id, count |-> i.count]

VARIABLES db,       \* the committed rows
          drawn,    \* the last number of an operation and its invoice
          pending,  \* transactions that have drawn a number and not committed
          screen,   \* "product", "warehouse", or "login" when sent away
          calls,    \* the requests in flight
          sent,     \* how many have been sent
          shown,    \* state.operations or state.products
          noMore,   \* state.noMoreOperations
          page, maxPage,       \* state.currentPage, state.maxPage
          shownBy, shownPage,  \* the load whose rows are shown, and its page (history)
          ended,      \* what was committed when the load that ended the list was sent (history)
          late,       \* numbers committed after bigger ones had been read (history)
          overlapped, \* two loads of one list were in flight at a time (history)
          misread,    \* a failure was received as NOT_FOUND (history)
          taken       \* a product has left the warehouse since its size was read (history)

tables == <<db, drawn, pending>>
list == <<shown, noMore, ended>>
pages == <<page, maxPage, shownBy, shownPage>>
history == <<late, overlapped, misread, taken>>
vars == <<tables, screen, calls, sent, list, pages, history>>

Unanswered == [code |-> "none"]

Equal(key, value) == [key |-> key, type |-> "=", kind |-> "number", value |-> value]
Request(limit, offset, filters) == [limit |-> limit, offset |-> offset, filters |-> filters]

\* The n-th request, by a client that knows of what is known (history).
Call(n, task, p, r, known) ==
  [n |-> n, task |-> task, page |-> p, request |-> r, known |-> known, fault |-> "none",
   answer |-> Unanswered]

Operations == {o \in db.Operation : o.product_id = Product}
Numbers == {o.operation_id : o \in Operations}

\* What is asked for is neither null nor left out.
ASSUME AskedAssumption ==
  /\ Missing \notin Nat
  /\ Product # Null /\ Missing # {Equal("product_id", Product)}
  /\ \A w \in {Warehouse} \cup {v.warehouse_id : v \in Tables.Warehouse} :
       w # Null /\ Missing # {Equal("warehouse_id", w)}

\* The numbers that some load has read.
Answered == {c \in calls : c.answer # Unanswered}
Read == {shown[i].operation_id : i \in DOMAIN shown} \cup
        UNION {{c.answer.rows[i].operation_id : i \in DOMAIN c.answer.rows} : c \in Answered}

Init ==
  /\ db = Tables /\ pending = {}
  /\ drawn = Cardinality(Tables.Operation)
  /\ \/ screen = "product" /\ calls = {} /\ sent = 0
     \/ /\ screen = "warehouse" /\ sent = 1
        /\ calls = {Call(1, "size", 0, Request(0, 0, Missing), {})}
  /\ shown = <<>> /\ noMore = FALSE
  /\ page = 0 /\ maxPage = 0 /\ shownBy = 0 /\ shownPage = 0
  /\ ended = {} /\ late = {}
  /\ overlapped = FALSE /\ misread = FALSE /\ taken = FALSE

-----------------------------------------------------------------------------
\* Another task books: the sequence gives it a number ...
Draw(b) ==
  /\ drawn < MaxNumber /\ drawn' = drawn + 1
  /\ pending' = pending \cup {[number |-> drawn + 1, booking |-> b]}
  /\ UNCHANGED <<db, screen, calls, sent, list, pages, history>>

\* ... and it commits the invoice, its item, the operation that the trigger
\* adds, and the change of the warehouse.
Commit(t) ==
  LET b == t.booking
      stock == {i \in db.Warehouse_Item : i.warehouse_id = b.warehouse /\ i.product_id = b.product}
  IN  /\ t \in pending /\ pending' = pending \ {t}
      /\ db' = [db EXCEPT
           !.Invoice = @ \cup {[invoice_id |-> t.number]},
           !.Invoice_Item = @ \cup {[invoice_id |-> t.number, product_id |-> b.product, count |-> 1]},
           !.Operation = @ \cup {[operation_id |-> t.number, product_id |-> b.product,
                                  warehouse_id |-> b.warehouse]},
           !.Warehouse_Item =
              IF ~b.brings THEN @ \ stock
              ELSE IF stock # {} THEN @
              ELSE @ \cup {[warehouse_id |-> b.warehouse, product_id |-> b.product, count |-> 1]}]
      /\ late' = IF screen = "product" /\ b.product = Product /\ \E r \in Read : r > t.number
                 THEN late \cup {t.number} ELSE late
      /\ taken' = (taken \/ (~b.brings /\ b.warehouse = Warehouse /\ stock # {}))
      /\ UNCHANGED <<drawn, screen, calls, sent, list, pages, overlapped, misread>>

-----------------------------------------------------------------------------
Send(task, p, r) ==
  /\ Cardinality(calls) < MaxFlight /\ sent < MaxSent
  /\ sent' = sent + 1
  /\ calls' = calls \cup {Call(sent + 1, task, p, r, Numbers)}

\* loadNextOperations: from where the list ends now.
LoadNext ==
  /\ screen = "product" /\ ~noMore
  /\ Send("operations", 0, Request(Batch, Len(shown), {Equal("product_id", Product)}))
  /\ overlapped' = (overlapped \/ calls # {})
  /\ UNCHANGED <<tables, screen, list, pages, late, misread, taken>>

\* loadProducts, of the page p.
ProductsOf(p) == Request(PageSize, p * PageSize, {Equal("warehouse_id", Warehouse)})

\* Mistaken: the page is loaded before the state has it.
WrongSwitchPage(to) ==
  /\ screen = "warehouse" /\ to \in {page - 1, page + 1} /\ 0 <= to /\ to <= maxPage
  /\ page' = to /\ Send("products", page, ProductsOf(page))
  /\ UNCHANGED <<tables, screen, list, maxPage, shownBy, shownPage, history>>

\* switchPage, within what the size has said.
SwitchPage(to) ==
  /\ screen = "warehouse" /\ to \in {page - 1, page + 1} /\ 0 <= to /\ to <= maxPage
  /\ page' = to /\ Send("products", to, ProductsOf(to))
  /\ UNCHANGED <<tables, screen, list, maxPage, shownBy, shownPage, history>>

\* The task of a request reads its snapshot and answers.
Answers(c, fault) ==
  CASE c.task = "operations" -> GetOperationList(db, c.request, fault)
    [] c.task = "products" -> GetProductList(db, c.request, fault)
    [] c.task = "size" -> {GetProductSizeByWarehouse(db, Warehouse, fault)}

Answering(c, fault, answer) ==
  calls' = (calls \ {c}) \cup {[c EXCEPT !.answer = answer, !.fault = fault]}

Serve(c, fault) ==
  /\ c.answer = Unanswered
  /\ \E a \in Answers(c, fault) : Answering(c, fault, a)
  /\ taken' = (taken /\ c.task # "size")
  /\ UNCHANGED <<tables, screen, sent, list, pages, late, overlapped, misread>>

\* The session finds the token expired.
Deny(c) ==
  /\ c.answer = Unanswered /\ Answering(c, "none", Nothing("UNAUTHORIZED"))
  /\ UNCHANGED <<tables, screen, sent, list, pages, history>>

-----------------------------------------------------------------------------
Arrived(c, task, codes) ==
  /\ c.task = task /\ c.answer # Unanswered /\ c.answer.code \in codes

\* Mistaken: a full batch is taken for the last one.
WrongIsLast(c) == c.answer.code # "ERROR" /\ Len(c.answer.rows) <= Batch

\* A batch that is not full, or none at all, is the last one.
IsLast(c) == c.answer.code # "ERROR" /\ Len(c.answer.rows) < Batch

\* The next operations are appended.  Other failures are only logged.
ReceiveOperations(c) ==
  /\ Arrived(c, "operations", {"SUCCESS", "NOT_FOUND", "ERROR"}) /\ calls' = calls \ {c}
  /\ shown' = shown \o c.answer.rows
  /\ noMore' = (noMore \/ IsLast(c))
  /\ ended' = IF noMore' /\ ~noMore THEN c.known ELSE ended
  /\ misread' = (misread \/ (c.answer.code = "NOT_FOUND" /\ c.fault # "none"))
  /\ UNCHANGED <<tables, screen, sent, pages, late, overlapped, taken>>

\* The size gives the number of the last page, and the current one is loaded.
ReceiveSize(c) ==
  /\ Arrived(c, "size", {"SUCCESS"})
  /\ maxPage' = (c.answer.count + PageSize - 1) \div PageSize - 1
  /\ sent' = sent + 1
  /\ calls' = (calls \ {c}) \cup {Call(sent + 1, "products", page, ProductsOf(page), {})}
  /\ UNCHANGED <<tables, screen, list, page, shownBy, shownPage, history>>

\* The rows of a page replace those that are shown, whichever page is current.
ReceiveProducts(c) ==
  /\ Arrived(c, "products", {"SUCCESS"}) /\ calls' = calls \ {c}
  /\ shown' = c.answer.rows /\ shownBy' = c.n /\ shownPage' = c.page
  /\ UNCHANGED <<tables, screen, sent, noMore, ended, page, maxPage, history>>

\* A page or a size that fails leaves everything as it is.
IgnoreFailure(c) ==
  /\ Arrived(c, "products", {"NOT_FOUND", "ERROR"}) \/ Arrived(c, "size", {"ERROR"})
  /\ calls' = calls \ {c}
  /\ UNCHANGED <<tables, screen, sent, list, pages, history>>

\* Whoever is not authorized goes to the login; what is in flight is lost.
Redirect(c) ==
  /\ Arrived(c, c.task, {"UNAUTHORIZED"}) /\ screen' = "login" /\ calls' = {}
  /\ UNCHANGED <<tables, sent, list, pages, history>>

Next ==
  \/ \E b \in Bookings : Draw(b)
  \/ \E t \in pending : Commit(t)
  \/ LoadNext
  \/ \E to \in 0 .. maxPage : SwitchPage(to)
  \/ \E c \in calls : \/ \E fault \in Faults : Serve(c, fault)
                      \/ Deny(c) \/ ReceiveOperations(c) \/ ReceiveSize(c)
                      \/ ReceiveProducts(c) \/ IgnoreFailure(c) \/ Redirect(c)

Spec == Init /\ [][Next]_vars

-----------------------------------------------------------------------------
ShownNumbers == {shown[i].operation_id : i \in DOMAIN shown}
OnProduct == screen = "product"

\* The list of operations shows one of them twice only if two loads
\* overlapped, or an operation was committed after one with a bigger number
\* had been read, which moves those behind it.
RepeatedForAReason ==
  OnProduct /\ Cardinality(ShownNumbers) < Len(shown) => overlapped \/ late # {}

\* Once the client takes the list for complete, it shows every operation that
\* was committed when the last load was sent, unless that operation came late,
\* loads overlapped, a failing database was read as the end, or the list has
\* more rows than an offset can skip, which the database refuses.
EndIsTheEnd ==
  OnProduct /\ noMore /\ ~overlapped /\ ~misread /\ Len(shown) < Half =>
    ended \subseteq ShownNumbers \cup late

\* The rows of the last load that was sent are those of the page whose number
\* is shown, however fast the pages are turned.
ShownPageIsCurrent ==
  screen = "warehouse" /\ shownBy # 0 /\ shownBy = sent => shownPage = page

\* A page within the size is not found only if the database failed or a
\* product has left the warehouse since the size was read: the count over the
\* items and the list over the joined products agree, as far as an offset can
\* skip.
PagesWithinSizeAreFound ==
  screen = "warehouse" =>
    \A c \in calls :
      (Arrived(c, "products", {"NOT_FOUND"}) /\ c.page <= maxPage /\ c.page * PageSize < Half)
        => taken \/ c.fault # "none"

-----------------------------------------------------------------------------
All == Request(0, 0, Missing)
Counts(answers, size) == \A a \in answers : Len(a.rows) = size.count
Single(answer, row) == answer.code = "SUCCESS" /\ answer.rows = <<row>>

\* Filters of one request: an unknown column, a null, a word that is no date,
\* a column of another table.
SomeFilters ==
  {{Equal("product_id", Product)},
   {Equal("product_id", Product), Equal("warehouse_id", Warehouse)},
   {[key |-> "no_column", type |-> "=", kind |-> "number", value |-> 0]},
   {[key |-> "warehouse_id", type |-> "=", kind |-> "null", value |-> 0]},
   {[key |-> "operation_id", type |-> ">=", kind |-> "number", value |-> 2],
    [key |-> "name", type |-> "=", kind |-> "text", value |-> 0]},
   {Equal("main_color", 0)}}

\* Of one snapshot, the tasks tell one story (looked at before the client has
\* sent anything: others book meanwhile): a list is as long as its size,
\* also under a filter and also by warehouse, a size that the database refuses
\* comes with a list that has no rows, a list read row by row is the list, and
\* a single read shows what the list shows.
TasksAgree ==
  sent = 0 =>
    /\ Counts(GetProductList(db, All, "none"), GetProductSize(db, All, "none"))
    /\ Counts(GetInvoiceList(db, All, "none"), GetInvoiceSize(db, All, "none"))
    /\ Counts(GetReportList(db, All, "none"), GetReportSize(db, All, "none"))
    /\ Counts(GetUserList(db, All, "none"), GetUserSize(db, All, "none"))
    /\ Counts(GetWarehouseList(db, All, "none"), GetWarehouseSize(db, All, "none"))
    /\ \A w \in db.Warehouse :
         Counts(GetProductList(db, Request(0, 0, {Equal("warehouse_id", w.warehouse_id)}), "none"),
                GetProductSizeByWarehouse(db, w.warehouse_id, "none"))
    /\ \A f \in SomeFilters :
         LET r == Request(0, 0, f)
         IN  Counts(GetOperationList(db, r, "none"), GetOperationSize(db, r, "none"))
    /\ \A a \in GetOperationList(db, All, "none"), i \in 1 .. Cardinality(db.Operation) :
         i <= Half =>
           GetOperationList(db, Request(1, i - 1, Missing), "none") = {Answer("SUCCESS", <<a.rows[i]>>)}
    /\ \A a \in GetInvoiceList(db, All, "none") : \A i \in DOMAIN a.rows :
         Single(GetInvoice(db, a.rows[i].row.invoice_id, "none"), a.rows[i])
    /\ \A a \in GetWarehouseList(db, All, "none") : \A i \in DOMAIN a.rows :
         Single(GetWarehouse(db, a.rows[i].row.warehouse_id, "none"), a.rows[i])
    /\ \A a \in GetReportList(db, All, "none") : \A i \in DOMAIN a.rows :
         Single(GetReport(db, a.rows[i].report_id, "none"), a.rows[i])
    /\ \A p \in db.Product : Single(GetProduct(db, p.product_id, "none"), p)
    /\ \A u \in db.User : Single(GetUser(db, u.user_id, "none"), u)

-----------------------------------------------------------------------------
\* What makes it so.  The tables keep their keys, as those who have drawn a
\* number are the only ones to insert it.
Drawn ==
  /\ WellKept(db) /\ drawn \in Nat
  /\ \A t, u \in pending : t.number = u.number => t = u
  /\ \A t \in pending : t.number \in 1 .. drawn
  /\ \A o \in db.Operation : o.operation_id \in 1 .. drawn /\ \A t \in pending : t.number # o.operation_id
  /\ \A v \in db.Invoice : v.invoice_id \in 1 .. drawn /\ \A t \in pending : t.number # v.invoice_id
  /\ \A i \in db.Invoice_Item : \E v \in db.Invoice : v.invoice_id = i.invoice_id
  /\ \A i \in db.Warehouse_Item :
       i = [warehouse_id |-> i.warehouse_id, product_id |-> i.product_id, count |-> i.count]
  /\ db.Warehouse = Tables.Warehouse

Sent ==
  /\ sent \in Nat
  /\ \A c \in calls : c = [n |-> c.n, task |-> c.task, page |-> c.page, request |-> c.request,
                           known |-> c.known, fault |-> c.fault, answer |-> c.answer]

\* Rows that have been read one batch after the other are all those up to the
\* last of them but the late ones, and no more than these.
NumbersOf(rows) == {rows[i].operation_id : i \in DOMAIN rows}
UpTo(rows) == {x \in Numbers : \E r \in NumbersOf(rows) : x <= r}
InOrder(rows) ==
  /\ rows \in Seq(Operations)
  /\ UpTo(rows) \subseteq NumbersOf(rows) \cup late
  /\ Len(rows) <= Cardinality(UpTo(rows))
  /\ late = {} => \A i, j \in DOMAIN rows : rows[i].operation_id = rows[j].operation_id => i = j

\* The answer that says so comes from the end of the list.
SaysEnd(c) == /\ c.answer.code \in {"SUCCESS", "NOT_FOUND"} /\ Len(c.answer.rows) < Batch
              /\ c.answer.code = "NOT_FOUND" => c.fault = "none"

\* As long as no loads overlap, there is one at a time, of what follows.
Continues(c) ==
  /\ c.task = "operations" /\ c.known \subseteq Numbers
  /\ c.request = Request(Batch, Len(shown), {Equal("product_id", Product)})
  /\ c.answer # Unanswered =>
       /\ c.answer.rows \in Seq(Operations)
       /\ InOrder(shown \o c.answer.rows) /\ Len(shown \o c.answer.rows) < 2 * Half
       /\ SaysEnd(c) /\ Len(shown) < Half =>
            c.known \subseteq NumbersOf(shown \o c.answer.rows) \cup late
OneLoad ==
  OnProduct /\ ~overlapped =>
    /\ InOrder(shown) /\ EndIsTheEnd /\ Len(shown) < 2 * Half
    /\ \A c, d \in calls : c = d
    /\ \A c \in calls : Continues(c)

\* The size comes first; as long as no product is taken, the warehouse has
\* some beyond the beginning of the last page.
Stored == Cardinality(WarehouseItems(db, Warehouse))
AsksSize(c) ==
  /\ c.task = "size"
  /\ c.answer.code = "SUCCESS" => c.answer.count \in Nat /\ (taken \/ c.answer.count <= Stored)
AsksPage(c) ==
  /\ c.task = "products" /\ c.request = ProductsOf(c.page)
  /\ c.n = sent => c.page = page
OnPages ==
  screen = "warehouse" =>
    /\ sent # 0 /\ page \in Nat /\ maxPage \in Int /\ shownBy \in 0 .. sent
    /\ ShownPageIsCurrent /\ PagesWithinSizeAreFound
    /\ \A c \in calls : c.n \in 1 .. sent /\ c.page \in Nat
    /\ sent = 1 => /\ page = 0 /\ maxPage = 0 /\ shownBy = 0
                   /\ \A c, d \in calls : c = d
                   /\ \A c \in calls : AsksSize(c)
    /\ sent # 1 => /\ taken \/ maxPage < 0 \/ maxPage * PageSize < Stored
                   /\ \A c \in calls : AsksPage(c)

IInv == Drawn /\ Sent /\ OneLoad /\ OnPages
=============================================================================
