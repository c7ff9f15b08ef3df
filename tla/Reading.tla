------------------------------ MODULE Reading ------------------------------
(***************************************************************************)
(* What the reading tasks answer: the lists (get_*_list), the sizes        *)
(* (get_*_size) and the single reads (get_product, get_invoice, ...).      *)
(*                                                                         *)
(* Each is one transaction that only selects, of a snapshot db: a record   *)
(* with a set of rows for each table.  A row keeps the columns that        *)
(* identify and relate it.  What goes wrong is the task's fault:           *)
(*   "lost"       no transaction, or no prepared statement, is to be had   *)
(*   "first"      the first statement fails                                *)
(*   "second"     a statement after it fails, if there is one              *)
(*   "commit"     the commit fails                                         *)
(***************************************************************************)
EXTENDS Integers, SequencesExt

CONSTANTS Null,     \* the null of the database
          Missing,  \* what a request leaves out
          Traced,   \* queries are traced, and serialized for it
          Half      \* an int32_t is one of -Half .. Half - 1

ASSUME ReadingAssumption == Traced \in BOOLEAN /\ Half \in Nat \ {0}

Faults == {"none", "lost", "first", "second", "commit"}

Answer(code, rows) == [code |-> code, rows |-> rows]
Nothing(code) == Answer(code, <<>>)

-----------------------------------------------------------------------------
\* The tables and their columns.
Schema ==
  [Invoice |-> {"invoice_id", "name", "pretty_name", "description", "created_date",
                "created_by", "company_name", "warehouse_to_id", "warehouse_from_id"},
   Invoice_Item |-> {"invoice_id", "product_id", "count"},
   Operation |-> {"operation_id", "invoice_id", "invoice_pretty_name", "product_id",
                  "warehouse_id", "count", "created_date", "created_by"},
   Product |-> {"product_id", "name", "pretty_name", "description", "created_date",
                "created_by", "main_color"},
   Report |-> {"report_id", "name", "description", "report_type", "filepath",
               "created_date", "warehouse_id", "created_by"},
   User |-> {"user_id", "login", "password_hashed", "name", "created_date", "created_by"},
   Warehouse |-> {"warehouse_id", "name", "pretty_name", "description", "location",
                  "created_date", "created_by"},
   Warehouse_Item |-> {"warehouse_id", "product_id", "count"}]

Columns == UNION {Schema[t] : t \in DOMAIN Schema} \cup {"color_value"}

\* FromString<RealConditionType>, which does not know "!=".
Types == {"=", "<", ">", ">=", "<="}

NoFilter == [given |-> FALSE, conditions |-> {}]

\* What becomes of one filter: the string "NULL" asks for a null, another
\* string has to be a date, or is passed over.
Conditions(f) ==
  CASE f.kind \in {"number", "date"} -> {[column |-> f.key, type |-> f.type, value |-> f.value]}
    [] f.kind = "null" /\ f.type = "=" -> {[column |-> f.key, type |-> "null", value |-> Null]}
    [] OTHER -> {}

\* A list of filters becomes one AND group, or, when one of them cannot be
\* parsed, nothing at all.
ParseFilters(filters) ==
  IF \A f \in filters : f.key \in Columns /\ f.type \in Types /\ f.kind # "other"
  THEN [given |-> TRUE, conditions |-> UNION {Conditions(f) : f \in filters}]
  ELSE NoFilter

FilterOf(r) == IF r.filters = Missing THEN NoFilter ELSE ParseFilters(r.filters)

\* An empty group throws when it is serialized.
Empty(filter) == filter.given /\ filter.conditions = {}

\* A condition on a row; nothing compares with a null.
Holds(c, row) ==
  LET v == row[c.column]
  IN  IF c.type = "null" THEN v = Null
      ELSE v # Null /\ CASE c.type = "=" -> v = c.value
                         [] c.type = "<" -> v < c.value
                         [] c.type = ">" -> v > c.value
                         [] c.type = ">=" -> v >= c.value
                         [] c.type = "<=" -> v <= c.value

Where(rows, filter) == {row \in rows : \A c \in filter.conditions : Holds(c, row)}

\* Limit and offset of a query are an int32_t, those of a request an int64_t.
Narrow(n) == ((n + Half) % (2 * Half)) - Half
Limited(r) == r.limit # Missing /\ r.limit > 0

\* What the database refuses: a column that is in none of the tables or in
\* two, a negative limit or offset.  Parameters are sent without a type and
\* take that of their column, so that a text is compared with a text.
Refused(filter, tables) ==
  \E c \in filter.conditions : Cardinality({t \in tables : c.column \in Schema[t]}) # 1
PageRefused(r) == Narrow(r.offset) < 0 \/ (Limited(r) /\ Narrow(r.limit) < 0)

\* Mistaken: the query is not ordered.
WrongOrders(rows, key) == SetToSeqs(rows)

\* ORDER BY: the database gives rows of equal keys in any order.
Orders(rows, key) ==
  {s \in SetToSeqs(rows) : \A i, j \in DOMAIN s : i < j => s[i][key] <= s[j][key]}

\* LIMIT and OFFSET.
Pages(rows, key, r) ==
  LET from == Narrow(r.offset)
      upTo(n) == IF Limited(r) /\ from + Narrow(r.limit) < n THEN from + Narrow(r.limit) ELSE n
  IN  {SubSeq(s, from + 1, upTo(Len(s))) : s \in Orders(rows, key)}

-----------------------------------------------------------------------------
\* The answers of a list task, for the pages its select may give.  Without
\* rows it is NOT_FOUND, whatever Execute returned.
Found(pages, fault) ==
  {Nothing("NOT_FOUND") : p \in {q \in pages : q = <<>>}}
  \cup {IF fault = "none" THEN Answer("SUCCESS", p) ELSE Nothing("ERROR")
          : p \in {q \in pages : q # <<>>}}

\* The whole of a list task: parse, select, print.  A query that cannot be
\* prepared throws while its entry is made, outside Transaction::Execute, but
\* only once on a connection: later entries there take it for prepared and fail
\* when they are executed (PreparedQueries).
ListTask(rows, tables, key, r, fault) ==
  LET filter == FilterOf(r)
      throws == fault = "lost" \/ (Empty(filter) /\ Traced)
      unprepared == Empty(filter) \/ Refused(filter, tables)
      failed == fault = "first" \/ PageRefused(r)
  IN  IF r.offset = Missing THEN {Nothing("WRONG_FORMAT")}
      ELSE IF throws THEN {Nothing("ERROR")}
      ELSE IF unprepared THEN {Nothing("ERROR"), Nothing("NOT_FOUND")}
      ELSE IF failed THEN {Nothing("NOT_FOUND")}
      ELSE Found(Pages(Where(rows, filter), key, r), fault)

\* What is printed for the rows of an answer.
Shown(answers, out) ==
  {Answer(a.code, [i \in DOMAIN a.rows |-> out[a.rows[i]]]) : a \in answers}

\* ConditionHasWarehouseId.
MentionsWarehouse(filter) == \E c \in filter.conditions : c.column = "warehouse_id"

\* The products with the warehouses they are in, or with nulls.
Joined(db) ==
  {[product_id |-> i.product_id, warehouse_id |-> i.warehouse_id, count |-> i.count]
     : i \in db.Warehouse_Item}
  \cup {[product_id |-> p.product_id, warehouse_id |-> Null, count |-> Null]
     : p \in {q \in db.Product : \A i \in db.Warehouse_Item : i.product_id # q.product_id}}

GetProductList(db, r, fault) ==
  IF MentionsWarehouse(FilterOf(r))
  THEN ListTask(Joined(db), {"Product", "Warehouse_Item"}, "product_id", r, fault)
  ELSE ListTask({[product_id |-> p.product_id, warehouse_id |-> Null, count |-> Null]
                   : p \in db.Product}, {"Product"}, "product_id", r, fault)

GetOperationList(db, r, fault) ==
  ListTask(db.Operation, {"Operation"}, "operation_id", r, fault)

GetReportList(db, r, fault) == ListTask(db.Report, {"Report"}, "report_id", r, fault)

\* A row with its items, which a second select of the transaction finds.
InvoiceItems(db, id) == {i \in db.Invoice_Item : i.invoice_id = id}
PrintInvoice(db, row) == [row |-> row, items |-> InvoiceItems(db, row.invoice_id)]

WarehouseItems(db, id) == {i \in db.Warehouse_Item : i.warehouse_id = id}
PrintWarehouse(db, row) == [row |-> row, items |-> WarehouseItems(db, row.warehouse_id)]

GetInvoiceList(db, r, fault) ==
  Shown(ListTask(db.Invoice, {"Invoice"}, "invoice_id", r, fault),
        [row \in db.Invoice |-> PrintInvoice(db, row)])

GetWarehouseList(db, r, fault) ==
  Shown(ListTask(db.Warehouse, {"Warehouse"}, "warehouse_id", r, fault),
        [row \in db.Warehouse |-> PrintWarehouse(db, row)])

\* The list of users prints the name of a user as the login.
GetUserList(db, r, fault) ==
  Shown(ListTask(db.User, {"User"}, "user_id", r, fault),
        [row \in db.User |-> [row EXCEPT !.login = row.name]])

-----------------------------------------------------------------------------
\* Mistaken: the filter is left out of the count.
WrongSizeTask(rows, tables, r, fault) ==
  IF fault # "none" THEN [code |-> "ERROR", count |-> 0]
  ELSE [code |-> "SUCCESS", count |-> Cardinality(rows)]

\* SELECT COUNT( * ), with the filter as its condition.
SizeTask(rows, tables, r, fault) ==
  LET filter == FilterOf(r)
  IN  IF fault # "none" \/ Empty(filter) \/ Refused(filter, tables)
      THEN [code |-> "ERROR", count |-> 0]
      ELSE [code |-> "SUCCESS", count |-> Cardinality(Where(rows, filter))]

GetProductSize(db, r, fault) == SizeTask(db.Product, {"Product"}, r, fault)
GetInvoiceSize(db, r, fault) == SizeTask(db.Invoice, {"Invoice"}, r, fault)
GetOperationSize(db, r, fault) == SizeTask(db.Operation, {"Operation"}, r, fault)
GetReportSize(db, r, fault) == SizeTask(db.Report, {"Report"}, r, fault)
GetUserSize(db, r, fault) == SizeTask(db.User, {"User"}, r, fault)
GetWarehouseSize(db, r, fault) == SizeTask(db.Warehouse, {"Warehouse"}, r, fault)

\* Mistaken: the rows of all warehouses are counted.
WrongSizeByWarehouse(db, w, fault) ==
  IF fault # "none" THEN [code |-> "ERROR", count |-> 0]
  ELSE [code |-> "SUCCESS", count |-> Cardinality(db.Warehouse_Item)]

\* The rows of one warehouse, counted without their products.
GetProductSizeByWarehouse(db, w, fault) ==
  IF fault # "none" THEN [code |-> "ERROR", count |-> 0]
  ELSE [code |-> "SUCCESS", count |-> Cardinality(WarehouseItems(db, w))]

-----------------------------------------------------------------------------
\* The answer of a single read, from the rows with the id it asks for.
GetTask(rows, fault) ==
  IF fault = "lost" THEN Nothing("ERROR")
  ELSE IF fault = "first" \/ rows = {} THEN Nothing("NOT_FOUND")
  ELSE IF fault # "none" THEN Nothing("ERROR")
  ELSE Answer("SUCCESS", SetToSeq(rows))

GetProduct(db, id, fault) == GetTask({p \in db.Product : p.product_id = id}, fault)
GetReport(db, id, fault) == GetTask({r \in db.Report : r.report_id = id}, fault)
GetUser(db, id, fault) == GetTask({u \in db.User : u.user_id = id}, fault)

\* The items are selected before their invoice, which is missed if its select
\* fails.
GetInvoice(db, id, fault) ==
  GetTask({PrintInvoice(db, v) : v \in {i \in db.Invoice : i.invoice_id = id}},
          IF fault = "second" THEN "first" ELSE fault)

\* Warehouse::SelectEntry throws what Execute makes NOT_FOUND; any failure is
\* an ERROR here.
GetWarehouse(db, id, fault) ==
  IF fault # "none" THEN Nothing("ERROR")
  ELSE GetTask({PrintWarehouse(db, w) : w \in {x \in db.Warehouse : x.warehouse_id = id}}, fault)
=============================================================================
