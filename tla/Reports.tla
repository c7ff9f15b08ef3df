------------------------------- MODULE Reports -------------------------------
(***************************************************************************)
(* The tasks that make reports (reports_current.cpp, reports_by_period.cpp)*)
(* and the document manager that opens their files (document_manager.cpp). *)
(*                                                                         *)
(* A task selects in one transaction, creates its file inside it, inserts  *)
(* the row that names the file, commits, and writes the file's content     *)
(* afterwards.  Other tasks book operations meanwhile (StockTransactions). *)
(*                                                                         *)
(* Time is counted in ticks, Unit of them to a second.  Dates are printed  *)
(* and read in seconds (date_provider.cpp).  A file is two blocks: what    *)
(* WriteReportFile writes before the report's id is needed, and the rest.  *)
(* A write may fail on an open stream, which nothing tests.                *)
(***************************************************************************)
EXTENDS Integers, FiniteSetsExt

CONSTANTS Tasks, NoTask,
          Requests,    \* [kind, warehouse] and, by period, [.., from, to],
                       \* dates as they are written: <<hour, minute, second>>
          Warehouses,  \* the warehouses that exist
          Operations,  \* what other tasks may book: [invoice, product, warehouse, count, at]
          Names,       \* file names that dates print as
          Tweaks, Untweaked,  \* what GenerateRandomString adds, and nothing
          NoPath,
          Attempts,    \* attempts of CreateFile
          Unit         \* ticks to a second

ASSUME ReportsAssumption ==
  /\ NoTask \notin Tasks /\ Untweaked \notin Tweaks
  /\ Attempts \in Nat \ {0} /\ Unit \in Nat \ {0}
  /\ \A r \in Requests : /\ r.kind \in {"current", "period"}
                         /\ r.kind = "period" => /\ r.from \in Nat \X Nat \X Nat
                                                 /\ r.to \in Nat \X Nat \X Nat
  /\ \A o \in Operations : o.at \in Nat

Kinds == {"current", "period"}
Paths == Kinds \X Names \X (Tweaks \cup {Untweaked})

ASSUME PathAssumption == NoPath \notin Paths

VARIABLES booked,    \* the committed rows of Operation
          fraction,  \* ticks into its second at which the date provider was built
          req, pc,   \* each task's request, and where it is
          began,     \* what was booked when the task began (history)
          seen,      \* the snapshot of its transaction
          content,   \* the operations behind what its report shows
          attempt,   \* attempts of CreateFile so far
          path,      \* the path CreateFile tries, later m_report.filepath
          stream,    \* the file its fstream is open on
          id,        \* m_report.report_id, 0 for none
          outcome,   \* what Execute returned, "none" before
          result,    \* the answer, "none" before
          files, head, body,  \* paths that exist, and who wrote their blocks
          bad,       \* tasks whose stream a write has failed on
          rows,      \* the committed rows of Report
          lastId,    \* the sequence of Report
          foundFree, \* tasks that have found their path free (history)
          clashed,   \* paths opened by two tasks that had found them free (history)
          doubted    \* tasks whose commit was in doubt (history)

world == <<booked, fraction>>
data == <<req, began, seen, content>>
file == <<attempt, path, stream>>
disk == <<files, head, body, bad, foundFree, clashed>>
table == <<rows, lastId, doubted>>
answer == <<outcome, result>>
vars == <<world, pc, data, file, id, disk, table, answer>>

NoRequest == [kind |-> "none"]
Answers == {"SUCCESS", "NOT_FOUND", "ERROR", "WRONG_FORMAT"}
Reading == {"warehouse", "select", "products"}
InTransaction == Reading \cup {"check", "open", "insert", "commit"}
Running == InTransaction \cup {"write", "rest"}
Ended == {"answered", "dead"}

\* Every variable has its type (the members of the two task classes, the
\* rows and files they make).
TypeOK ==
  /\ booked \subseteq Operations /\ fraction \in 0 .. Unit - 1
  /\ req \in [Tasks -> Requests \cup {NoRequest}]
  /\ pc \in [Tasks -> {"idle"} \cup Running \cup Ended]
  /\ began \in [Tasks -> SUBSET Operations] /\ seen \in [Tasks -> SUBSET Operations]
  /\ content \in [Tasks -> SUBSET Operations]
  /\ attempt \in [Tasks -> 0 .. Attempts]
  /\ path \in [Tasks -> Paths \cup {NoPath}] /\ stream \in [Tasks -> Paths \cup {NoPath}]
  /\ id \in [Tasks -> Nat]
  /\ outcome \in [Tasks -> Answers \cup {"none"}] /\ result \in [Tasks -> Answers \cup {"none"}]
  /\ files \subseteq Paths /\ bad \subseteq Tasks
  /\ head \in [Paths -> Tasks \cup {NoTask}] /\ body \in [Paths -> Tasks \cup {NoTask}]
  /\ rows \subseteq [id : Nat, path : Paths, of : Tasks] /\ lastId \in Nat
  /\ foundFree \subseteq Tasks /\ clashed \subseteq Paths /\ doubted \subseteq Tasks

Init ==
  /\ booked = {} /\ fraction \in 0 .. Unit - 1
  /\ req = [t \in Tasks |-> NoRequest] /\ pc = [t \in Tasks |-> "idle"]
  /\ began = [t \in Tasks |-> {}] /\ seen = [t \in Tasks |-> {}]
  /\ content = [t \in Tasks |-> {}]
  /\ attempt = [t \in Tasks |-> 0]
  /\ path = [t \in Tasks |-> NoPath] /\ stream = [t \in Tasks |-> NoPath]
  /\ id = [t \in Tasks |-> 0]
  /\ outcome = [t \in Tasks |-> "none"] /\ result = [t \in Tasks |-> "none"]
  /\ files = {} /\ rows = {} /\ lastId = 0 /\ doubted = {}
  /\ foundFree = {} /\ clashed = {} /\ bad = {}
  /\ head = [p \in Paths |-> NoTask] /\ body = [p \in Paths |-> NoTask]

Go(t, place) == pc' = [pc EXCEPT ![t] = place]

-----------------------------------------------------------------------------
\* FromIsoTimeString takes minutes and seconds from 1 to 60, ...
Readable(date) == date[2] \in 1 .. 60 /\ date[3] \in 1 .. 60

\* ... mktime makes the next hour or minute of a 60, ...
Since(date) == 3600 * date[1] + 60 * date[2] + date[3]

\* Mistaken: the fraction is subtracted.
WrongFromIso(seconds) == Unit * seconds - fraction

\* ... and adds what m_fromIsoOffset keeps of the moment the provider was
\* built: the sub-second part that the round trip in the constructor lost.
FromIso(seconds) == Unit * seconds + fraction

\* ToIsoTimeString: a date prints as its second.
ToIso(tick) == tick \div Unit

\* ParseInternal: the bounds of a period have to be dates.
Parsed(r) == r.kind = "period" => Readable(r.from) /\ Readable(r.to)

\* Operation::SelectEntryByPeriod: of all warehouses, strictly in between.
InPeriod(ops, r) ==
  {o \in ops : o.at > FromIso(Since(r.from)) /\ o.at < FromIso(Since(r.to))}

\* WarehouseItem::SelectByWarehouse: the products the warehouse holds, as the
\* operations that brought and took them.
Held(ops, w) ==
  LET units(p) == MapThenSumSet(LAMBDA o : o.count,
                                {o \in ops : o.warehouse = w /\ o.product = p})
  IN  {o \in ops : o.warehouse = w /\ units(o.product) > 0}

-----------------------------------------------------------------------------
\* Another task commits an invoice, whose trigger adds an operation.
Book(o) ==
  /\ o \notin booked /\ booked' = booked \cup {o}
  /\ UNCHANGED <<fraction, pc, data, file, id, disk, table, answer>>

\* A request that cannot be parsed is answered at once, another one gets a
\* transaction, or none.
Begin(t, r) ==
  /\ pc[t] = "idle" /\ req' = [req EXCEPT ![t] = r]
  /\ began' = [began EXCEPT ![t] = booked]
  /\ \/ Parsed(r) /\ Go(t, "warehouse") /\ UNCHANGED result
     \/ /\ ~Parsed(r) /\ Go(t, "answered")
        /\ result' = [result EXCEPT ![t] = "WRONG_FORMAT"]
     \/ /\ Parsed(r) /\ Go(t, "answered")
        /\ result' = [result EXCEPT ![t] = "ERROR"]
  /\ UNCHANGED <<world, seen, content, file, id, disk, table, outcome>>

\* Execute returns.  ReportsCurrent::CollectData writes the file whatever it
\* returned, ReportsByPeriod::CollectData only after a success.
Executed(t, answered) ==
  /\ outcome' = [outcome EXCEPT ![t] = answered]
  /\ IF answered = "SUCCESS" \/ req[t].kind = "current"
     THEN Go(t, "write") /\ UNCHANGED result
     ELSE Go(t, "answered") /\ result' = [result EXCEPT ![t] = answered]

\* The database cannot be reached, or an entry throws.
Fail(t) ==
  /\ pc[t] \in InTransaction /\ Executed(t, "ERROR")
  /\ UNCHANGED <<world, data, file, id, disk, table>>

\* Warehouse::SelectEntry, the first statement, which takes the snapshot.
ReadWarehouse(t) ==
  /\ pc[t] = "warehouse" /\ seen' = [seen EXCEPT ![t] = booked]
  /\ IF req[t].warehouse \in Warehouses
     THEN Go(t, "select") /\ UNCHANGED answer
     ELSE Executed(t, "NOT_FOUND")
  /\ UNCHANGED <<world, req, began, content, file, id, disk, table>>

\* The items of the warehouse, or the operations of the period with their
\* invoices; Invoice::SelectEntry finds none for no operations.
Select(t) ==
  LET found == IF req[t].kind = "current" THEN Held(seen[t], req[t].warehouse)
                                          ELSE InPeriod(seen[t], req[t])
  IN  /\ pc[t] = "select" /\ content' = [content EXCEPT ![t] = found]
      /\ IF req[t].kind = "period" /\ found = {}
         THEN Executed(t, "NOT_FOUND")
         ELSE Go(t, "products") /\ UNCHANGED answer
      /\ UNCHANGED <<world, req, began, seen, file, id, disk, table>>

\* Product::SelectEntry: not found for no products.  Then CreateReportFile
\* makes the name from the date.  It is any name: gmtime's buffer belongs to
\* all threads, and reports of one second have one name anyhow.
ReadProducts(t) ==
  /\ pc[t] = "products"
  /\ \/ content[t] = {} /\ Executed(t, "NOT_FOUND") /\ UNCHANGED path
     \/ /\ content[t] # {} /\ Go(t, "check") /\ UNCHANGED answer
        /\ \E n \in Names : path' = [path EXCEPT ![t] = <<req[t].kind, n, Untweaked>>]
  /\ UNCHANGED <<world, data, attempt, stream, id, disk, table>>

\* CreateFile tries again with the name tweaked, or gives up.
TryTweaked(t) ==
  /\ attempt' = [attempt EXCEPT ![t] = @ + 1]
  /\ IF attempt[t] + 1 < Attempts
     THEN /\ Go(t, "check") /\ UNCHANGED answer
          /\ \E w \in Tweaks : path' = [path EXCEPT ![t][3] = w]
     ELSE Executed(t, "ERROR") /\ UNCHANGED path

\* Mistaken: the path is not looked up.
WrongCheck(t) ==
  /\ pc[t] = "check" /\ Go(t, "open")
  /\ UNCHANGED <<world, data, file, id, disk, table, answer>>

\* RestoreDocument: does the path exist?
Check(t) ==
  /\ pc[t] = "check"
  /\ IF path[t] \in files
     THEN TryTweaked(t) /\ UNCHANGED foundFree
     ELSE /\ foundFree' = foundFree \cup {t} /\ Go(t, "open")
          /\ UNCHANGED <<attempt, path, answer>>
  /\ UNCHANGED <<world, data, stream, id, files, head, body, bad, clashed, table>>

\* Mistaken: it is not tested whether the stream is good.
WrongOpen(t) ==
  /\ pc[t] = "open" /\ stream' = [stream EXCEPT ![t] = path[t]] /\ Go(t, "insert")
  /\ UNCHANGED <<world, data, attempt, path, id, disk, table, answer>>

\* CreateDirectoriesAndOpenStream: the folder or the file may not be had;
\* a file that has come into being since the check is truncated.
Open(t) ==
  /\ pc[t] = "open" /\ foundFree' = foundFree \ {t}
  /\ \/ TryTweaked(t) /\ UNCHANGED <<stream, files, head, body, clashed>>
     \/ /\ stream' = [stream EXCEPT ![t] = path[t]] /\ files' = files \cup {path[t]}
        /\ head' = [head EXCEPT ![path[t]] = NoTask] /\ body' = [body EXCEPT ![path[t]] = NoTask]
        /\ clashed' = IF path[t] \in files /\ t \in foundFree
                      THEN clashed \cup {path[t]} ELSE clashed
        /\ Go(t, "insert") /\ UNCHANGED <<attempt, path, answer>>
  /\ UNCHANGED <<world, data, id, bad, table>>

\* Report::InsertEntry: the row names the path, the sequence gives the id.
Insert(t) ==
  /\ pc[t] = "insert" /\ lastId' = lastId + 1
  /\ id' = [id EXCEPT ![t] = lastId + 1] /\ Go(t, "commit")
  /\ UNCHANGED <<world, data, file, disk, rows, doubted, answer>>

\* The commit, which may be in doubt: carried out, and not known to be.
Commit(t) ==
  /\ pc[t] = "commit" /\ rows' = rows \cup {[id |-> id[t], path |-> path[t], of |-> t]}
  /\ \/ Executed(t, "SUCCESS") /\ UNCHANGED doubted
     \/ Executed(t, "ERROR") /\ doubted' = doubted \cup {t}
  /\ UNCHANGED <<world, data, file, id, disk, lastId>>

\* What is written before the report's id is needed.  A stream that is not
\* open swallows it; on one that is, the write may fail.
Prologue(t) ==
  \/ stream[t] = NoPath /\ UNCHANGED <<head, bad>>
  \/ stream[t] # NoPath /\ head' = [head EXCEPT ![stream[t]] = t] /\ UNCHANGED bad
  \/ stream[t] # NoPath /\ bad' = bad \cup {t} /\ UNCHANGED head

\* The header, with the id, and the tables of what the report shows.  A bad
\* stream takes no more, and one that fails here may take the first block with
\* it, which was in its buffer.
Tables(t) ==
  \/ t \notin bad /\ body' = [body EXCEPT ![stream[t]] = t] /\ UNCHANGED <<head, bad>>
  \/ /\ bad' = bad \cup {t} /\ UNCHANGED body
     /\ head' \in {head, [head EXCEPT ![stream[t]] = IF @ = t THEN NoTask ELSE @]}

\* ExecuteInternal puts the answer together from what Execute has returned.
AnswerFor(t) == Go(t, "answered") /\ result' = [result EXCEPT ![t] = outcome[t]]

\* Mistaken: the file is answered for before its content is written.
WrongWrite(t) ==
  /\ pc[t] = "write" /\ AnswerFor(t)
  /\ UNCHANGED <<world, data, file, id, disk, table, outcome>>

\* WriteReportFile up to PrintHeader, which throws when there is no id.
Write(t) ==
  /\ pc[t] = "write" /\ Prologue(t)
  /\ IF id[t] # 0
     THEN Go(t, "rest") /\ UNCHANGED <<stream, result>>
     ELSE /\ Go(t, "answered") /\ result' = [result EXCEPT ![t] = "ERROR"]
          /\ stream' = [stream EXCEPT ![t] = NoPath]
  /\ UNCHANGED <<world, data, attempt, path, id, files, body, foundFree, clashed, table, outcome>>

\* The rest of the content; the file is closed and the task calls back.  It
\* does not ask whether anything was written.
Rest(t) ==
  /\ pc[t] = "rest" /\ Tables(t) /\ AnswerFor(t)
  /\ stream' = [stream EXCEPT ![t] = NoPath]
  /\ UNCHANGED <<world, data, attempt, path, id, files, foundFree, clashed, table, outcome>>

\* The process dies, and what it kept in the buffers of its streams with it;
\* another one finds the rows and the files, and builds its date provider at
\* another moment.
Crash ==
  /\ head' \in {head, [p \in Paths |-> IF \E t \in Tasks : head[p] = t /\ pc[t] = "rest"
                                        THEN NoTask ELSE head[p]]}
  /\ pc' = [t \in Tasks |-> IF pc[t] \in Running THEN "dead" ELSE pc[t]]
  /\ stream' = [t \in Tasks |-> NoPath] /\ fraction' \in 0 .. Unit - 1
  /\ UNCHANGED <<booked, data, attempt, path, id, files, body, bad, foundFree, clashed, table, answer>>

Next ==
  \/ \E o \in Operations : Book(o)
  \/ \E t \in Tasks, r \in Requests : Begin(t, r)
  \/ \E t \in Tasks : \/ ReadWarehouse(t) \/ Select(t) \/ ReadProducts(t)
                      \/ Check(t) \/ Open(t) \/ Insert(t) \/ Commit(t)
                      \/ Write(t) \/ Rest(t) \/ Fail(t)
  \/ Crash

Spec == Init /\ [][Next]_vars

-----------------------------------------------------------------------------
Complete(t) == head[path[t]] = t /\ body[path[t]] = t

\* Whoever lists the reports, at any moment and also after a crash, finds
\* only files that exist, and no file under two reports, unless two tasks have
\* looked for one path before either opened it.
RowsNameOwnFiles ==
  \A r \in rows : /\ r.path \in files
                  /\ \A q \in rows : q.path = r.path => q = r \/ r.path \in clashed

\* A report that is answered with success is committed under the answered id,
\* and its file holds its whole content, whatever others have created,
\* committed or failed to since -- unless a write failed on its stream, which
\* WriteReportFile does not test, or two tasks clashed on the path.
AnsweredIsWritten ==
  \A t \in Tasks : result[t] = "SUCCESS" =>
    /\ [id |-> id[t], path |-> path[t], of |-> t] \in rows
    /\ path[t] \in clashed \/ t \in bad \/ Complete(t)

\* A committed report whose task has ended lacks its content only if the
\* process died in between, two tasks clashed, a write failed on the stream,
\* or the commit of a report by period was in doubt: its task does not know
\* that there is a report.
UnwrittenForAReason ==
  \A r \in rows :
    (pc[r.of] = "answered" /\ ~Complete(r.of)) =>
      \/ r.path \in clashed \/ r.of \in bad
      \/ r.of \in doubted /\ req[r.of].kind = "period"

\* A report by period shows every operation that was booked before it began
\* and whose printed date lies between the printed bounds, and none whose
\* printed date lies outside them, although bounds and dates were rounded to
\* seconds and back by a provider that keeps a fraction of its own.
AsPrinted(t) ==
  /\ \A o \in began[t] :
       (Since(req[t].from) < ToIso(o.at) /\ ToIso(o.at) < Since(req[t].to)) => o \in content[t]
  /\ \A o \in content[t] : /\ o \in booked
                           /\ Since(req[t].from) <= ToIso(o.at)
                           /\ ToIso(o.at) <= Since(req[t].to)

PeriodAsPrinted ==
  \A t \in Tasks : (result[t] = "SUCCESS" /\ req[t].kind = "period") => AsPrinted(t)

-----------------------------------------------------------------------------
\* What holds besides.  A task's place tells how far it has got with its
\* path, its file and its id ...
Early == {"idle"} \cup Reading \cup {"check", "open"}
InPlace ==
  \A t \in Tasks :
    /\ pc[t] # "idle" => req[t] \in Requests
    /\ pc[t] \in Early => stream[t] = NoPath /\ attempt[t] < Attempts /\ id[t] = 0
    /\ pc[t] = "open" => t \in foundFree
    /\ pc[t] \in {"check", "open", "insert", "commit"} => path[t] \in Paths
    /\ stream[t] \in {NoPath, path[t]}
    /\ pc[t] = "insert" => stream[t] # NoPath
    /\ pc[t] \in {"commit", "rest"} => id[t] # 0
    /\ (id[t] # 0 /\ pc[t] \in Running) => stream[t] # NoPath

\* ... and what came of it: its row, an answer, or a doubt.
Committed(t) == [id |-> id[t], path |-> path[t], of |-> t]
Past == {"write", "rest"} \cup Ended
Results ==
  /\ \A r \in rows : r = Committed(r.of) /\ r.id # 0 /\ pc[r.of] \in Past
  /\ \A t \in doubted : pc[t] \in Past
  /\ \A t \in Tasks : /\ outcome[t] = "SUCCESS" => Committed(t) \in rows /\ t \notin doubted
                      /\ result[t] = "SUCCESS" => outcome[t] = "SUCCESS" /\ pc[t] = "answered"

\* The tasks that can write to a file, or whose rows name one, have a file
\* each, but for clashes.
Holders == {t \in Tasks : stream[t] # NoPath} \cup {r.of : r \in rows}
OwnFiles ==
  \A t \in Holders : /\ path[t] \in files
                     /\ \A u \in Holders : path[u] = path[t] => u = t \/ path[t] \in clashed

\* What a report's file lacks at most, from the first block on, when the writes
\* succeeded.
Written ==
  \A r \in rows : (r.path \notin clashed /\ r.of \notin bad) =>
    /\ pc[r.of] = "rest" => head[r.path] = r.of
    /\ pc[r.of] = "answered" =>
         Complete(r.of) \/ (r.of \in doubted /\ req[r.of].kind = "period")

\* What a task knows of the operations.
Snapshots ==
  \A t \in Tasks :
    /\ began[t] \subseteq booked /\ seen[t] \subseteq booked
    /\ pc[t] = "select" => began[t] \subseteq seen[t]
    /\ (\/ pc[t] \in {"products", "check", "open", "insert", "commit"}
        \/ outcome[t] = "SUCCESS") /\ req[t].kind = "period" => AsPrinted(t)

IInv == TypeOK /\ InPlace /\ Results /\ OwnFiles /\ Written /\ Snapshots
=============================================================================
