# Verification of the warehouse accounting system

TLA+ models of the server of this repository (`src/back`) and of how its web
client (`src/front`) reads lists from it, model-checked with
TLC on small instances. Every safety property that a run checks is also proved
with TLAPS, for all instances.

Every module is translated from the C++ source. `PROJECT.json` lists, for each
definition that models code, the file and lines it stands for.

Contents: [the system](#1-the-system), [the modules](#2-modules-and-the-code),
[the runs](#3-runs-and-bounds), [fairness](#4-fairness),
[the proofs](#5-proofs), [disagreements found](#6-disagreements-with-the-documentation),
[seen besides](#7-seen-and-not-checked-by-a-run),
[what is left out](#8-what-is-not-modelled), [the plan](#9-plan).

Paths below are relative to `src/back`, unless they begin with `src`.

## 1. The system

A browser talks HTTP to the server; a request for the api names a task, carries
a token, and is answered with JSON. Tasks read and write a PostgreSQL database:
warehouses, products, the stock of each product in each warehouse
(`Warehouse_Item`), invoices, and the operations that invoices cause.

    io threads (4)                 task workers                PostgreSQL
    Listener -> Session --AddTask--> queue -> Task -> Transaction -> rows
                  ^                            |        ^
                  +-------- callback ----------+        | ConnectionProxy
                                                   ConnectionPool

### Components

| Component | State | Operations | Interacts with |
|---|---|---|---|
| Listener, Server (`components/webserver/source/listener.cpp`, `server.cpp`) | acceptor, io_context, its threads, count of loops to stop | accept, add and reduce loops, start, stop | creates sessions; its threads run all handlers of sessions |
| Session (`components/webserver/source/session`) | stream, `m_request`, timer of 30 s | handshake, read, handle (api or file), write, shutdown | authorizer, task manager; called back from task workers |
| Task manager (`components/task_manager/source/workers_manager.cpp`, `task_manager.cpp`) | queue, mutex, condition variable, `m_stop`, workers | AddTask, Run, destructor | owned by the sessions that its own tasks own |
| Tasks (`components/task_manager/source/tasks`) | the request, the answer | parse, execute, call back | one transaction each, a few services |
| Transactions (`services/db_connector/source/transaction`) | chain of entries, commit attempts | Execute, retry, commit | one connection; the database |
| Queries (`services/db_connector/source/query`) | registry of queries by id | register, iterate | prepared on each connection when it is taken |
| Connection pool (`services/db_connector/source/connection`) | free list, `m_toCreate`, `m_toDelete`, `m_busy`, options | GetConnection, ReturnConnection, SetSettings | all transactions |
| Accessor, DbManager (`services/db_connector/source/accessor.cpp`, `db_manager`) | health of the database | PrepareDb, CreateDb, InitializeTables, IsDbValid | reconfigures the pool during startup |
| The database schema (`db_manager/source/scripts/initialize_tables.h`) | tables, keys, triggers | the triggers that write `Operation` | what all tasks read and write |
| Authorizer (`services/authorizer`) | none; users in the database, expiry in the token | CreateUser, GenerateToken, ValidateToken, GetUserInfo | sessions and tasks |
| Reports and documents (`tasks/protocol/reports_*`, `services/document_manager`) | files and rows | collect, create file, commit, write | one transaction and one file per report |
| Tracer (`services/tracer`) | message queue, writer thread | Trace, Run, destructor | everybody |
| Date provider, settings, config reader, environment, locator (`services/*`) | constant after startup | conversions, look-ups | everybody |
| Web client (`src/front`) | the lists and pages it shows | loads a piece, turns a page, logs in | the server |

### Hard behaviours

* *Transactions.* Tasks run at REPEATABLE READ, select counts first and write
  rows later; they wait for row locks, deadlock, meet conflicts, lose their
  connection before, during and after the commit.
* *Threads.* Workers sleep on a condition variable that is notified without
  its mutex; the callback of a task works on a session outside its strand; the
  manager's last owner may be one of its own workers.
* *Limits.* The pool exceeds its quota when it is spent and must shrink again;
  counts meet the 32 bits of their column.
* *Failure in several steps.* Startup may have to create a database through
  another one with the pool that will later serve.
* *Ordering.* Requests of a connection must be answered one at a time and in
  their order although other threads answer them. A list is loaded in pieces
  whose requests and answers overtake one another while rows are inserted.
* *Files and rows.* A report is a row and a file, written in turns, and either
  may be missing after a failure or a crash.
* *Identity.* A token outlives the program and the tables; an id that it
  holds may come to name somebody else.

`PROJECT.json` ("hazards") lists them at the lines where they bite, with the
properties that would catch them going wrong.

### What makes each component correct

* Stock: requests are atomic and isolated; the operations, summed up, never
  exceed the stock; ids never clash; every task is answered.
* Task queue: each accepted request is executed and answered exactly once; no
  worker sleeps while there is work; nothing is dropped at the end.
* Web server and sessions: no accept loop is lost but by a failure; one thing
  at a time uses a stream; each response belongs to its request; each request
  is answered or its connection ends.
* Pool and prepared queries: a connection is never shared; the books balance in
  every state; a statement is prepared before it is executed, and it is the
  one meant; whoever uses a connection gives it back.
* Startup: it ends, and if the server serves, then from the configured,
  complete database, through connections that all lead there.
* Reports: a row names a file of its own; an answered report is whole, as far as
  its writes succeeded; a report by period shows what its period holds.
* Tracing: every message is written once and in order, the last one too.
* Users: an id names the person who gave the credentials; what is answered is
  what the tables hold.
* Reading and browsing: the tasks of one snapshot tell one story; what a client
  shows twice, misses or takes for the end has a reason.

## 2. Modules and the code

| Part | Abstract | Detailed | Instance | Proofs |
|---|---|---|---|---|
| Stock | `StockLedger` | `StockTransactions` (with `StockData`, `StockInvariant`) | `MCStockTransactions` | `StockProofs` |
| Task queue | | `TaskQueue` | `MCTaskQueue` | `TaskQueueProofs` |
| Web server and sessions | `Exchange` | `WebServer` (extends `Session`) | `MCWebServer` | `SessionProofs` |
| Connection pool, prepared queries | | `PreparedQueries` (extends `ConnectionPool`) | `MCPreparedQueries` | `ConnectionPoolProofs` |
| Startup | | `DbStartup` (extends `ConnectionPool`) | `MCDbStartup` | `ConnectionPoolProofs` |
| Reports, documents, dates | | `Reports` | `MCReports` | `ReportsProofs` |
| Tracing | | `TraceWriter` | `MCTraceWriter` | `TraceWriterProofs` |
| Reading tasks, the client's lists | | `Reading` (operators), `Browsing` | `MCBrowsing` | `BrowsingProofs` |
| Users, tokens, warehouses | | `Users` | `MCUsers` | `UsersProofs` |

Definitions named `Wrong...` (and `KeepsFree`) belong to no specification.
Each is a plausible slip in the definition behind it, kept to show that the
properties notice it.

### Stock

`StockData` has the tables as data: requests, rows, what a request does to a
row (`ReduceRow`, `ExpandRow` for the two flavours of `ChangeCount` in
`tasks/common/warehouse_item.h`) and what the triggers book for an invoice
(`Booking`, `initialize_tables.h`).

`StockTransactions` runs the tasks `products_create`, `products_move` and
`products_remove` concurrently. Each task executes its list of transaction
entries in the order its `SetNext` calls give them (`Following`). The selects
of one `ChangeCount` are one step, since they read the snapshot of the
transaction; every row deleted, inserted or updated is a step of its own, since
it may wait for a lock. PostgreSQL is external and modelled by its documented
rules as far as the code relies on them: snapshot, row locks, unique keys and
foreign keys, first-updater-wins conflicts, deadlock detection, 32-bit
columns. `Transaction::Execute` maps what is thrown to `VIOLATION`, `ERROR` or
`SUCCESS`. The model knows a connection that breaks before the commit, one
that breaks during it (`CommitInDoubt`: applied or not, `ERROR` either way),
and a conflict.

`StockLedger` is the promise: a request is carried out at once, on the stock as
it is, or refused without a trace.

| Variable | Code |
|---|---|
| `stock`, `products`, `booked` | committed rows of `Warehouse_Item`, `Product`; `Operation` summed by warehouse and product |
| `pc`, `leg`, `crit`, `upd` | the entry executed next, the running `ChangeCount`, its rows to delete or insert, and to update |
| `view`, `visible`, `stale` | the transaction's snapshot with its own writes, and the rows others have committed since |
| `writes`, `waits` | row locks held and waited for |
| `new`, `allocated`, `booking` | created ids, the sequence, rows the triggers add |
| `result` | the answer of the callback |

### Task queue

`TaskQueue` is `WorkersManager` with the io threads that fill it and `main`'s
way out. A step that holds `m_queueMtx` throughout is one action. The wait of
the condition variable is three steps (`Take`/`FindNothing`, `Block`, asleep):
between the test of the predicate and the sleep the worker holds the mutex,
but `~WorkersManager` sets `m_stop` and notifies without it. Ownership is
modelled because it decides where the destructor runs: a task's callback owns
its session, the session owns the manager (`LiveTasks`), so the last owner is
`main` (`DropManager`) or a worker (`Release`). What a task does is the single
step `Handle`.

### Web server and sessions

`Session` has, for each connection, the operations in progress on the stream,
what its strand executes, `m_request` (as the number of the request it holds)
and the tasks that have yet to call back. `HandleRequest` may come to any of
its ends: a response by the session itself (`Reply`) or a task (`AddTask`, then
`Leave` when the handler returns). `Callback` runs at any time after the task is
queued, also before the handler has returned, and starts the write. Any operation may fail at any
time: the client may go, and the timer of `DoRead` also covers the task and the
write. `Secured` tells TLS sessions, which have a handshake and a shutdown.

`Exchange` is the promise to the client; `Session` implements it with the
number of the last request read, the responses written, and whether the
session can still take or answer one.

`WebServer` puts the accept loops in front: `Listener::OnAccept` makes a
session and runs it, takes `m_tasksToStopCount` down and puts it back in two
steps, since the handlers of several loops share it, and accepts again. An
accept that fails, or a session that throws in the making, ends its loop. The
promise to the client is shown of the composition.

### Connection pool, prepared queries and startup

`ConnectionPool` has the counters of the pool, the connections free and in use
with the database they lead to, and the client inside `CreateConnection`, which
holds the mutex through its attempts and sleeps. `SetSettings` is an operator
there, not a step: the program calls it only while the accessor is built.

`PreparedQueries` is what the pool's clients do with a connection. A query gets
its number under `m_queriesMutex` (`Support`, `Reuse`: `query_manager.h`), the
connection catches up with the registry under the same mutex, query by query
from the newest to the oldest (`BeginRefresh`, `Prepare`, `PrepareFails`, `EndRefresh`:
`connection.cpp`), and the entry executes the statement of that number with
its own parameters. `last` is `m_lastSupportedQuery`, which
the code sets before it prepares anything: a connection on which a prepare
fails keeps a gap for good, which the history variable `poisoned` marks. A
query is told apart by what `SerializeParametrized` prints: type, table,
columns of the filter, and the form, that is how conditions are joined and rows
ordered. `Equals` compares all but the form, so that `OwnStatement` rests on
`FormAssumption`. A connection that is
abandoned when it comes back takes its statements with it.

`DbStartup` is the start: the pool is configured by its own constructor and
again by the accessor, `PrepareDb` checks the database, remakes its tables, or
creates it through the master database with the same pool, and `main` serves
or exits; then the other clients use the pool. The state of the database
server, the settings and every failure are open.

### Reports

`Reports` follows the two report tasks through their transaction: the selects
on one snapshot, the file, which is looked for (`Check`) and opened (`Open`) in
two steps, for a number of attempts with a tweaked name, the row, the commit, which may be in doubt,
and the content, written after it. `reports_current` goes on to write whatever
`Execute` returned, `reports_by_period` only after a success; a file is
two blocks because `PrintHeader`, between them, throws without an id. Each of
the two may fail to reach an open file, the first also when a later flush
fails: the task is then `bad` and goes on as if nothing had happened, because
the code tests the stream only when it opens it (`reports_current.cpp:307`,
`reports_by_period.cpp:395`). What a process that dies had in its buffers may
be lost, too. Dates are ticks: printing one drops its fraction of a second,
reading one takes minutes and seconds from 1 to 60, so that a full minute
is refused unless it is written as a 60, and adds the fraction of the
provider's own start (`date_provider.cpp`). Between any two steps others book,
the other task goes on, or the process dies.

### Tracing

`TraceWriter` follows a message from the trace statement, which may contain
others (`open` is the stack of collectors), to the queue and the file. The
writer's thread is started by the initializer list before the settings exist:
until `SetSettings` it reads garbage. As in the task queue, its wait is split
where the destructor, which does not take the mutex, can come between.

### Reading tasks and browsing

`Reading` defines what each of the lists, sizes and single reads
answers for a snapshot of the tables and a fault: filters and what becomes of
those that cannot be parsed, columns that are in none or in two of the joined
tables, limit and offset narrowed to an `int32_t`, the order, and the code that
is answered, which for a list depends on its rows before it depends on what `Execute` returned.

`Browsing` has a client use them while others book. The screen of a product
appends batch after batch of operations (`Product.js`); the screen of a
warehouse asks for the size and turns pages (`Warehouse.js`). Requests overtake
one another on their way there and back, since each is a task of its own, and a number drawn early may be
committed late.

### Users

`Users` has the four tasks that deal with ids: authorization, create_user,
create_warehouse and get_current_user, each one transaction, several at a
time, with the unique key of the logins, on which an insert waits for another,
and the foreign key of the creators. A token is an id and a time. It is kept
by people and survives a restart, which may make the tables again and start the
ids over. `asker` and `era` are history: the login behind a token or a
row, and the life of the tables that it belongs to.

## 3. Runs and bounds

| Run | Shows | Instance |
|---|---|---|
| `stock_edges` | `RequestsAreAtomic` (the refinement of `StockLedger`), `BookedIsBacked`, `NewItemsNeverClash`, `DriftOnlyByOverdraw`, `EveryTaskAnswered` | 2 tasks, 14 requests: unknown or repeated products, unknown warehouse, empty list, move within a warehouse, counts -3, 0, 3, 9 with column limit 5, crossing removes that deadlock; connections break |
| `task_queue` | `ExactlyOnce`, `IdleMeansNothingToDo`, `StopFindsNoWork`, `EveryTaskIsAnswered` | 3 requests, 3 workers, 2 io threads, shutdown at any time |
| `web_server` | `OneAtATime`, `HeadOfItsRequest`, `ImplementsExchange`, `EveryRequestEnds`, `EveryClientIsTaken` | 2 loops, a plain and a TLS client, 3 requests each; accepts fail |
| `prepared_queries` | `Exclusive`, `QuotaKept`, `OwnStatement`, `FailsForAReason`, `EveryUseEnds` | 2 clients, quota 1, 2 connections, 2 attempts, 3 queries: without, with one and with an empty filter; 3 ids |
| `db_startup` | `NoStrayConnection`, `QuotaAsConfigured`, `ServesValid`, `OnlyConfiguredRemade`, `StartupEnds` | all settings, 2 databases, configured counts none, 0, 1 and 3 around the default 2, main and 2 clients, 4 connections |
| `reports` | `RowsNameOwnFiles`, `AnsweredIsWritten`, `UnwrittenForAReason`, `PeriodAsPrinted` | 2 tasks that may clash on one name, 4 requests: both kinds, an unknown warehouse, a bound that is a full minute, written as 0 and as 60; operations within and one tick before the period; 2 attempts of one tweak; 3 ticks to a second; failing writes; crashes |
| `trace_writer` | `OnceInOrder`, `EndedMeansWritten`, `EveryMessageComesOut`, `DestructorReturns` | 2 threads, 4 messages, statements nested twice, batches of 2, uninitialized 0 or 9 |
| `browsing` | `RepeatedForAReason`, `EndIsTheEnd`, `ShownPageIsCurrent`, `PagesWithinSizeAreFound`, `TasksAgree` | 2 products, 2 warehouses, batches of 2, pages of 1, 3 operations that become 5, 2 requests in flight and 4 in all, offsets of -4 .. 3 |
| `users` | `CreatorIsWhoAsked`, `AnswersAgree`, `CreatedUsersCanLogIn` | 2 tasks, 4 credentials (the superuser with a right and a wrong password, another login, an empty one), 2 tokens, 1 tick, tables made again once, 3 numbers for users and 1 for warehouses |

The three other runs each show one disagreement (section 6).

Why the bounds are enough for what the runs are after:

* Stock: two tasks suffice for a lost update, a conflict or a deadlock of
  two. A row distinguishes only "missing", "less than", "equal to" and "more
  than" the requested count, and the column limit, all of which the stocks and
  counts reach. One product to create per request meets the others' draws from
  the sequence.
* Task queue: three requests and three workers let one worker test, one sleep and
  one work while a request is being queued; a fourth of any adds a
  second thread in a place that is already taken.
* Web server: sessions share nothing but the loops: two, one of each kind,
  stand for any number; three requests allow a first, a middle and a last. Two
  loops are enough to interleave their uses of the counter.
* Prepared queries: with two clients on a quota of one, one connection exceeds
  the quota and returns in any order with the other; each can refresh while the other
  registers. Of three queries one is bad, so that good ones come before and
  after it.
* Startup: each stage occurs, for each pair of old and new count.
* Reports: two tasks clash on one path; each failure, that of a write too, and the crash may come
  between any two steps of both. Three ticks to a second let the provider's fraction
  lie at, before and after an operation's.
* Tracing: the fewest messages for a batch that is full, one that is not, and
  one that arrives while another is written; an uninitialized setting below and above
  what can be queued.
* Browsing: two batches fit into three operations with one of them partly
  filled, and a third begins behind what an offset can skip when the bookings
  are there; two requests in flight can overtake one another.
* Users: two tasks can race for one login; one tick lets a token expire; one
  remake gives the old tokens a second era in which their ids are reused.

The proofs of section 5 lift these bounds for all safety properties of the
runs; the liveness properties rest on them.

Deadlock is checked where the system may not stop: in the stock runs, where
the end of all tasks is a stuttering action (`AllAnswered`), and in
`prepared_queries`. `CHECK_DEADLOCK FALSE` is set where the model ends by rights:
the process exits (`task_queue`, `db_startup`), all clients are gone
(`web_server`), the destructor has returned (`trace_writer`), or all tasks,
requests or numbers that the bounds allow are used up (`reports`, `browsing`,
`users`).

## 4. Fairness

* Stock: a task that can take its next step takes it (`WF` of `Progress`):
  workers are threads, the database answers each statement, grants a free lock, and
  detects deadlocks. Breaking connections and new requests are not fair.
* Task queue: threads are scheduled (`WF`); the mutex is granted in the end to
  a thread that finds it free again and again (`SF` of `Emplace`). Requests,
  the operator's stop and spurious wakeups are not fair.
* Web server: handlers return, operations end if only by the timer of 30 s, and
  a task calls back, which `EveryTaskIsAnswered` shows of the queue. A loop
  whose accept can complete goes on (`WF` of `Accept`). Clients need not come,
  and accepts need not fail.
* Prepared queries: the pool's mutex (`Grab`, `Finish`) and the registry's
  (`BeginRefresh`) are granted in the end to a client that finds them free
  again and again (`SF`); an attempt to connect ends, one way or the other, and
  so does a statement (`WF`). No client has to ask or to execute anything.
* Startup: the main thread goes on while it can (`WF`).
* Tracing: threads are scheduled (`WF`); the mutex is granted in the end
  (`SF` of `Queue`); a timeout of the clock passes however often the writer is woken
  before it (`SF` of `Timeout`). Tracing and the end of the program are not
  fair.
* Reports, browsing and users state safety only: a task there is one of the
  queue's, which is shown to answer.

## 5. Proofs

All theorems hold for any values of the constants that satisfy the named
assumptions, which TLC evaluates in every run:

| Assumption | What it asks of the constants, and why the code grants it |
|---|---|
| `DataAssumption`, `FailureAssumption` | well-formed requests; stocks at the beginning that the column and the operations can hold |
| `TaskQueueAssumption`, `SessionAssumption`, `LoopsAssumption` | at least one worker and io thread, finitely many loops, as `main` starts them; some of the sessions are TLS |
| `PoolAssumption`, `QueriesAssumption`, `StartupAssumption` | numbers for quota and attempts; the master database and one other, either of which the settings may name; a setting left out is not a number |
| `FormAssumption` | queries that `Equals` takes for equal join their conditions and order their rows alike: every group the tasks build is AND, every order ascending |
| `ReportsAssumption`, `PathAssumption` | at least one attempt and one tick to a second; a period's bounds are an hour, a minute and a second; what stands for "no task", "no path" and "no tweak" is none |
| `TraceAssumption`, `UsersAssumption` | numbers where numbers are meant |
| `ReadingAssumption`, `BrowsingAssumption` | an `int32_t` has a positive half; batches and pages are positive and fit into it (5 and 6 in the client, against 2^31) |
| `TablesAssumption` | the tables at the beginning keep their primary keys and the foreign key of `Invoice_Item`, and their numbers come from the sequences |
| `AskedAssumption` | null and a field left out are no ids |

| Module | Theorems |
|---|---|
| `StockProofs` | `TypeCorrect`, `Invariance`, `Backed`, `NoClash`, `DriftExplained`; `Atomicity`: `StockTransactions` implements `StockLedger` |
| `TaskQueueProofs` | `Invariance`, `EachOnce`, `NoSleepThroughWork`, `StopsIdle` |
| `SessionProofs` | `Invariance`, `NeverTwoAtATime`, `RightHead`, `Implements` (`Exchange`); `LoopsInvariance`, `CounterStopsNone`, `ServerRunsSessions`, `ServedInOrder` for the web server |
| `ConnectionPoolProofs` | `Invariance`, `NeverShared`, `BooksBalance`, `NoNeedlessBurst` for the pool; `StartInvariance`, `NothingStray`, `ConfiguredQuota`, `ValidServed`, `OthersUntouched` for the startup; `QueriesInvariance`, `StillExclusive`, `OwnQuery`, `FailuresExplained` for the prepared queries |
| `ReportsProofs` | `Invariance`, `OwnFileEach`, `SuccessIsWritten`, `ReasonedLack`, `PrintedPeriod` |
| `TraceWriterProofs` | `Invariance`, `WrittenOnceInOrder`, `NothingLeftBehind` |
| `BrowsingProofs` | `Invariance`, `NoneTwice`, `CompleteAtTheEnd`, `LastAskedIsCurrent`, `SizeKeepsItsWord`, `OneStory` |
| `UsersProofs` | `Invariance`, `NamesTheAsker`, `AnswersAreTrue`, `PromisesKept` |

**Stock.** Neither isolation nor `BookedIsBacked` is inductive: they say
nothing about what a running transaction has yet to write. `StockInvariant`
says it, row by row, in terms of the stock that is committed *now* and not of
the snapshot: a row the task has written has the value its request gives the
committed value (`Progressed`), a row still to be written is planned as the
selects saw it (`Plan`), and the view of a row agrees with the committed one unless another task has
committed it since (`stale`). A commit of another task cannot
disturb this, because the rows it wrote are locked against this task
(`Apart`), or become stale for it, and a stale row cannot be written
(conflict). At the commit all rows are written, so that the step is exactly
`StockLedger!Apply`; every other step leaves the committed tables alone. The
32-bit column gives `TypeOK`, the foreign key on products `NewItemsNeverClash`.

That a row parts from its operations only by an overdraw
(`DriftOnlyByOverdraw`) says how `ReduceRow` and `Booking` differ. By the
invariant the commit publishes each row as its request changes the committed
one; the lemma behind `DriftExplained` compares that, row by row, with what the
triggers book, and they differ only where a row that was asked for more than it
holds is deleted.

**Task queue.** `IInv` adds to the three properties where each thread can be
(`Places`), what a worker holds (`Holding`), that a worker about to sleep holds
the mutex over an empty queue (`BlockedOnEmpty`), which is what makes a lost
wakeup of `AddTask` impossible, and that requests end before main does
(`InOrder`), which is what makes `StopFindsNoWork` true.

**Sessions.** `IInv` is a list of phases; in each, the session owes no or one
response. The three properties follow from the phase, and the refinement maps
reading to `Receive`, a finished write to `Respond`, and the end to `Drop`.
`ServerRunsSessions` shows that a behaviour of the web server is one of the
sessions, so that all three hold behind the accept loops (`ServedInOrder`).
`LoopsIInv` balances the loops' counter: it is below zero by the loops that
have taken it down and not yet put it back, and therefore never positive when
a loop looks at it. Loops that overlap may see each other's decrements, but
none that stops them.

**Pool.** `IInv` adds to the properties that a client has a connection just
while it uses one and that the client inside `CreateConnection` found the free
list empty (`Holding`). The proof of the balance needs the cardinality of the
clients with a connection, which changes by one in `Connected`, `TakeFree` and
`Return`. It is stated for any quota q (`PoolIInv`), since the startup changes
the quota.

**Startup.** `StartIInv` says at each stage of the main thread which quota the
pool has been told (`QuotaSoFar`), that nobody else uses the pool before the
program serves (`OnlyBoot`), where main itself stands in the pool
(`BootInStep`), where the options point (`Pointing`), and that the open
connections lead there (`Leading`). The steps of the pool keep `PoolIInv` for the quota of the
moment. `SetSettings` changes the quota and the options only while no connection is in use,
which `OnlyBoot` and `BootInStep` grant: all connections are in the free list
then, which it drops when the database changes, so that nothing stray can
survive it.

**Prepared queries.** Every step is a step of the pool or leaves it alone, so
that the pool's invariant carries over as it is. `QueriesIInv` adds where an
entry is and what it holds there (`Entries`), that a number names one query
(`Registered`), and the heart of it (`CaughtUp`): each query up to the
last one a connection has noted is prepared on it, or is about to be, or
the connection is poisoned. A step on one connection cannot disturb another's,
since connections are not shared (`Exclusive`).

**Tracing.** `IInv` is `OnceInOrder` with the places of the writer and the
owner (`Ending`): once the last owner has gone nobody collects a message, since each
collector owns the tracer, so that the queue the writer finds empty stays
empty.

**Reports.** `IInv` says how far a task's place lets it have got with path,
file and id (`InPlace`), that a row in the table is the one its task
committed (`Results`), and that the tasks with an open stream or a row have a
path each unless it is marked `clashed` (`OwnFiles`). The mark is set by two
tasks that both looked for a file before either opened it; the proof
shows that there is no other way to share one. `Written` follows a file from
its first block, for every task but those in `bad`: a write that fails takes
nothing from the file of another task (`Private`), which is why the success of one report
does not depend on the streams of the others. `Snapshots` follows what a task
knows of the operations: what was booked when it began is in its snapshot, and once a report by period
has selected, it shows what is printed within its bounds. That the conversion
of dates keeps their order, up to the fraction of the provider, is a lemma.

**Reading and browsing.** `TasksAgree` is proved from the tables' keys alone
(`Drawn`): a list enumerates the rows that its filters leave, each exactly
once, its size counts them, and there is only one way to put them in the order of a
key (`OneOrder`), so that reading row by row gives the list. The keys hold
because only whoever has drawn a number inserts it.

The list that is loaded in batches is kept by `OneLoad`: as long as no two
loads overlap there is at most one on its way, for what follows the rows
that are shown, and the rows, with those of its answer, are *in order*
(`InOrder`). They are all operations up to the last one shown except the late ones, and no
more than these. An operation that is committed shifts rows behind
it only if it comes before one that was read, which is what makes it late. An
answer with less than a batch comes from the end of the list (`SaysEnd`), as
long as the offset can be said in an `int32_t`: one beyond half of its range
turns negative and is refused, which the client cannot tell from the end.
That is why `EndIsTheEnd` and `PagesWithinSizeAreFound` stop there.

The pages of a warehouse are kept by `OnPages`: the size is asked for once and
before any page, the last request that was sent is for the current page, and as long
as no product is taken the last page begins before the end of what the warehouse
holds (`Stored`), because the count over the items and the join with the
products agree.

**Users.** `IInv` says of the tables that numbers and logins name one user
each (`Numbers`), of rows, tokens and running tasks that they name the person
they come from (`ComesFrom`, `Owners`, `Sound`), and of two inserts that
they have neither number nor login in common (`Apart`). Lemmas reduce a step
of one task to that task's own record (`Local`), to what grows with the tables
(`Onward`), and to the answers (`Answers`). A restart with new tables raises
`era`, which makes everything an old token says vacuous.

Only model-checked: all liveness properties (`EveryTaskAnswered`,
`EveryTaskIsAnswered`, `EveryRequestEnds`, `EveryClientIsTaken`,
`EveryUseEnds`, `StartupEnds`, `EveryMessageComesOut`, `DestructorReturns`).
They need fairness and ENABLED, which are out of the prover's reach. That the
deadlock of the stock runs and of `prepared_queries` cannot happen is
model-checked too. The inductive invariants of all parts have been checked by
TLC on the instances of section 3 before they were proved.

## 6. Disagreements with the documentation

Each is a run whose counterexample is an execution of the code.

| Run | What the code does |
|---|---|
| `stock_move_finding` | A move of more than the source holds is accepted: the source row is deleted and the target gets the full count, so that goods appear. |
| `stock_retry_finding` | The retry after a serialization conflict begins a transaction while the failed one is alive, which throws: `ERROR` without a retry. |
| `task_queue_hang_finding` | `m_stop` is set and notified without the mutex: a worker about to sleep misses it and `join` waits for ever. |

## 7. Seen, and not checked by a run

The models follow the code in these points; most are single wrong lines, for
which a run would show nothing that reading them does not.

* Tasks: a create of existing products alone builds an insert without values,
  which throws: `ERROR` (`products_create.cpp:155`). The list of users prints
  the name as the login (`get_user_list.cpp:52`). `GetUserInfo` answers `NOT_FOUND` when its select failed.
  `CreateUser` answers `VIOLATION` where `authorizer.h:45` says `DUPLICATE`.
  A warehouse without items cannot be reported: `ERROR` where a period without
  operations is `NOT_FOUND`.
* Queries: a prepare that fails leaves its connection without the older queries
  for good (`connection.cpp:34`), where `query_manager.h:27` speaks of supporting them.
  `GroupCondition::Equals` does not compare how the group's conditions are
  joined, nor `SelectOptions::Equals` the direction of an order, both of which are
  printed: two queries that differ only there would share a statement. None do today, as
  `FormAssumption` states. A list whose filter cannot be prepared is `ERROR` the
  first time on a connection and `NOT_FOUND` afterwards.
  Limit, offset and the warehouse's id are part of some
  texts, so that the registry grows with each page. "!=" is missing in the
  conversion of filters. `Warehouse::SelectEntry` puts the description into the
  location (`warehouse.h:110`).
* Reports: the counts by period are overwritten by a product's last operation,
  and the operations are those of all warehouses; an operation keeps a
  reference to its consumer (`operation.h:75`). `std::gmtime` has one buffer for
  all threads. Two reports of one second can share a file
  (`document_manager.h:47`), which `clashed` marks. A report by period whose
  commit was in doubt keeps an empty file. A write that fails on the report's
  stream, on a full disk for example, is not noticed
  (`reports_current.cpp:307`, `reports_by_period.cpp:395`): the answer is
  `SUCCESS`, and the file is truncated or empty. `bad` marks such a task, and
  `AnsweredIsWritten` and `UnwrittenForAReason` name it as a reason of its own.
* Dates: `FromIsoTimeString` refuses minute 0 and second 0, which
  `test_date_iso.cpp` uses, and takes minute 60 and second 60.
* Threads: the last task to end may own the manager, whose `noexcept` destructor then
  joins its own thread (`workers_manager.h:29`). The `io_context` is gone before the tasks that answer
  through it (`main.cpp:55`). A loop whose accept fails is not replaced.
* Pool: a connection that broke returns to the free list and is handed out
  next. `m_busy` is documented as the count of the connections taken and never
  changes from 0.
* Settings: a database that does not pass the check is dropped and remade
  whatever `shouldReinitializeDb` says, which nothing reads
  (`db_manager.h:28`). `m_totalRunnedTasksCount` of the listener never
  changes, and `AddTasks` would lock a mutex its caller holds; only the
  constructor's call is reachable.
* Web client: the answer for a page that was left may arrive last and be shown
  under the number of the current one (`Warehouse.js`), which is why
  `ShownPageIsCurrent` speaks of the last load sent. A failed load and an offset
  beyond 2^31 are answered like the end of a list and taken for it.

## 8. What is not modelled

* Text: SQL, JSON, HTTP fields, HTML of reports, trace messages. Errors in
  them appear as one failing step.
* PostgreSQL, boost and the C++ library: modelled by what the code relies on.
* Settings, configuration files, environment, service locator: constant once
  the server runs; `DbStartup` starts from all their outcomes. New settings
  for a running server or tracer, which nothing in the program gives.
* The instrumental library: macros, result codes and conversions. What its
  checks throw is an error path of the modules.
* The calendar and time zones of dates; the encoding and signature of tokens
  and the hashing of passwords.
* The rest of the web client: forms and the login send one request and
  show its answer; the server allows for any client.
* Containers, build and tests.

## 9. Plan

Done, in this order, the most important behaviour first: stock; task queue;
connection pool; startup; sessions; reports; prepared queries; tracing; the
accept loops composed with the sessions; reading and browsing; users. Every
safety property of the runs is proved.

What a continuation would do:

1. Compose `Session` with `TaskQueue`, which replaces the session's fairness of
   `Callback` by the queue's and shows the end of `main` with sessions alive,
   and prove that the composition implements both, as `ServerRunsSessions` does
   for the accept loops.
2. State what a task queue and a pool promise as specifications of their own,
   like `StockLedger` and `Exchange`, and prove the refinements.
3. Model the validation of settings (`services/config_reader`), from whose
   outcomes `DbStartup` starts.
