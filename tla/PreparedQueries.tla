--------------------------- MODULE PreparedQueries ---------------------------
(***************************************************************************)
(* The registry of queries (query_manager.cpp) and the statements that     *)
(* connections prepare for it (connection.cpp, transaction_entry_factory,  *)
(* the entries that execute a query), on top of the pool of connections.   *)
(*                                                                         *)
(* A client that has a connection opens a transaction on it and makes an   *)
(* entry: the query gets its id under m_queriesMutex, the connection       *)
(* catches up with the registry, which takes that mutex again and keeps it *)
(* while the database prepares, and the entry executes the statement with  *)
(* that id and its own parameters.  Several entries of one transaction are *)
(* as many transactions here; the free list hands out the last returned.   *)
(*                                                                         *)
(* A query is [type, table, filter, form, params]: the filter lists the    *)
(* columns of its group of conditions, or is NoFilter; the form is how the *)
(* group is joined (AND, OR) and the rows are ordered (ASC, DESC); the     *)
(* params are what the placeholders stand for.  Columns, joins and pages   *)
(* belong to the text just as the table does, and are left out.            *)
(***************************************************************************)
EXTENDS ConnectionPool

CONSTANTS Queries, NoQuery, NoFilter,
          ColumnsOf,  \* the columns of each table
          MaxId       \* bound: ids given out

ASSUME QueriesAssumption == NoQuery \notin Queries /\ MaxId \in Nat

VARIABLES tracing,   \* TRACE_INF prints what it is given
          stored,    \* m_supportedQueries: [id, options]
          nextId,    \* m_currentId
          locked,    \* who holds m_queriesMutex while preparing
          last,      \* m_lastSupportedQuery of each connection
          prepared,  \* the statements prepared on each connection: [id, options]
          poisoned,  \* connections on which a prepare has failed (history)
          step,      \* where each client's entry is
          want,      \* the query of that entry
          id,        \* its id
          todo,      \* what the client's refresh has still to prepare
          ran        \* the statement executed and its params, or NoQuery

registry == <<tracing, stored, nextId>>
statements == <<last, prepared, poisoned>>
entry == <<step, want, id, todo, ran>>
allVars == <<pool, registry, locked, statements, entry>>

\* What SerializeParametrized prints: everything but the values.
Options(q) == [type |-> q.type, table |-> q.table, filter |-> q.filter, form |-> q.form]

\* SerializeParametrized throws for a group without conditions ...
Serializable(o) == o.filter # <<>>

\* ... and the database refuses columns that the table does not have.
Preparable(o) ==
  o.filter # NoFilter => ToSet(o.filter) \subseteq ColumnsOf[o.table]

Good(o) == Serializable(o) /\ Preparable(o)

Statements == {Options(q) : q \in Queries}
Ids == 1 .. MaxId
Supported == [id : Ids, options : Statements]
Runs == {[options |-> Options(q), params |-> q.params] : q \in Queries}

\* Every variable has its type (the members of QueryManager and Connection).
QueriesTypeOK ==
  /\ tracing \in BOOLEAN
  /\ stored \subseteq Supported /\ nextId \in 1 .. MaxId + 1
  /\ locked \in Clients \cup {Nobody}
  /\ last \in [Conns -> 0 .. MaxId]
  /\ prepared \in [Conns -> SUBSET Supported] /\ poisoned \subseteq Conns
  /\ step \in [Clients -> {"none", "check", "refresh", "execute", "failed"}]
  /\ want \in [Clients -> Queries \cup {NoQuery}]
  /\ id \in [Clients -> 0 .. MaxId]
  /\ todo \in [Clients -> SUBSET Supported]
  /\ ran \in [Clients -> Runs \cup {NoQuery}]

QueriesInit ==
  /\ Init
  /\ tracing \in BOOLEAN /\ stored = {} /\ nextId = 1 /\ locked = Nobody
  /\ last = [k \in Conns |-> 0] /\ prepared = [k \in Conns |-> {}] /\ poisoned = {}
  /\ step = [c \in Clients |-> "none"] /\ want = [c \in Clients |-> NoQuery]
  /\ id = [c \in Clients |-> 0] /\ todo = [c \in Clients |-> {}]
  /\ ran = [c \in Clients |-> NoQuery]

-----------------------------------------------------------------------------
outside == <<registry, locked, statements, entry>>

\* GetConnection: the call, the wait for the pool's mutex, and what is done
\* under it.
Call(c) == Ask(c) /\ UNCHANGED outside
Grab(c) == (TakeFree(c) \/ BeginCreate(c)) /\ UNCHANGED outside
Settle(c) == (ConnectFails(c) \/ GiveUp(c) \/ Connected(c)) /\ UNCHANGED outside

\* The transaction ends, or an exception has ended it, and with it the proxy.
\* A connection that is not kept dies with what was prepared on it.
Finish(c) ==
  LET k == proxy[c]
  IN  /\ step[c] \in {"none", "failed"} /\ Return(c)
      /\ step' = [step EXCEPT ![c] = "none"] /\ want' = [want EXCEPT ![c] = NoQuery]
      /\ ran' = [ran EXCEPT ![c] = NoQuery]
      /\ IF toDelete > 0
         THEN /\ last' = [last EXCEPT ![k] = 0] /\ prepared' = [prepared EXCEPT ![k] = {}]
              /\ poisoned' = poisoned \ {k}
         ELSE UNCHANGED statements
      /\ UNCHANGED <<id, todo, registry, locked>>

-----------------------------------------------------------------------------
Entered(c, place) == step' = [step EXCEPT ![c] = place]

\* An exception leaves the client's entry.
Throw(c) == Entered(c, "failed") /\ id' = [id EXCEPT ![c] = 0]

\* The transaction is open and its entry not made.
Ready(c) == pc[c] = "using" /\ step[c] = "none" /\ ran[c] = NoQuery

\* A query that is not cached is serialized on the spot and executed as it is.
ExecuteRaw(c, q) ==
  /\ Ready(c) /\ want' = [want EXCEPT ![c] = q]
  /\ IF Good(Options(q))
     THEN /\ ran' = [ran EXCEPT ![c] = [options |-> Options(q), params |-> q.params]]
          /\ UNCHANGED <<step, id>>
     ELSE Throw(c) /\ UNCHANGED ran
  /\ UNCHANGED <<pool, registry, locked, statements, todo>>

\* SelectOptions::Equals and GroupCondition::Equals compare all that is printed
\* but the form ...
Equals(o, p) == o.table = p.table /\ o.filter = p.filter

\* ... of which the queries that the tasks build today have one: groups are AND,
\* and orders ascending.
ASSUME FormAssumption ==
  \A p, q \in Queries :
    (p.type = q.type /\ Equals(Options(p), Options(q))) => p.form = q.form

\* The stored query, of the type asked for, that is equal.
Known(q) == {s \in stored : s.options.type = q.type /\ Equals(s.options, Options(q))}

\* Mistaken: the id is not counted up.
WrongSupport(c, q) ==
  /\ Ready(c) /\ locked = Nobody
  /\ Known(q) = {}
  /\ want' = [want EXCEPT ![c] = q]
  /\ stored' = stored \cup {[id |-> nextId, options |-> Options(q)]}
  /\ id' = [id EXCEPT ![c] = nextId] /\ Entered(c, "check")
  /\ UNCHANGED <<pool, tracing, nextId, locked, statements, todo, ran>>

\* GetOrSupportQueryId of a query that is not known yet.  Only a trace
\* statement serializes it there: if that throws, its id is lost.
Support(c, q) ==
  /\ Ready(c) /\ locked = Nobody
  /\ Known(q) = {} /\ nextId <= MaxId /\ nextId' = nextId + 1
  /\ want' = [want EXCEPT ![c] = q]
  /\ IF tracing /\ ~Serializable(Options(q))
     THEN Throw(c) /\ UNCHANGED stored
     ELSE /\ stored' = stored \cup {[id |-> nextId, options |-> Options(q)]}
          /\ id' = [id EXCEPT ![c] = nextId] /\ Entered(c, "check")
  /\ UNCHANGED <<pool, tracing, locked, statements, todo, ran>>

\* ... and of one that is.
Reuse(c, q) ==
  /\ Ready(c) /\ locked = Nobody
  /\ want' = [want EXCEPT ![c] = q]
  /\ \E s \in Known(q) : id' = [id EXCEPT ![c] = s.id]
  /\ Entered(c, "check")
  /\ UNCHANGED <<pool, registry, locked, statements, todo, ran>>

\* The connection knows of the id ...
UpToDate(c) ==
  /\ step[c] = "check" /\ last[proxy[c]] >= id[c] /\ Entered(c, "execute")
  /\ UNCHANGED <<pool, registry, locked, statements, want, id, todo, ran>>

\* Mistaken: only the newest query is prepared.
WrongNewer(k) == {s \in stored : \A o \in stored : o.id <= s.id}

\* What was stored since the connection last caught up.
Newer(k) == {s \in stored : s.id > last[k]}

\* The iterators run through the queries of all types, the newest first.
Newest(set) == {s \in set : \A o \in set : o.id <= s.id}

\* ... or RefreshSupportedQueries takes the mutex and notes the newest query
\* as supported, before it has prepared any.
BeginRefresh(c) ==
  LET k == proxy[c]
  IN  /\ step[c] = "check" /\ last[k] < id[c] /\ locked = Nobody
      /\ locked' = c /\ todo' = [todo EXCEPT ![c] = Newer(k)]
      /\ \E s \in Newest(Newer(k)) : last' = [last EXCEPT ![k] = s.id]
      /\ Entered(c, "refresh")
      /\ UNCHANGED <<pool, registry, prepared, poisoned, want, id, ran>>

\* Mistaken: the exception leaves the mutex locked.
WrongPrepareFails(c) ==
  LET k == proxy[c]
  IN  /\ step[c] = "refresh"
      /\ \E s \in Newest(todo[c]) : ~Good(s.options)
      /\ Throw(c) /\ poisoned' = poisoned \cup {k}
      /\ todo' = [todo EXCEPT ![c] = {}]
      /\ UNCHANGED <<pool, registry, locked, last, prepared, want, ran>>

\* The newest query that is left cannot be serialized, or is refused: neither
\* it nor the older ones will ever be prepared on this connection.
PrepareFails(c) ==
  LET k == proxy[c]
  IN  /\ step[c] = "refresh"
      /\ \E s \in Newest(todo[c]) : ~Good(s.options)
      /\ Throw(c) /\ poisoned' = poisoned \cup {k}
      /\ locked' = Nobody /\ todo' = [todo EXCEPT ![c] = {}]
      /\ UNCHANGED <<pool, registry, last, prepared, want, ran>>

\* SupportQuery: the newest one that is left is prepared.
Prepare(c) ==
  LET k == proxy[c]
  IN  /\ step[c] = "refresh"
      /\ \E s \in Newest(todo[c]) :
           /\ Good(s.options)
           /\ prepared' = [prepared EXCEPT ![k] = @ \cup {s}]
           /\ todo' = [todo EXCEPT ![c] = @ \ {s}]
      /\ UNCHANGED <<pool, registry, locked, last, poisoned, step, want, id, ran>>

\* All are: the lock is disposed of.
EndRefresh(c) ==
  /\ step[c] = "refresh" /\ todo[c] = {} /\ locked' = Nobody /\ Entered(c, "execute")
  /\ UNCHANGED <<pool, registry, statements, want, id, todo, ran>>

\* exec_prepared of the id, with the client's own params.
ExecuteCached(c) ==
  LET own == {s \in prepared[proxy[c]] : s.id = id[c]}
  IN  /\ step[c] = "execute"
      /\ \/ own = {} /\ Throw(c) /\ UNCHANGED ran
         \/ /\ \E s \in own :
                 ran' = [ran EXCEPT ![c] = [options |-> s.options, params |-> want[c].params]]
            /\ Entered(c, "none") /\ id' = [id EXCEPT ![c] = 0]
      /\ UNCHANGED <<pool, registry, locked, statements, want, todo>>

Refresh(c) == PrepareFails(c) \/ Prepare(c) \/ EndRefresh(c)

QueriesNext ==
  \E c \in Clients :
    \/ Call(c) \/ Grab(c) \/ Settle(c) \/ Finish(c)
    \/ UpToDate(c) \/ BeginRefresh(c) \/ Refresh(c) \/ ExecuteCached(c)
    \/ \E q \in Queries : ExecuteRaw(c, q) \/ Support(c, q) \/ Reuse(c, q)

\* An attempt to connect ends, an entry comes to its end, and a transaction to
\* its own; the two mutexes are granted in the end to a client that finds them
\* free again and again.
QueriesFairness ==
  \A c \in Clients :
    /\ SF_allVars(Grab(c)) /\ WF_allVars(Settle(c))
    /\ WF_allVars(UpToDate(c) \/ Refresh(c) \/ ExecuteCached(c))
    /\ SF_allVars(BeginRefresh(c)) /\ SF_allVars(Finish(c))

QueriesSpec == QueriesInit /\ [][QueriesNext]_allVars
FairQueriesSpec == QueriesSpec /\ QueriesFairness

-----------------------------------------------------------------------------
\* A client that executes a statement by its id executes its own query, with
\* its own values, although ids are given out by one client and statements
\* prepared by others, queries of other values share an id, connections change
\* hands and some ids are never prepared.
OwnStatement ==
  \A c \in Clients : ran[c] # NoQuery =>
    ran[c] = [options |-> Options(want[c]), params |-> want[c].params]

\* An entry fails only when its own query is bad, or on a connection on which
\* a prepare has failed before.
FailsForAReason ==
  \A c \in Clients : step[c] = "failed" => ~Good(Options(want[c])) \/ proxy[c] \in poisoned

\* Whoever asks for a connection gives it back in the end, or is refused one:
\* nobody keeps one of the two mutexes from the others, although the pool is
\* asleep between its attempts, and the registry waits for the database, with
\* theirs held.
EveryUseEnds ==
  \A c \in Clients : pc[c] \in {"asking", "using"} ~> pc[c] \in {"idle", "refused"}

-----------------------------------------------------------------------------
\* What the proofs need besides: entries are under way only on a connection,
\* the mutex is held just while preparing, and what a connection has prepared
\* or skipped is what was stored up to the last query it has noted.
Entries ==
  \A c \in Clients :
    /\ pc[c] # "using" => step[c] = "none" /\ want[c] = NoQuery /\ ran[c] = NoQuery
    /\ step[c] = "refresh" <=> locked = c
    /\ step[c] # "refresh" => todo[c] = {}
    /\ step[c] \in {"check", "refresh", "execute"} =>
         want[c] # NoQuery /\ [id |-> id[c], options |-> Options(want[c])] \in stored
    /\ step[c] \in {"refresh", "execute"} => id[c] <= last[proxy[c]]
Registered ==
  /\ \A s \in stored : s.id < nextId
  /\ \A s, o \in stored : s.id = o.id => s = o
  /\ \A k \in Conns : prepared[k] \subseteq stored /\ last[k] < nextId
  /\ \A c \in Clients : todo[c] \subseteq stored
CaughtUp ==
  \A k \in Conns : \A s \in stored :
    s.id <= last[k] =>
      k \in poisoned \/ s \in prepared[k] \/ \E c \in Taken : proxy[c] = k /\ s \in todo[c]
QueriesIInv == QueriesTypeOK /\ Entries /\ Registered /\ CaughtUp /\ OwnStatement /\ FailsForAReason
=============================================================================
