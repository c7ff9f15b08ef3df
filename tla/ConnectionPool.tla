--------------------------- MODULE ConnectionPool ---------------------------
(***************************************************************************)
(* The pool of database connections (connection_pool.cpp).  A client is a  *)
(* thread that opens a transaction: a task worker, or an io thread that    *)
(* authenticates a request.  It holds a ConnectionProxy while it uses a    *)
(* connection; the proxy's destructor gives the connection back.           *)
(*                                                                         *)
(* Get and Return run under m_connectionMutex.  CreateConnection runs      *)
(* under it too, and sleeps between its attempts, so it is split: while    *)
(* `creating' is a client, that client holds the mutex.                    *)
(*                                                                         *)
(* SetSettings is an operator here and no step of this module: the code    *)
(* calls it only while the accessor is constructed (accessor.cpp:42,       *)
(* db_manager.cpp:149-178), which module DbStartup models.                 *)
(***************************************************************************)
EXTENDS Integers, FiniteSets, SequencesExt

CONSTANTS Clients,     \* threads that use the pool
          Nobody,      \* no client
          Conns,       \* identities of connections, reused once closed
          NoConn,      \* a null unique_ptr<IConnection>
          Databases,   \* what the connection options can name
          Quota,       \* the connection count the pool is set to
          Attempts     \* m_connectionAttempts

ASSUME PoolAssumption ==
  /\ IsFiniteSet(Clients) /\ Nobody \notin Clients
  /\ NoConn \notin Conns
  /\ Quota \in Nat
  /\ Attempts \in Nat \ {0}

VARIABLES free,      \* m_freeConnections; the back is the end
          toCreate,  \* m_toCreate
          toDelete,  \* m_toDelete
          busy,      \* m_busy
          options,   \* the database m_connectionOptions names
          dbOf,      \* the database each connection was opened to
          proxy,     \* the connection in each client's ConnectionProxy
          pc,        \* where each client is
          creating,  \* the client inside CreateConnection
          attempt    \* its failed attempts so far

counts == <<toCreate, toDelete, busy>>
pool == <<free, toCreate, toDelete, busy, options, dbOf, proxy, pc, creating, attempt>>

Taken == {c \in Clients : proxy[c] # NoConn}
Open == ToSet(free) \cup {proxy[c] : c \in Taken}

\* Every variable has its type (the members of ConnectionPool).
TypeOK ==
  /\ free \in Seq(Conns)
  /\ toCreate \in Nat /\ toDelete \in Nat /\ busy \in Nat
  /\ options \in Databases
  /\ dbOf \in [Conns -> Databases]
  /\ proxy \in [Clients -> Conns \cup {NoConn}]
  /\ pc \in [Clients -> {"idle", "asking", "using", "refused"}]
  /\ creating \in Clients \cup {Nobody}
  /\ attempt \in 0 .. Attempts - 1

\* A pool with nothing opened yet.
Fresh(count) ==
  /\ free = <<>>
  /\ toCreate = count /\ toDelete = 0 /\ busy = 0
  /\ options \in Databases /\ dbOf = [k \in Conns |-> options]
  /\ proxy = [c \in Clients |-> NoConn]
  /\ pc = [c \in Clients |-> "idle"]
  /\ creating = Nobody /\ attempt = 0

Init == Fresh(Quota)

-----------------------------------------------------------------------------
\* SetConnectionsCount on a free list f and k connections to create: grow
\* the number to create, or cut it, then the free list, then what returns.
Resize(f, k, count) ==
  LET diff == count - (Len(f) + busy + k)
      cut == IF diff < 0 THEN -diff ELSE 0
      notCreated == IF cut < k THEN cut ELSE k
      dropped == IF cut - notCreated < Len(f) THEN cut - notCreated ELSE Len(f)
  IN  [free |-> SubSeq(f, 1, Len(f) - dropped),
       toCreate |-> IF diff > 0 THEN k + diff ELSE k - notCreated,
       toDelete |-> toDelete + cut - notCreated - dropped]

\* Mistaken: new options drop the free connections and forget that they can
\* be created.
WrongSetSettings(changed, db, counted, count) ==
  LET f == IF changed THEN <<>> ELSE free
      sized == IF counted THEN Resize(f, toCreate, count)
               ELSE [free |-> f, toCreate |-> toCreate, toDelete |-> toDelete]
  IN  /\ creating = Nobody
      /\ free' = sized.free
      /\ toCreate' = sized.toCreate
      /\ toDelete' = sized.toDelete
      /\ options' = IF changed THEN db ELSE options
      /\ UNCHANGED <<busy, dbOf, proxy, pc, creating, attempt>>

\* Mistaken: new options keep the free connections.
KeepsFree(changed, db, counted, count) ==
  LET sized == IF counted THEN Resize(free, toCreate, count)
               ELSE [free |-> free, toCreate |-> toCreate, toDelete |-> toDelete]
  IN  /\ creating = Nobody
      /\ free' = sized.free
      /\ toCreate' = sized.toCreate
      /\ toDelete' = sized.toDelete
      /\ options' = IF changed THEN db ELSE options
      /\ UNCHANGED <<busy, dbOf, proxy, pc, creating, attempt>>

\* SetSettings: a new database name (when changed) drops the free connections
\* and counts them as not created; then the count is set (when given).
SetSettings(changed, db, counted, count) ==
  LET f == IF changed THEN <<>> ELSE free
      k == IF changed THEN toCreate + Len(free) ELSE toCreate
      sized == IF counted THEN Resize(f, k, count)
               ELSE [free |-> f, toCreate |-> k, toDelete |-> toDelete]
  IN  /\ creating = Nobody
      /\ free' = sized.free
      /\ toCreate' = sized.toCreate
      /\ toDelete' = sized.toDelete
      /\ options' = IF changed THEN db ELSE options
      /\ UNCHANGED <<busy, dbOf, proxy, pc, creating, attempt>>

-----------------------------------------------------------------------------
\* A client calls GetConnection, again after a failure if it likes.
Ask(c) ==
  /\ pc[c] \in {"idle", "refused"}
  /\ pc' = [pc EXCEPT ![c] = "asking"]
  /\ UNCHANGED <<free, counts, options, dbOf, proxy, creating, attempt>>

\* Mistaken: the connection stays in the list of the free ones.
WrongTakeFree(c) ==
  /\ pc[c] = "asking" /\ creating = Nobody /\ free # <<>>
  /\ proxy' = [proxy EXCEPT ![c] = Last(free)]
  /\ pc' = [pc EXCEPT ![c] = "using"]
  /\ UNCHANGED <<free, counts, options, dbOf, creating, attempt>>

\* There is a free connection: take the one at the back.
TakeFree(c) ==
  /\ pc[c] = "asking" /\ creating = Nobody /\ free # <<>>
  /\ proxy' = [proxy EXCEPT ![c] = Last(free)]
  /\ free' = Front(free)
  /\ pc' = [pc EXCEPT ![c] = "using"]
  /\ UNCHANGED <<counts, options, dbOf, creating, attempt>>

\* There is none: create one, holding the mutex.
BeginCreate(c) ==
  /\ pc[c] = "asking" /\ creating = Nobody /\ free = <<>>
  /\ creating' = c /\ attempt' = 0
  /\ UNCHANGED <<free, counts, options, dbOf, proxy, pc>>

\* An attempt fails; sleep and try again ...
ConnectFails(c) ==
  /\ creating = c /\ attempt + 1 < Attempts
  /\ attempt' = attempt + 1
  /\ UNCHANGED <<free, counts, options, dbOf, proxy, pc, creating>>

\* Mistaken: the exception leaves the mutex locked.
WrongGiveUp(c) ==
  /\ creating = c /\ attempt + 1 = Attempts
  /\ pc' = [pc EXCEPT ![c] = "refused"]
  /\ UNCHANGED <<free, counts, options, dbOf, proxy, creating, attempt>>

\* ... until the last attempt, after which the client gets NO_CONNECTION.
GiveUp(c) ==
  /\ creating = c /\ attempt + 1 = Attempts
  /\ pc' = [pc EXCEPT ![c] = "refused"]
  /\ creating' = Nobody /\ attempt' = 0
  /\ UNCHANGED <<free, counts, options, dbOf, proxy>>

\* Mistaken: a connection over the quota is not noted for deletion.
WrongConnected(c) ==
  /\ creating = c
  /\ \E k \in Conns \ Open :
       /\ proxy' = [proxy EXCEPT ![c] = k]
       /\ dbOf' = [dbOf EXCEPT ![k] = options]
  /\ toCreate' = IF toCreate > 0 THEN toCreate - 1 ELSE 0
  /\ pc' = [pc EXCEPT ![c] = "using"]
  /\ creating' = Nobody /\ attempt' = 0
  /\ UNCHANGED <<free, toDelete, busy, options>>

\* Connected: one of the quota, or one too many, to be abandoned after use.
Connected(c) ==
  /\ creating = c
  /\ \E k \in Conns \ Open :
       /\ proxy' = [proxy EXCEPT ![c] = k]
       /\ dbOf' = [dbOf EXCEPT ![k] = options]
  /\ IF toCreate > 0 THEN toCreate' = toCreate - 1 /\ UNCHANGED toDelete
                     ELSE toDelete' = toDelete + 1 /\ UNCHANGED toCreate
  /\ pc' = [pc EXCEPT ![c] = "using"]
  /\ creating' = Nobody /\ attempt' = 0
  /\ UNCHANGED <<free, busy, options>>

\* The proxy dies: ReturnConnection abandons the connection or keeps it.
Return(c) ==
  /\ pc[c] = "using" /\ creating = Nobody
  /\ IF toDelete > 0
     THEN toDelete' = toDelete - 1 /\ UNCHANGED free
     ELSE free' = Append(free, proxy[c]) /\ UNCHANGED toDelete
  /\ proxy' = [proxy EXCEPT ![c] = NoConn]
  /\ pc' = [pc EXCEPT ![c] = "idle"]
  /\ UNCHANGED <<toCreate, busy, options, dbOf, creating, attempt>>

\* What GetConnection does once called.
Get(c) ==
  TakeFree(c) \/ BeginCreate(c) \/ ConnectFails(c) \/ GiveUp(c) \/ Connected(c)

Next == \E c \in Clients : Ask(c) \/ Get(c) \/ Return(c)

Spec == Init /\ [][Next]_pool

-----------------------------------------------------------------------------
\* Two transactions never share a connection, and a free one is in nobody's
\* hands: every open connection is in exactly one place.
Exclusive ==
  /\ IsInjective(free)
  /\ \A c \in Taken : proxy[c] \notin ToSet(free)
  /\ \A c, d \in Taken : proxy[c] = proxy[d] => c = d

\* The books balance in every state: connections free, to be created and in
\* use make the quota and the ones that will be abandoned, so that once all
\* clients are done the pool is back at its quota, with none left to delete.
Balanced(quota) ==
  /\ Len(free) + toCreate + Cardinality(Taken) = quota + toDelete
  /\ toDelete <= Cardinality(Taken)

QuotaKept == Balanced(Quota)

\* The pool exceeds its quota only when the quota is spent.
BurstOnlyWhenSpent == toDelete > 0 => free = <<>> /\ toCreate = 0

-----------------------------------------------------------------------------
\* What holds besides: a client has a connection just while it uses one, and
\* the one that creates is one that asked.
Holding ==
  \A c \in Clients : /\ pc[c] = "using" <=> proxy[c] # NoConn
                     /\ creating = c => pc[c] = "asking" /\ free = <<>>

\* The inductive invariant of a pool that was given a quota.
PoolIInv(quota) ==
  TypeOK /\ Holding /\ Exclusive /\ Balanced(quota) /\ BurstOnlyWhenSpent

IInv == PoolIInv(Quota)
=============================================================================
