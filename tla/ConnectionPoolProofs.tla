------------------------ MODULE ConnectionPoolProofs ------------------------
(***************************************************************************)
(* The safety of the connection pool, of the startup that configures it    *)
(* and of the queries prepared on its connections, for any number of       *)
(* clients, connections and queries, any quota and any number of attempts. *)
(* IInv is inductive and implies the properties of the pool that TLC       *)
(* checks on small instances.  The steps are shown to keep PoolIInv(q) for *)
(* any quota q, because the startup changes the quota of the pool: in the  *)
(* second part StartIInv, which says at each stage what the pool is set to *)
(* and who may use it, is shown to be inductive in turn.  In the third     *)
(* part a step of PreparedQueries is a step of the pool or leaves it       *)
(* alone, so that what the first shows of the pool holds there too;        *)
(* QueriesIInv is inductive together with it.                              *)
(***************************************************************************)
EXTENDS DbStartup, PreparedQueries, FiniteSetTheorems, TLAPS

USE PoolAssumption

\* What the pool does to a list without duplicates: take the last element,
\* or add one that is not in it.
LEMMA Pop ==
  ASSUME NEW S, NEW s \in Seq(S), s # <<>>, IsInjective(s)
  PROVE  /\ Front(s) \in Seq(S) /\ Last(s) \in S
         /\ Len(Front(s)) = Len(s) - 1
         /\ IsInjective(Front(s))
         /\ Last(s) \in ToSet(s) /\ Last(s) \notin ToSet(Front(s))
         /\ ToSet(Front(s)) \subseteq ToSet(s)
  <1>1. Len(s) \in Nat /\ Len(s) > 0 /\ DOMAIN s = 1 .. Len(s)
    OBVIOUS
  <1>2. /\ Front(s) \in Seq(S) /\ Len(Front(s)) = Len(s) - 1
        /\ \A i \in 1 .. Len(s) - 1 : Front(s)[i] = s[i]
    BY <1>1 DEF Front
  <1>3. DOMAIN Front(s) = 1 .. Len(s) - 1
    BY <1>2
  <1>4. Len(s) \in DOMAIN s /\ 1 .. Len(s) - 1 \subseteq DOMAIN s
        /\ Len(s) \notin 1 .. Len(s) - 1
    BY <1>1
  <1>5. IsInjective(Front(s))
    BY <1>2, <1>3, <1>4 DEF IsInjective
  <1>6. Last(s) \in S /\ Last(s) \in ToSet(s)
    BY <1>1, <1>4 DEF Last, ToSet
  <1>7. Last(s) \notin ToSet(Front(s))
    BY <1>2, <1>3, <1>4 DEF Last, ToSet, IsInjective
  <1>8. ToSet(Front(s)) \subseteq ToSet(s)
    BY <1>2, <1>3, <1>4 DEF ToSet
  <1>9. QED
    BY <1>2, <1>5, <1>6, <1>7, <1>8

LEMMA Push ==
  ASSUME NEW S, NEW s \in Seq(S), NEW e \in S, IsInjective(s), e \notin ToSet(s)
  PROVE  /\ Append(s, e) \in Seq(S)
         /\ Len(Append(s, e)) = Len(s) + 1
         /\ IsInjective(Append(s, e))
         /\ ToSet(Append(s, e)) = ToSet(s) \cup {e}
  <1>1. /\ Append(s, e) \in Seq(S) /\ Len(Append(s, e)) = Len(s) + 1
        /\ DOMAIN Append(s, e) = DOMAIN s \cup {Len(s) + 1}
        /\ Len(s) + 1 \notin DOMAIN s
        /\ \A i \in DOMAIN s : Append(s, e)[i] = s[i]
        /\ Append(s, e)[Len(s) + 1] = e
    OBVIOUS
  <1>2. \A i \in DOMAIN s : s[i] # e
    BY DEF ToSet
  <1>3. IsInjective(Append(s, e))
    BY <1>1, <1>2 DEF IsInjective
  <1>4. ToSet(Append(s, e)) = ToSet(s) \cup {e}
    BY <1>1 DEF ToSet
  <1>5. QED
    BY <1>1, <1>3, <1>4

\* The clients that hold a connection are finitely many.
LEMMA TakenFinite == IsFiniteSet(Taken) /\ Cardinality(Taken) \in Nat
  <1>1. Taken \in SUBSET Clients
    BY DEF Taken
  <1>2. QED
    BY <1>1, FS_Subset, FS_CardinalityType

\* One client more, or one less, holds a connection.
LEMMA Takes ==
  ASSUME TypeOK, NEW c \in Clients, proxy[c] = NoConn, NEW k \in Conns,
         proxy' = [proxy EXCEPT ![c] = k]
  PROVE  /\ Taken' = Taken \cup {c} /\ c \notin Taken
         /\ Cardinality(Taken') = Cardinality(Taken) + 1
  <1>1. Taken' = Taken \cup {c} /\ c \notin Taken
    BY DEF TypeOK, Taken
  <1>2. QED
    BY <1>1, TakenFinite, FS_AddElement

LEMMA GivesBack ==
  ASSUME TypeOK, NEW c \in Clients, proxy[c] # NoConn,
         proxy' = [proxy EXCEPT ![c] = NoConn]
  PROVE  /\ Taken' = Taken \ {c} /\ c \in Taken
         /\ Cardinality(Taken') = Cardinality(Taken) - 1
         /\ Cardinality(Taken') \in Nat
  <1>1. Taken' = Taken \ {c} /\ c \in Taken
    BY DEF TypeOK, Taken
  <1>2. IsFiniteSet(Taken')
    BY <1>1, TakenFinite, FS_RemoveElement
  <1>3. Cardinality(Taken') \in Nat
    BY <1>2, FS_CardinalityType
  <1>4. QED
    BY <1>1, <1>3, TakenFinite, FS_RemoveElement

-----------------------------------------------------------------------------
\* The invariant holds initially.
LEMMA FreshIInv ==
  ASSUME NEW q \in Nat, Fresh(q) PROVE PoolIInv(q)
  <1> USE DEF Fresh
  <1>1. TypeOK
    BY DEF TypeOK
  <1>2. Taken = {}
    BY DEF Taken
  <1>3. Holding
    BY DEF Holding
  <1>4. Exclusive
    BY <1>2 DEF Exclusive, IsInjective
  <1>5. Balanced(q)
    BY <1>2, FS_EmptySet DEF Balanced
  <1>6. BurstOnlyWhenSpent
    BY DEF BurstOnlyWhenSpent
  <1>7. QED
    BY <1>1, <1>3, <1>4, <1>5, <1>6 DEF PoolIInv

\* Steps that move no connection: nobody's proxy and no count changes.
LEMMA StillIInv ==
  ASSUME NEW q \in Nat, PoolIInv(q), TypeOK', Holding', UNCHANGED <<free, counts, proxy>>
  PROVE  PoolIInv(q)'
  <1>1. Taken' = Taken
    BY DEF Taken
  <1>2. Exclusive'
    BY <1>1 DEF PoolIInv, Exclusive
  <1>3. Balanced(q)' /\ BurstOnlyWhenSpent'
    BY <1>1 DEF PoolIInv, Balanced, BurstOnlyWhenSpent, counts
  <1>4. QED
    BY <1>2, <1>3 DEF PoolIInv

LEMMA AskIInv ==
  ASSUME NEW q \in Nat, PoolIInv(q), NEW c \in Clients, Ask(c) PROVE PoolIInv(q)'
  <1>1. TypeOK' /\ Holding'
    BY DEF PoolIInv, TypeOK, Holding, Ask, counts
  <1>2. QED
    BY <1>1, StillIInv DEF Ask

LEMMA BeginCreateIInv ==
  ASSUME NEW q \in Nat, PoolIInv(q), NEW c \in Clients, BeginCreate(c) PROVE PoolIInv(q)'
  <1>1. TypeOK' /\ Holding'
    BY DEF PoolIInv, TypeOK, Holding, BeginCreate, counts
  <1>2. QED
    BY <1>1, StillIInv DEF BeginCreate

LEMMA ConnectFailsIInv ==
  ASSUME NEW q \in Nat, PoolIInv(q), NEW c \in Clients, ConnectFails(c) PROVE PoolIInv(q)'
  <1>1. TypeOK' /\ Holding'
    BY DEF PoolIInv, TypeOK, Holding, ConnectFails, counts
  <1>2. QED
    BY <1>1, StillIInv DEF ConnectFails

LEMMA GiveUpIInv ==
  ASSUME NEW q \in Nat, PoolIInv(q), NEW c \in Clients, GiveUp(c) PROVE PoolIInv(q)'
  <1>1. TypeOK' /\ Holding'
    BY DEF PoolIInv, TypeOK, Holding, GiveUp, counts
  <1>2. QED
    BY <1>1, StillIInv DEF GiveUp

LEMMA TakeFreeIInv ==
  ASSUME NEW q \in Nat, PoolIInv(q), NEW c \in Clients, TakeFree(c) PROVE PoolIInv(q)'
  <1> USE DEF PoolIInv
  <1> DEFINE k == Last(free)
  <1>1. /\ free \in Seq(Conns) /\ free # <<>> /\ IsInjective(free)
        /\ proxy[c] = NoConn
    BY DEF TypeOK, Exclusive, Holding, TakeFree
  <1>2. /\ Front(free) \in Seq(Conns) /\ k \in Conns
        /\ Len(Front(free)) = Len(free) - 1 /\ IsInjective(Front(free))
        /\ k \in ToSet(free) /\ k \notin ToSet(Front(free))
        /\ ToSet(Front(free)) \subseteq ToSet(free)
    BY <1>1, Pop
  <1>3. /\ proxy' = [proxy EXCEPT ![c] = k] /\ free' = Front(free)
        /\ pc' = [pc EXCEPT ![c] = "using"]
        /\ UNCHANGED <<toCreate, toDelete, busy, options, dbOf, creating, attempt>>
        /\ creating = Nobody
    BY DEF TakeFree, counts
  <1> HIDE DEF k
  <1>4. Taken' = Taken \cup {c} /\ c \notin Taken
        /\ Cardinality(Taken') = Cardinality(Taken) + 1
    BY <1>1, <1>2, <1>3, Takes
  <1>5. TypeOK'
    BY <1>2, <1>3 DEF TypeOK
  <1>6. Holding'
    BY <1>2, <1>3 DEF TypeOK, Holding
  <1>7. Exclusive'
    <2>1. \A d \in Taken : proxy'[d] = proxy[d] /\ proxy[d] # k
      BY <1>2, <1>3, <1>4 DEF TypeOK, Exclusive, Taken
    <2>2. proxy'[c] = k
      BY <1>3 DEF TypeOK
    <2>3. QED
      BY <1>2, <1>3, <1>4, <2>1, <2>2 DEF Exclusive
  <1>8. Balanced(q)'
    <2>1. Len(free) \in Nat /\ Len(free') = Len(free) - 1
      BY <1>1, <1>2, <1>3
    <2>2. QED
      BY <1>3, <1>4, <2>1, TakenFinite DEF TypeOK, Balanced
  <1>9. BurstOnlyWhenSpent'
    BY <1>1, <1>3 DEF BurstOnlyWhenSpent, TypeOK
  <1>10. QED
    BY <1>5, <1>6, <1>7, <1>8, <1>9

LEMMA ConnectedIInv ==
  ASSUME NEW q \in Nat, PoolIInv(q), NEW c \in Clients, Connected(c) PROVE PoolIInv(q)'
  <1> USE DEF PoolIInv
  <1>1. PICK k \in Conns \ Open : /\ proxy' = [proxy EXCEPT ![c] = k]
                                  /\ dbOf' = [dbOf EXCEPT ![k] = options]
    BY DEF Connected
  <1>2. /\ IF toCreate > 0 THEN toCreate' = toCreate - 1 /\ UNCHANGED toDelete
                           ELSE toDelete' = toDelete + 1 /\ UNCHANGED toCreate
        /\ pc' = [pc EXCEPT ![c] = "using"]
        /\ creating = c /\ creating' = Nobody /\ attempt' = 0
        /\ UNCHANGED <<free, busy, options>>
    BY DEF Connected
  <1>3. pc[c] = "asking" /\ proxy[c] = NoConn /\ free = <<>>
    BY <1>2 DEF Holding
  <1>4. Taken' = Taken \cup {c} /\ c \notin Taken
        /\ Cardinality(Taken') = Cardinality(Taken) + 1
    BY <1>1, <1>3, Takes
  <1>5. TypeOK'
    BY <1>1, <1>2 DEF TypeOK
  <1>6. Holding'
    BY <1>1, <1>2 DEF TypeOK, Holding
  <1>7. Exclusive'
    <2>1. \A d \in Taken : proxy'[d] = proxy[d] /\ proxy[d] # k
      BY <1>1, <1>4 DEF TypeOK, Open, Taken
    <2>2. proxy'[c] = k
      BY <1>1 DEF TypeOK
    <2>3. k \notin ToSet(free)
      BY <1>1 DEF Open
    <2>4. QED
      BY <1>2, <1>4, <2>1, <2>2, <2>3 DEF Exclusive
  <1>8. Balanced(q)'
    BY <1>2, <1>4, TakenFinite DEF TypeOK, Balanced
  <1>9. BurstOnlyWhenSpent'
    BY <1>2, <1>3 DEF BurstOnlyWhenSpent, TypeOK
  <1>10. QED
    BY <1>5, <1>6, <1>7, <1>8, <1>9

LEMMA ReturnIInv ==
  ASSUME NEW q \in Nat, PoolIInv(q), NEW c \in Clients, Return(c) PROVE PoolIInv(q)'
  <1> USE DEF PoolIInv
  <1>1. /\ pc[c] = "using" /\ creating = Nobody
        /\ proxy' = [proxy EXCEPT ![c] = NoConn]
        /\ pc' = [pc EXCEPT ![c] = "idle"]
        /\ UNCHANGED <<toCreate, busy, options, dbOf, creating, attempt>>
    BY DEF Return
  <1>2. proxy[c] \in Conns /\ c \in Taken /\ proxy[c] \notin ToSet(free)
    BY <1>1 DEF TypeOK, Holding, Exclusive, Taken
  <1>3. /\ Taken' = Taken \ {c}
        /\ Cardinality(Taken') = Cardinality(Taken) - 1
        /\ Cardinality(Taken') \in Nat
    BY <1>1, <1>2, GivesBack
  <1>4. \A d \in Taken' : proxy'[d] = proxy[d] /\ d \in Taken /\ d # c
    BY <1>1, <1>3 DEF TypeOK, Taken
  <1>5. Holding'
    BY <1>1 DEF TypeOK, Holding
  <1>6. CASE toDelete > 0
    <2>1. toDelete' = toDelete - 1 /\ free' = free
      BY <1>6 DEF Return
    <2>2. TypeOK'
      BY <1>1, <1>6, <2>1 DEF TypeOK
    <2>3. Exclusive'
      BY <1>4, <2>1 DEF Exclusive
    <2>4. Balanced(q)'
      BY <1>1, <1>3, <2>1, TakenFinite DEF TypeOK, Balanced
    <2>5. BurstOnlyWhenSpent'
      BY <1>1, <1>6, <2>1 DEF BurstOnlyWhenSpent
    <2>6. QED
      BY <1>5, <2>2, <2>3, <2>4, <2>5
  <1>7. CASE ~(toDelete > 0)
    <2>1. toDelete' = toDelete /\ free' = Append(free, proxy[c])
      BY <1>7 DEF Return
    <2>2. /\ free' \in Seq(Conns) /\ Len(free') = Len(free) + 1
          /\ IsInjective(free') /\ ToSet(free') = ToSet(free) \cup {proxy[c]}
      BY <1>2, <2>1, Push DEF TypeOK, Exclusive
    <2>3. TypeOK'
      BY <1>1, <2>1, <2>2 DEF TypeOK
    <2>4. Exclusive'
      BY <1>2, <1>4, <2>2 DEF Exclusive
    <2>5. toDelete = 0 /\ toDelete' = 0
      BY <1>7, <2>1 DEF TypeOK
    <2>6. Balanced(q)'
      BY <1>1, <1>3, <2>2, <2>5, TakenFinite DEF TypeOK, Balanced
    <2>7. BurstOnlyWhenSpent'
      BY <2>5 DEF BurstOnlyWhenSpent
    <2>8. QED
      BY <1>5, <2>3, <2>4, <2>6, <2>7
  <1>8. QED
    BY <1>6, <1>7

\* Every step keeps the invariant.
LEMMA NextIInv ==
  ASSUME NEW q \in Nat, PoolIInv(q), [Next]_pool PROVE PoolIInv(q)'
  <1>1. ASSUME NEW c \in Clients, Ask(c) \/ Get(c) \/ Return(c) PROVE PoolIInv(q)'
    BY <1>1, AskIInv, TakeFreeIInv, BeginCreateIInv, ConnectFailsIInv, GiveUpIInv,
       ConnectedIInv, ReturnIInv DEF Get
  <1>2. CASE UNCHANGED pool
    <2>1. TypeOK' /\ Holding' /\ UNCHANGED <<free, counts, proxy>>
      BY <1>2 DEF pool, counts, PoolIInv, TypeOK, Holding
    <2>2. QED
      BY <2>1, StillIInv
  <1>3. QED
    BY <1>1, <1>2 DEF Next

LEMMA InitIInv == Init => IInv
  BY FreshIInv DEF Init, IInv

LEMMA StepIInv == IInv /\ [Next]_pool => IInv'
  BY NextIInv DEF IInv

\* The inductive invariant of the pool holds in every state.
THEOREM Invariance == Spec => []IInv
  BY InitIInv, StepIInv, PTL DEF Spec

\* No connection is ever in two hands, or both free and in use.
THEOREM NeverShared == Spec => []Exclusive
  <1>1. IInv => Exclusive
    BY DEF IInv, PoolIInv
  <1>2. QED
    BY <1>1, Invariance, PTL

\* The pool's books balance, whatever the clients did and however creating
\* a connection failed.
THEOREM BooksBalance == Spec => []QuotaKept
  <1>1. IInv => QuotaKept
    BY DEF IInv, PoolIInv, QuotaKept
  <1>2. QED
    BY <1>1, Invariance, PTL

\* A connection over the quota is opened only when the quota is spent.
THEOREM NoNeedlessBurst == Spec => []BurstOnlyWhenSpent
  <1>1. IInv => BurstOnlyWhenSpent
    BY DEF IInv, PoolIInv
  <1>2. QED
    BY <1>1, Invariance, PTL

-----------------------------------------------------------------------------
\* The startup, for any number of clients and connections, any settings and
\* any databases on the server.  What the pool does to the connections: those
\* it keeps are the ones it had, and a new one leads where the options point.
LEMMA WhereOpen ==
  ASSUME NEW q \in Nat, PoolIInv(q), NEW c \in Clients, Ask(c) \/ Get(c) \/ Return(c)
  PROVE  /\ UNCHANGED <<busy, options>>
         /\ \A k \in Open' : \/ k \in Open /\ dbOf'[k] = dbOf[k]
                             \/ Connected(c) /\ dbOf'[k] = options
  <1> USE DEF PoolIInv
  <1>1. CASE Ask(c) \/ BeginCreate(c) \/ ConnectFails(c) \/ GiveUp(c)
    BY <1>1 DEF Ask, BeginCreate, ConnectFails, GiveUp, counts, Open, Taken
  <1>2. CASE TakeFree(c)
    <2>1. /\ free \in Seq(Conns) /\ free # <<>> /\ IsInjective(free)
          /\ proxy' = [proxy EXCEPT ![c] = Last(free)] /\ free' = Front(free)
          /\ UNCHANGED <<busy, options, dbOf>>
      BY <1>2 DEF TakeFree, counts, TypeOK, Exclusive
    <2>2. Last(free) \in ToSet(free) /\ ToSet(free') \subseteq ToSet(free)
      BY <2>1, Pop
    <2>3. \A d \in Clients : proxy'[d] = proxy[d] \/ proxy'[d] = Last(free)
      BY <2>1 DEF TypeOK
    <2>4. QED
      BY <2>1, <2>2, <2>3 DEF Open, Taken
  <1>3. CASE Connected(c)
    <2>1. PICK k \in Conns \ Open : /\ proxy' = [proxy EXCEPT ![c] = k]
                                    /\ dbOf' = [dbOf EXCEPT ![k] = options]
      BY <1>3 DEF Connected
    <2>2. UNCHANGED <<free, busy, options>>
      BY <1>3 DEF Connected
    <2>3. \A d \in Clients : proxy'[d] = proxy[d] \/ proxy'[d] = k
      BY <2>1 DEF TypeOK
    <2>4. Open' \subseteq Open \cup {k}
      BY <2>2, <2>3 DEF Open, Taken
    <2>5. dbOf'[k] = options /\ \A m \in Open : dbOf'[m] = dbOf[m]
      BY <2>1 DEF TypeOK
    <2>6. QED
      BY <1>3, <2>2, <2>4, <2>5
  <1>4. CASE Return(c)
    <2>1. /\ pc[c] = "using" /\ proxy' = [proxy EXCEPT ![c] = NoConn]
          /\ UNCHANGED <<busy, options, dbOf>>
          /\ free' = free \/ free' = Append(free, proxy[c])
      BY <1>4 DEF Return
    <2>2. proxy[c] \in Conns /\ c \in Taken /\ proxy[c] \notin ToSet(free)
      BY <2>1 DEF TypeOK, Holding, Exclusive, Taken
    <2>3. ToSet(free') \subseteq ToSet(free) \cup {proxy[c]}
      <3>1. free \in Seq(Conns) /\ IsInjective(free)
        BY DEF TypeOK, Exclusive
      <3>2. ToSet(Append(free, proxy[c])) = ToSet(free) \cup {proxy[c]}
        BY <2>2, <3>1, Push
      <3>3. QED
        BY <2>1, <3>2
    <2>4. \A d \in Taken' : d \in Taken /\ proxy'[d] = proxy[d]
      BY <2>1 DEF TypeOK, Taken
    <2>5. QED
      BY <2>1, <2>2, <2>3, <2>4 DEF Open
  <1>5. QED
    BY <1>1, <1>2, <1>3, <1>4 DEF Get

\* Setting the number of connections of a pool of which none is in use makes
\* it that number, by dropping free ones if need be.
LEMMA Resizes ==
  ASSUME NEW f \in Seq(Conns), IsInjective(f), NEW k \in Nat, NEW count \in Nat,
         busy = 0, toDelete = 0
  PROVE  /\ Resize(f, k, count).free \in Seq(Conns)
         /\ IsInjective(Resize(f, k, count).free)
         /\ ToSet(Resize(f, k, count).free) \subseteq ToSet(f)
         /\ Resize(f, k, count).toCreate \in Nat
         /\ Resize(f, k, count).toDelete = 0
         /\ Len(Resize(f, k, count).free) + Resize(f, k, count).toCreate = count
  <1> DEFINE diff == count - (Len(f) + busy + k)
             cut == IF diff < 0 THEN -diff ELSE 0
             notCreated == IF cut < k THEN cut ELSE k
             dropped == IF cut - notCreated < Len(f) THEN cut - notCreated ELSE Len(f)
             more == IF diff > 0 THEN k + diff ELSE k - notCreated
             left == SubSeq(f, 1, Len(f) - dropped)
  <1>1. Resize(f, k, count) = [free |-> left, toCreate |-> more,
                               toDelete |-> toDelete + cut - notCreated - dropped]
    BY DEF Resize
  <1>2. PICK n \in Nat : n = Len(f)
    OBVIOUS
  <1>3. /\ diff = count - (n + 0 + k)
        /\ cut = IF diff < 0 THEN -diff ELSE 0
        /\ notCreated = IF cut < k THEN cut ELSE k
        /\ dropped = IF cut - notCreated < n THEN cut - notCreated ELSE n
        /\ more = IF diff > 0 THEN k + diff ELSE k - notCreated
    BY <1>2
  <1> HIDE DEF diff, cut, notCreated, dropped, more, left
  <1>4. /\ dropped \in 0 .. n /\ n - dropped + more = count /\ more \in Nat
        /\ 0 + cut - notCreated - dropped = 0
    <2>1. diff \in Int
      BY <1>3
    <2>2. CASE diff >= 0
      <3>1. cut = 0
        BY <1>3, <2>1, <2>2
      <3>2. notCreated = 0
        BY <1>3, <3>1
      <3>3. dropped = 0
        BY <1>3, <3>1, <3>2
      <3>4. QED
        BY <1>3, <2>1, <2>2, <3>1, <3>2, <3>3
    <2>3. CASE diff < 0
      <3>1. cut = n + k - count
        BY <1>3, <2>3
      <3>2. CASE cut < k
        BY <1>3, <2>1, <2>3, <3>1, <3>2
      <3>3. CASE ~(cut < k)
        BY <1>3, <2>1, <2>3, <3>1, <3>3
      <3>4. QED
        BY <3>2, <3>3
    <2>4. QED
      BY <2>1, <2>2, <2>3
  <1>5. /\ left \in Seq(Conns) /\ Len(left) = Len(f) - dropped
        /\ \A i \in 1 .. Len(f) - dropped : left[i] = f[i]
    BY <1>2, <1>4 DEF left
  <1>6. DOMAIN left = 1 .. Len(f) - dropped /\ DOMAIN left \subseteq DOMAIN f
    BY <1>2, <1>4, <1>5
  <1>7. IsInjective(left)
    BY <1>5, <1>6 DEF IsInjective
  <1>8. ToSet(left) \subseteq ToSet(f)
    BY <1>5, <1>6 DEF ToSet
  <1>9. /\ Resize(f, k, count).free = left /\ Resize(f, k, count).toCreate = more
        /\ Resize(f, k, count).toDelete = 0
    BY <1>1, <1>4
  <1>10. Len(Resize(f, k, count).free) + Resize(f, k, count).toCreate = count
    BY <1>2, <1>4, <1>5, <1>9
  <1>11. QED
    BY <1>4, <1>5, <1>7, <1>8, <1>9, <1>10

\* New settings, given to a pool of which no connection is in use.
LEMMA SetSettingsIInv ==
  ASSUME NEW q \in Nat, PoolIInv(q), Taken = {}, busy = 0,
         NEW changed \in BOOLEAN, NEW db \in Databases,
         NEW counted \in BOOLEAN, NEW count, counted => count \in Nat,
         SetSettings(changed, db, counted, count)
  PROVE  /\ PoolIInv(IF counted THEN count ELSE q)'
         /\ Open' \subseteq Open /\ (changed => Open' = {})
         /\ options' = (IF changed THEN db ELSE options)
         /\ UNCHANGED <<busy, dbOf, pc>>
  <1> DEFINE f == IF changed THEN <<>> ELSE free
             k == IF changed THEN toCreate + Len(free) ELSE toCreate
             sized == IF counted THEN Resize(f, k, count)
                      ELSE [free |-> f, toCreate |-> k, toDelete |-> toDelete]
  <1> USE DEF PoolIInv
  <1>1. /\ free \in Seq(Conns) /\ IsInjective(free) /\ Len(free) \in Nat
        /\ toCreate \in Nat /\ toDelete = 0 /\ Len(free) + toCreate = q
    <2>1. Cardinality(Taken) = 0
      BY FS_EmptySet
    <2>2. QED
      BY <2>1 DEF TypeOK, Exclusive, Balanced
  <1>2. /\ creating = Nobody /\ free' = sized.free /\ toCreate' = sized.toCreate
        /\ toDelete' = sized.toDelete /\ options' = (IF changed THEN db ELSE options)
        /\ UNCHANGED <<busy, dbOf, proxy, pc, creating, attempt>>
    BY DEF SetSettings
  <1>3. /\ f \in Seq(Conns) /\ IsInjective(f) /\ k \in Nat /\ Len(f) + k = q
        /\ ToSet(f) \subseteq ToSet(free) /\ (changed => ToSet(f) = {})
    <2>1. <<>> \in Seq(Conns) /\ IsInjective(<<>>) /\ ToSet(<<>>) = {} /\ Len(<<>>) = 0
      BY DEF IsInjective, ToSet
    <2>2. QED
      BY <1>1, <2>1
  <1> HIDE DEF f, k
  <1>4. /\ sized.free \in Seq(Conns) /\ IsInjective(sized.free)
        /\ ToSet(sized.free) \subseteq ToSet(f)
        /\ sized.toCreate \in Nat /\ sized.toDelete = 0
        /\ Len(sized.free) + sized.toCreate = IF counted THEN count ELSE q
    <2>1. CASE counted
      BY <1>1, <1>3, <2>1, Resizes
    <2>2. CASE ~counted
      BY <1>1, <1>3, <2>2
    <2>3. QED
      BY <2>1, <2>2
  <1> HIDE DEF sized
  <1>5. Taken' = {} /\ Open = ToSet(free) /\ Open' = ToSet(free')
    BY <1>2 DEF Open, Taken
  <1>6. TypeOK'
    BY <1>2, <1>4 DEF TypeOK
  <1>7. Holding'
    BY <1>2 DEF Holding
  <1>8. Exclusive'
    BY <1>2, <1>4, <1>5 DEF Exclusive
  <1>9. Balanced(IF counted THEN count ELSE q)'
    <2>1. Cardinality(Taken') = 0
      BY <1>5, FS_EmptySet
    <2>2. Len(free') + toCreate' = (IF counted THEN count ELSE q) /\ toDelete' = 0
      BY <1>2, <1>4
    <2>3. Len(free') \in Nat /\ toCreate' \in Nat
      BY <1>6 DEF TypeOK
    <2>4. QED
      BY <2>1, <2>2, <2>3 DEF Balanced
  <1>10. BurstOnlyWhenSpent'
    BY <1>2, <1>4 DEF BurstOnlyWhenSpent
  <1>11. QED
    BY <1>2, <1>3, <1>4, <1>5, <1>6, <1>7, <1>8, <1>9, <1>10

\* The settings want a number of connections.
LEMMA QuotaNat == StartTypeOK => QuotaSoFar \in Nat /\ Wanted \in Nat
  BY StartupAssumption DEF StartTypeOK, Settings, QuotaSoFar, Wanted

\* While the program starts and its main thread has no part in the pool,
\* nobody has.
LEMMA NobodyYet ==
  ASSUME StartIInv, stage # "serving", pc[Boot] \in {"idle", "refused"}
  PROVE  Taken = {} /\ creating = Nobody
  <1>1. \A c \in Clients : pc[c] \in {"idle", "refused"}
    BY DEF StartIInv, OnlyBoot
  <1>2. QED
    BY <1>1, StartupAssumption DEF StartIInv, PoolIInv, TypeOK, Holding, Taken

\* Startup begins with the invariant.
LEMMA InitStart == StartInit => StartIInv
  <1> SUFFICES ASSUME StartInit PROVE StartIInv
    OBVIOUS
  <1> USE DEF StartInit
  <1>1. PoolIInv(DefaultCount)
    BY FreshIInv, StartupAssumption
  <1>2. StartTypeOK
    BY <1>1, StartupAssumption DEF StartTypeOK, PoolIInv, Stages
  <1>3. PoolIInv(QuotaSoFar) /\ busy = 0
    BY <1>1 DEF QuotaSoFar, Fresh
  <1>4. Open = {}
    BY DEF Fresh, Open, Taken, ToSet
  <1>5. Leading /\ OnlyBoot /\ Pointing
    BY <1>4, StartupAssumption DEF Leading, OnlyBoot, Pointing, Fresh, AtMaster
  <1>6. BootInStep
    BY StartupAssumption DEF BootInStep, Fresh, Releasing
  <1>7. Healthy /\ OnlyConfiguredRemade
    BY DEF Healthy, OnlyConfiguredRemade
  <1>8. QED
    BY <1>2, <1>3, <1>5, <1>6, <1>7 DEF StartIInv

\* The stages in which the main thread wants a connection, waits for it, and
\* gives it back.
LEMMA StageNames ==
  /\ DOMAIN Asking = {"check", "create", "fill", "verify"}
  /\ {Asking[s] : s \in DOMAIN Asking} = {"checking", "creating", "filling", "verifying"}
  /\ Asking["check"] = "checking" /\ Asking["create"] = "creating"
  /\ Asking["fill"] = "filling" /\ Asking["verify"] = "verifying"
  /\ DOMAIN Releasing = {"closing", "created", "filled", "verified", "abandon"}
  /\ Releasing["closing"] = "ready" /\ Releasing["created"] = "own"
  /\ Releasing["filled"] = "verify" /\ Releasing["verified"] = "ready"
  /\ Releasing["abandon"] = "recover"
  <1>1. DOMAIN Asking = {"check", "create", "fill", "verify"}
    BY DEF Asking
  <1>2. /\ Asking["check"] = "checking" /\ Asking["create"] = "creating"
        /\ Asking["fill"] = "filling" /\ Asking["verify"] = "verifying"
    BY DEF Asking
  <1>3. {Asking[s] : s \in DOMAIN Asking} = {"checking", "creating", "filling", "verifying"}
    BY <1>1, <1>2
  <1>4. QED
    BY <1>1, <1>2, <1>3 DEF Releasing

\* Steps of the main thread that leave the pool alone.
LEMMA PoolRests ==
  ASSUME StartIInv, UNCHANGED <<pool, settings>>, stage # "construct", stage' # "construct"
  PROVE  /\ PoolIInv(QuotaSoFar)' /\ busy' = 0
         /\ Open' = Open /\ Configured' = Configured
         /\ UNCHANGED <<options, dbOf, pc>>
  <1>1. PICK q \in Nat : q = Wanted
    BY QuotaNat DEF StartIInv
  <1>2. QuotaSoFar = q /\ QuotaSoFar' = q
    BY <1>1 DEF QuotaSoFar, Wanted
  <1>3. PoolIInv(q)
    BY <1>2 DEF StartIInv
  <1>4. UNCHANGED pool
    OBVIOUS
  <1>5. PoolIInv(q)'
    BY <1>3, <1>4, NextIInv
  <1>6. PoolIInv(QuotaSoFar)'
    BY <1>2, <1>5 DEF PoolIInv, Balanced
  <1>7. QED
    BY <1>6 DEF pool, StartIInv, Open, Taken, Configured

LEMMA ValidateStart == ASSUME StartIInv, Validate PROVE StartIInv'
  <1> USE DEF StartIInv, Validate, Using
  <1>1. /\ stage = "checking" /\ stage' \in {"closing", "rebuild"} /\ pc[Boot] = "using"
        /\ UNCHANGED <<pool, settings, exists, valid, remade>>
    OBVIOUS
  <1>2. /\ PoolIInv(QuotaSoFar)' /\ busy' = 0 /\ Open' = Open
        /\ Configured' = Configured /\ UNCHANGED <<options, dbOf, pc>>
    BY <1>1, PoolRests
  <1>3. StartTypeOK'
    BY <1>1, <1>2 DEF StartTypeOK, PoolIInv, Stages, Releasing
  <1>4. OnlyBoot' /\ BootInStep'
    BY <1>1, <1>2, StageNames DEF OnlyBoot, BootInStep
  <1>5. Pointing' /\ Leading'
    BY <1>1, <1>2 DEF Pointing, AtMaster, Leading
  <1>6. options = Configured /\ Connection \in Open
    BY <1>1, StartupAssumption
       DEF Pointing, AtMaster, Connection, Open, Taken, PoolIInv, TypeOK, Holding
  <1>7. Healthy' /\ OnlyConfiguredRemade'
    BY <1>1, <1>2, <1>6 DEF Healthy, OnlyConfiguredRemade, Leading
  <1>8. QED
    BY <1>2, <1>3, <1>4, <1>5, <1>7

LEMMA UnreachableStart == ASSUME StartIInv, Unreachable PROVE StartIInv'
  <1> USE DEF StartIInv, Unreachable, Refused
  <1>1. /\ stage = "checking" /\ stage' \in {"master", "ready"} /\ pc[Boot] = "refused"
        /\ healthy' = FALSE
        /\ UNCHANGED <<pool, settings, exists, valid, remade>>
    OBVIOUS
  <1>2. /\ PoolIInv(QuotaSoFar)' /\ busy' = 0 /\ Open' = Open
        /\ Configured' = Configured /\ UNCHANGED <<options, dbOf, pc>>
    BY <1>1, PoolRests
  <1>3. StartTypeOK'
    BY <1>1, <1>2 DEF StartTypeOK, PoolIInv, Stages, Releasing
  <1>4. OnlyBoot' /\ BootInStep'
    BY <1>1, <1>2, StageNames DEF OnlyBoot, BootInStep
  <1>5. Pointing' /\ Leading'
    BY <1>1, <1>2 DEF Pointing, AtMaster, Leading
  <1>6. Healthy' /\ OnlyConfiguredRemade'
    BY <1>1, <1>2 DEF Healthy, OnlyConfiguredRemade
  <1>7. QED
    BY <1>2, <1>3, <1>4, <1>5, <1>6

LEMMA NoConnectionStart == ASSUME StartIInv, NoConnection PROVE StartIInv'
  <1> USE DEF StartIInv, NoConnection, Refused
  <1>1. /\ stage \in {"creating", "filling", "verifying"} /\ stage' = "recover"
        /\ pc[Boot] = "refused"
        /\ UNCHANGED <<pool, settings, exists, valid, remade, healthy>>
    OBVIOUS
  <1>2. /\ PoolIInv(QuotaSoFar)' /\ busy' = 0 /\ Open' = Open
        /\ Configured' = Configured /\ UNCHANGED <<options, dbOf, pc>>
    BY <1>1, PoolRests
  <1>3. StartTypeOK'
    BY <1>1, <1>2 DEF StartTypeOK, PoolIInv, Stages, Releasing
  <1>4. OnlyBoot' /\ BootInStep'
    BY <1>1, <1>2, StageNames DEF OnlyBoot, BootInStep
  <1>5. Pointing' /\ Leading'
    BY <1>1, <1>2 DEF Pointing, AtMaster, Leading
  <1>6. Healthy' /\ OnlyConfiguredRemade'
    BY <1>1, <1>2 DEF Healthy, OnlyConfiguredRemade
  <1>7. QED
    BY <1>2, <1>3, <1>4, <1>5, <1>6

LEMMA StartStart == ASSUME StartIInv, Start PROVE StartIInv'
  <1> USE DEF StartIInv, Start
  <1>1. /\ stage = "ready" /\ stage' = IF healthy THEN "serving" ELSE "exited"
        /\ UNCHANGED <<pool, settings, exists, valid, remade, healthy>>
    OBVIOUS
  <1>2. /\ PoolIInv(QuotaSoFar)' /\ busy' = 0 /\ Open' = Open
        /\ Configured' = Configured /\ UNCHANGED <<options, dbOf, pc>>
    BY <1>1, PoolRests
  <1>3. StartTypeOK'
    BY <1>1, <1>2 DEF StartTypeOK, PoolIInv, Stages, Releasing
  <1>4. OnlyBoot' /\ BootInStep'
    BY <1>1, <1>2, StageNames DEF OnlyBoot, BootInStep
  <1>5. Pointing' /\ Leading'
    BY <1>1, <1>2 DEF Pointing, AtMaster, Leading
  <1>6. Healthy' /\ OnlyConfiguredRemade'
    BY <1>1, <1>2 DEF Healthy, OnlyConfiguredRemade
  <1>7. QED
    BY <1>2, <1>3, <1>4, <1>5, <1>6

LEMMA CreateDatabaseStart == ASSUME StartIInv, CreateDatabase PROVE StartIInv'
  <1> USE DEF StartIInv, CreateDatabase, Using
  <1>1. /\ stage = "creating" /\ stage' \in {"created", "abandon"} /\ pc[Boot] = "using"
        /\ exists' \in {exists, exists \cup {settings.db}}
        /\ UNCHANGED <<pool, settings, valid, remade, healthy>>
    OBVIOUS
  <1>2. /\ PoolIInv(QuotaSoFar)' /\ busy' = 0 /\ Open' = Open
        /\ Configured' = Configured /\ UNCHANGED <<options, dbOf, pc>>
    BY <1>1, PoolRests
  <1>3. StartTypeOK'
    BY <1>1, <1>2 DEF StartTypeOK, Settings, PoolIInv, Stages, Releasing
  <1>4. OnlyBoot' /\ BootInStep'
    BY <1>1, <1>2, StageNames DEF OnlyBoot, BootInStep
  <1>5. Pointing' /\ Leading'
    BY <1>1, <1>2 DEF Pointing, AtMaster, Leading
  <1>6. Healthy' /\ OnlyConfiguredRemade'
    BY <1>1, <1>2 DEF Healthy, OnlyConfiguredRemade
  <1>7. QED
    BY <1>2, <1>3, <1>4, <1>5, <1>6

LEMMA VerifyDatabaseStart == ASSUME StartIInv, VerifyDatabase PROVE StartIInv'
  <1> USE DEF StartIInv, VerifyDatabase, Using
  <1>1. /\ stage = "verifying" /\ stage' \in {"verified", "abandon"} /\ pc[Boot] = "using"
        /\ UNCHANGED <<pool, settings, exists, valid, remade>>
    OBVIOUS
  <1>2. /\ PoolIInv(QuotaSoFar)' /\ busy' = 0 /\ Open' = Open
        /\ Configured' = Configured /\ UNCHANGED <<options, dbOf, pc>>
    BY <1>1, PoolRests
  <1>3. StartTypeOK'
    BY <1>1, <1>2 DEF StartTypeOK, PoolIInv, Stages, Releasing
  <1>4. OnlyBoot' /\ BootInStep'
    BY <1>1, <1>2, StageNames DEF OnlyBoot, BootInStep
  <1>5. Pointing' /\ Leading'
    BY <1>1, <1>2 DEF Pointing, AtMaster, Leading
  <1>6. options = Configured /\ Connection \in Open
    BY <1>1, StartupAssumption
       DEF Pointing, AtMaster, Connection, Open, Taken, PoolIInv, TypeOK, Holding
  <1>7. Healthy' /\ OnlyConfiguredRemade'
    BY <1>1, <1>2, <1>6 DEF Healthy, OnlyConfiguredRemade, Leading
  <1>8. QED
    BY <1>2, <1>3, <1>4, <1>5, <1>7

LEMMA ReinitializeStart == ASSUME StartIInv, Reinitialize PROVE StartIInv'
  <1> USE DEF StartIInv, Reinitialize
  <1>1. /\ stage = "rebuild" /\ stage' = "closing" /\ pc[Boot] = "using" /\ healthy' \in BOOLEAN
        /\ UNCHANGED <<pool, settings, exists>>
    BY DEF InitializeTables, TablesFail, BootInStep
  <1>2. /\ PoolIInv(QuotaSoFar)' /\ busy' = 0 /\ Open' = Open
        /\ Configured' = Configured /\ UNCHANGED <<options, dbOf, pc>>
    BY <1>1, PoolRests
  <1>3. options = Configured /\ Connection \in Open
    BY <1>1, StartupAssumption
       DEF Pointing, AtMaster, Connection, Open, Taken, PoolIInv, TypeOK, Holding
  <1>4. dbOf[Connection] = Configured /\ Configured \in exists
    BY <1>3 DEF Leading
  <1>5. \/ /\ valid' = valid \cup {Configured} /\ remade' = remade \cup {Configured}
        \/ UNCHANGED <<valid, remade>> /\ healthy' = FALSE
    BY <1>4 DEF InitializeTables, TablesFail
  <1>6. StartTypeOK'
    BY <1>1, <1>2, <1>4, <1>5 DEF StartTypeOK, PoolIInv, Stages, Releasing
  <1>7. OnlyBoot' /\ BootInStep'
    BY <1>1, <1>2, StageNames DEF OnlyBoot, BootInStep
  <1>8. Pointing' /\ Leading'
    BY <1>1, <1>2 DEF Pointing, AtMaster, Leading
  <1>9. Healthy' /\ OnlyConfiguredRemade'
    BY <1>1, <1>2, <1>5 DEF Healthy, OnlyConfiguredRemade
  <1>10. QED
    BY <1>2, <1>6, <1>7, <1>8, <1>9

LEMMA FillDatabaseStart == ASSUME StartIInv, FillDatabase PROVE StartIInv'
  <1> USE DEF StartIInv, FillDatabase, Using
  <1>1. /\ stage = "filling" /\ stage' \in {"filled", "abandon"} /\ pc[Boot] = "using"
        /\ UNCHANGED <<pool, settings, exists, healthy>>
    BY DEF InitializeTables, TablesFail
  <1>2. /\ PoolIInv(QuotaSoFar)' /\ busy' = 0 /\ Open' = Open
        /\ Configured' = Configured /\ UNCHANGED <<options, dbOf, pc>>
    BY <1>1, PoolRests
  <1>3. options = Configured /\ Connection \in Open
    BY <1>1, StartupAssumption
       DEF Pointing, AtMaster, Connection, Open, Taken, PoolIInv, TypeOK, Holding
  <1>4. dbOf[Connection] = Configured /\ Configured \in exists
    BY <1>3 DEF Leading
  <1>5. \/ /\ valid' = valid \cup {Configured} /\ remade' = remade \cup {Configured}
        \/ UNCHANGED <<valid, remade>>
    BY <1>4 DEF InitializeTables, TablesFail
  <1>6. StartTypeOK'
    BY <1>1, <1>2, <1>4, <1>5 DEF StartTypeOK, PoolIInv, Stages, Releasing
  <1>7. OnlyBoot' /\ BootInStep'
    BY <1>1, <1>2, StageNames DEF OnlyBoot, BootInStep
  <1>8. Pointing' /\ Leading'
    BY <1>1, <1>2 DEF Pointing, AtMaster, Leading
  <1>9. Healthy' /\ OnlyConfiguredRemade'
    BY <1>1, <1>2, <1>5 DEF Healthy, OnlyConfiguredRemade
  <1>10. QED
    BY <1>2, <1>6, <1>7, <1>8, <1>9

\* Steps of one client with the pool, after its construction.
LEMMA PoolMoves ==
  ASSUME StartIInv, NEW c \in Clients, Ask(c) \/ Get(c) \/ Return(c),
         UNCHANGED settings, stage # "construct", stage' # "construct"
  PROVE  /\ PoolIInv(QuotaSoFar)' /\ busy' = 0 /\ Configured' = Configured
         /\ \A k \in Open' : \/ k \in Open /\ dbOf'[k] = dbOf[k]
                             \/ Connected(c) /\ dbOf'[k] = options
         /\ options' = options
         /\ \A d \in Clients \ {c} : pc'[d] = pc[d]
  <1>1. PICK q \in Nat : q = Wanted
    BY QuotaNat DEF StartIInv
  <1>2. QuotaSoFar = q /\ QuotaSoFar' = q
    BY <1>1 DEF QuotaSoFar, Wanted
  <1>3. PoolIInv(q)
    BY <1>2 DEF StartIInv
  <1>4. Next
    BY DEF Next
  <1>5. PoolIInv(q)'
    BY <1>3, <1>4, NextIInv
  <1>6. PoolIInv(QuotaSoFar)'
    BY <1>2, <1>5 DEF PoolIInv, Balanced
  <1>7. /\ UNCHANGED <<busy, options>>
        /\ \A k \in Open' : \/ k \in Open /\ dbOf'[k] = dbOf[k]
                            \/ Connected(c) /\ dbOf'[k] = options
    BY <1>3, WhereOpen
  <1>8. \A d \in Clients \ {c} : pc'[d] = pc[d]
    BY DEF StartIInv, PoolIInv, TypeOK, Ask, Get, Return, TakeFree, BeginCreate, ConnectFails,
           GiveUp, Connected
  <1>9. QED
    BY <1>6, <1>7, <1>8 DEF StartIInv, Configured

LEMMA RequestStart == ASSUME StartIInv, Request PROVE StartIInv'
  <1> USE DEF StartIInv, Request
  <1>1. /\ stage \in {"check", "create", "fill", "verify"}
        /\ stage' \in {"checking", "creating", "filling", "verifying"}
        /\ stage = "check" => stage' = "checking"
        /\ stage = "create" => stage' = "creating"
        /\ stage = "fill" => stage' = "filling"
        /\ stage = "verify" => stage' = "verifying"
        /\ UNCHANGED <<settings, exists, valid, remade, healthy>>
    BY StageNames
  <1>2. Boot \in Clients /\ Ask(Boot)
    BY StartupAssumption
  <1>3. /\ PoolIInv(QuotaSoFar)' /\ busy' = 0 /\ Configured' = Configured
        /\ options' = options
        /\ \A k \in Open' : \/ k \in Open /\ dbOf'[k] = dbOf[k]
                            \/ Connected(Boot) /\ dbOf'[k] = options
        /\ \A d \in Clients \ {Boot} : pc'[d] = pc[d]
    BY <1>1, <1>2, PoolMoves
  <1>4. pc[Boot] # "using" /\ pc'[Boot] = "asking" /\ ~Connected(Boot)
    BY <1>2 DEF Ask, PoolIInv, TypeOK, Connected, Holding
  <1>5. StartTypeOK'
    BY <1>1, <1>3 DEF StartTypeOK, PoolIInv, Stages, Asking
  <1>6. OnlyBoot' /\ BootInStep'
    BY <1>1, <1>3, <1>4, StageNames DEF OnlyBoot, BootInStep
  <1>7. Pointing' /\ Leading'
    BY <1>1, <1>3, <1>4 DEF Pointing, AtMaster, Leading
  <1>8. Healthy' /\ OnlyConfiguredRemade'
    BY <1>1, <1>3 DEF Healthy, OnlyConfiguredRemade
  <1>9. QED
    BY <1>3, <1>5, <1>6, <1>7, <1>8

LEMMA WaitStart == ASSUME StartIInv, Wait PROVE StartIInv'
  <1> USE DEF StartIInv, Wait
  <1>1. UNCHANGED <<settings, stage, exists, valid, remade, healthy>>
    BY DEF own
  <1>2. Boot \in Clients /\ Get(Boot) /\ (Connected(Boot) => options \in exists)
    <2>1. Connected(Boot) => ~TakeFree(Boot) /\ ~BeginCreate(Boot) /\ ~ConnectFails(Boot) /\ ~GiveUp(Boot)
      BY PoolAssumption, StartupAssumption
         DEF Connected, TakeFree, BeginCreate, ConnectFails, GiveUp, PoolIInv, TypeOK
    <2>2. QED
      BY <2>1, StartupAssumption DEF Get
  <1>3. pc[Boot] = "asking"
    BY <1>2 DEF Get, TakeFree, BeginCreate, ConnectFails, GiveUp, Connected, PoolIInv, Holding
  <1>4. stage \in {"checking", "creating", "filling", "verifying"}
    BY <1>3, StageNames DEF BootInStep
  <1>5. /\ PoolIInv(QuotaSoFar)' /\ busy' = 0 /\ Configured' = Configured
        /\ options' = options
        /\ \A k \in Open' : \/ k \in Open /\ dbOf'[k] = dbOf[k]
                            \/ Connected(Boot) /\ dbOf'[k] = options
        /\ \A d \in Clients \ {Boot} : pc'[d] = pc[d]
    BY <1>1, <1>2, <1>4, PoolMoves
  <1>6. StartTypeOK'
    BY <1>1, <1>5 DEF StartTypeOK, PoolIInv
  <1>7. OnlyBoot' /\ BootInStep'
    BY <1>1, <1>4, <1>5, StageNames DEF OnlyBoot, BootInStep
  <1>8. Pointing' /\ Leading'
    BY <1>1, <1>2, <1>5 DEF Pointing, AtMaster, Leading
  <1>9. Healthy' /\ OnlyConfiguredRemade'
    BY <1>1, <1>5 DEF Healthy, OnlyConfiguredRemade
  <1>10. QED
    BY <1>5, <1>6, <1>7, <1>8, <1>9

LEMMA ReleaseStart == ASSUME StartIInv, Release PROVE StartIInv'
  <1> USE DEF StartIInv, Release
  <1>1. /\ stage \in {"closing", "created", "filled", "verified", "abandon"}
        /\ stage \in {"closing", "verified"} => stage' = "ready"
        /\ stage = "created" => stage' = "own"
        /\ stage = "filled" => stage' = "verify"
        /\ stage = "abandon" => stage' = "recover"
        /\ UNCHANGED <<settings, exists, valid, remade, healthy>>
    BY StageNames
  <1>2. Boot \in Clients /\ Return(Boot)
    BY StartupAssumption
  <1>3. /\ PoolIInv(QuotaSoFar)' /\ busy' = 0 /\ Configured' = Configured
        /\ options' = options
        /\ \A k \in Open' : \/ k \in Open /\ dbOf'[k] = dbOf[k]
                            \/ Connected(Boot) /\ dbOf'[k] = options
        /\ \A d \in Clients \ {Boot} : pc'[d] = pc[d]
    BY <1>1, <1>2, PoolMoves
  <1>4. pc'[Boot] = "idle" /\ ~Connected(Boot)
    BY <1>2 DEF Return, PoolIInv, TypeOK, Connected
  <1>5. StartTypeOK'
    BY <1>1, <1>3 DEF StartTypeOK, PoolIInv, Stages, Asking
  <1>6. OnlyBoot' /\ BootInStep'
    BY <1>1, <1>3, <1>4, StageNames DEF OnlyBoot, BootInStep
  <1>7. Pointing' /\ Leading'
    BY <1>1, <1>3, <1>4 DEF Pointing, AtMaster, Leading
  <1>8. Healthy' /\ OnlyConfiguredRemade'
    BY <1>1, <1>3 DEF Healthy, OnlyConfiguredRemade
  <1>9. QED
    BY <1>3, <1>5, <1>6, <1>7, <1>8

LEMMA ServeStart == ASSUME StartIInv, Serve PROVE StartIInv'
  <1> USE DEF StartIInv, Serve
  <1>1. stage = "serving" /\ UNCHANGED <<settings, stage, exists, valid, remade, healthy>>
    BY DEF own
  <1>2. PICK c \in Clients \ {Boot} : Ask(c) \/ Get(c) \/ Return(c)
    OBVIOUS
  <1>3. /\ PoolIInv(QuotaSoFar)' /\ busy' = 0 /\ Configured' = Configured
        /\ options' = options
        /\ \A k \in Open' : \/ k \in Open /\ dbOf'[k] = dbOf[k]
                            \/ Connected(c) /\ dbOf'[k] = options
        /\ \A d \in Clients \ {c} : pc'[d] = pc[d]
    BY <1>1, <1>2, PoolMoves
  <1>4. options = Configured /\ Configured \in exists
    BY <1>1 DEF Pointing, AtMaster, Healthy, StartTypeOK
  <1>5. StartTypeOK'
    BY <1>1, <1>3 DEF StartTypeOK, PoolIInv
  <1>6. OnlyBoot' /\ BootInStep'
    BY <1>1, <1>2, <1>3, StartupAssumption DEF OnlyBoot, BootInStep
  <1>7. Pointing' /\ Leading'
    BY <1>1, <1>3, <1>4 DEF Pointing, AtMaster, Leading
  <1>8. Healthy' /\ OnlyConfiguredRemade'
    BY <1>1, <1>3 DEF Healthy, OnlyConfiguredRemade
  <1>9. QED
    BY <1>3, <1>5, <1>6, <1>7, <1>8

LEMMA GiveSettingsStart == ASSUME StartIInv, GiveSettings PROVE StartIInv'
  <1> USE DEF StartIInv, GiveSettings
  <1>1. /\ \/ stage = "construct" /\ stage' = "configure"
           \/ stage = "configure" /\ stage' \in {"check", "ready"}
        /\ UNCHANGED <<settings, exists, valid, remade, healthy>>
    BY DEF To
  <1>2. pc[Boot] \in {"idle", "refused"}
    BY <1>1, StageNames DEF BootInStep
  <1>3. Taken = {}
    BY <1>1, <1>2, NobodyYet
  <1>4. PICK q \in Nat : q = QuotaSoFar
    BY QuotaNat
  <1>5. PoolIInv(q)
    BY <1>4
  <1> DEFINE counted == settings.count # NotGiven
  <1>6. /\ settings.given \in BOOLEAN /\ settings.db \in Databases
        /\ counted \in BOOLEAN /\ (counted => settings.count \in Nat)
        /\ (~settings.given => settings.db = Master)
    BY StartupAssumption DEF StartTypeOK, Settings
  <1>7. SetSettings(settings.given, settings.db, counted, settings.count)
    OBVIOUS
  <1> HIDE DEF counted
  <1>8. PICK given, db, cnt, count :
          given = settings.given /\ db = settings.db /\ cnt = counted /\ count = settings.count
    OBVIOUS
  <1>9. /\ given \in BOOLEAN /\ db \in Databases /\ cnt \in BOOLEAN /\ (cnt => count \in Nat)
        /\ SetSettings(given, db, cnt, count)
    BY <1>6, <1>7, <1>8
  <1>10. /\ PoolIInv(IF cnt THEN count ELSE q)'
         /\ Open' \subseteq Open /\ (given => Open' = {})
         /\ options' = (IF given THEN db ELSE options)
         /\ UNCHANGED <<busy, dbOf, pc>>
    BY <1>3, <1>5, <1>9, SetSettingsIInv
  <1>11. QuotaSoFar' = IF cnt THEN count ELSE q
    BY <1>1, <1>4, <1>8 DEF QuotaSoFar, Wanted, counted
  <1>12. PoolIInv(QuotaSoFar)' /\ busy' = 0
    BY <1>10, <1>11 DEF PoolIInv, Balanced
  <1>13. StartTypeOK'
    BY <1>1, <1>12 DEF StartTypeOK, PoolIInv, Stages, Asking
  <1>14. OnlyBoot' /\ BootInStep'
    BY <1>1, <1>2, <1>10, StageNames DEF OnlyBoot, BootInStep
  <1>15. Pointing' /\ Leading'
    <2>1. options' = Configured /\ Configured' = Configured
      BY <1>1, <1>6, <1>8, <1>10 DEF Pointing, AtMaster, Configured
    <2>2. \A k \in Open' : dbOf'[k] = options' /\ dbOf'[k] \in exists
      BY <1>8, <1>10 DEF Leading
    <2>3. QED
      BY <1>1, <2>1, <2>2 DEF Pointing, AtMaster, Leading
  <1>16. Healthy' /\ OnlyConfiguredRemade'
    BY <1>1 DEF Healthy, OnlyConfiguredRemade, Configured
  <1>17. QED
    BY <1>12, <1>13, <1>14, <1>15, <1>16

LEMMA PointPoolStart == ASSUME StartIInv, PointPool PROVE StartIInv'
  <1> USE DEF StartIInv
  <1>1. PICK from, to, db :
          /\ \/ from = "master" /\ to = "create" /\ db = Master
             \/ from = "own" /\ to = "fill" /\ db = settings.db
             \/ from = "recover" /\ to = "ready" /\ db = settings.db
          /\ PointTo(from, to, db)
    BY DEF PointPool
  <1>2. /\ stage = from /\ stage' = to /\ SetSettings(TRUE, db, FALSE, NotGiven)
        /\ UNCHANGED <<settings, exists, valid, remade, healthy>>
    BY <1>1 DEF PointTo, To
  <1>3. pc[Boot] \in {"idle", "refused"}
    BY <1>1, <1>2, StageNames DEF BootInStep
  <1>4. Taken = {} /\ db \in Databases
    BY <1>1, <1>2, <1>3, NobodyYet, StartupAssumption DEF StartTypeOK, Settings
  <1>5. PICK q \in Nat : q = QuotaSoFar
    BY QuotaNat
  <1>6. PoolIInv(q)
    BY <1>5
  <1>7. /\ PoolIInv(q)' /\ Open' = {} /\ options' = db /\ UNCHANGED <<busy, dbOf, pc>>
    BY <1>2, <1>4, <1>6, SetSettingsIInv
  <1>8. QuotaSoFar' = q
    BY <1>1, <1>2, <1>5 DEF QuotaSoFar, Wanted
  <1>9. PoolIInv(QuotaSoFar)' /\ busy' = 0
    BY <1>7, <1>8 DEF PoolIInv, Balanced
  <1>10. StartTypeOK'
    BY <1>1, <1>2, <1>9 DEF StartTypeOK, PoolIInv, Stages, Asking
  <1>11. OnlyBoot' /\ BootInStep'
    BY <1>1, <1>2, <1>3, <1>7, StageNames DEF OnlyBoot, BootInStep
  <1>12. Pointing' /\ Leading'
    BY <1>1, <1>2, <1>7 DEF Pointing, AtMaster, Leading, Configured
  <1>13. Healthy' /\ OnlyConfiguredRemade'
    BY <1>1, <1>2 DEF Healthy, OnlyConfiguredRemade, Configured
  <1>14. QED
    BY <1>9, <1>10, <1>11, <1>12, <1>13

\* Every step of the startup and of the program at work keeps the invariant.
LEMMA NextStart == StartIInv /\ [StartNext]_allvars => StartIInv'
  <1> SUFFICES ASSUME StartIInv, [StartNext]_allvars PROVE StartIInv'
    OBVIOUS
  <1>1. CASE Startup
    BY <1>1, GiveSettingsStart, RequestStart, WaitStart, ValidateStart, ReinitializeStart,
       UnreachableStart, PointPoolStart, CreateDatabaseStart, FillDatabaseStart,
       VerifyDatabaseStart, NoConnectionStart, ReleaseStart, StartStart DEF Startup
  <1>2. CASE Serve
    BY <1>2, ServeStart
  <1>3. CASE UNCHANGED allvars
    BY <1>3 DEF allvars, pool, own, StartIInv, StartTypeOK, PoolIInv, TypeOK, Holding, Exclusive,
                Balanced, BurstOnlyWhenSpent, Taken, Open, OnlyBoot, BootInStep, Pointing, Leading,
                Healthy, OnlyConfiguredRemade, Configured, Wanted, QuotaSoFar, counts
  <1>4. QED
    BY <1>1, <1>2, <1>3 DEF StartNext

\* The inductive invariant of the startup holds in every state.
THEOREM StartInvariance == StartSpec => []StartIInv
  BY InitStart, NextStart, PTL DEF StartSpec

\* Nothing of the detour by the master database is left when the program
\* serves: whatever failed on the way, every connection leads to the database
\* of the settings.
THEOREM NothingStray == StartSpec => []NoStrayConnection
  <1>1. StartIInv => NoStrayConnection
    BY DEF StartIInv, NoStrayConnection, Pointing, AtMaster, Leading
  <1>2. QED
    BY <1>1, StartInvariance, PTL

\* Configured once by its constructor and again by the accessor, with its
\* options changed under it, the pool has the connections the settings want.
THEOREM ConfiguredQuota == StartSpec => []QuotaAsConfigured
  <1>1. StartIInv => QuotaAsConfigured
    BY DEF StartIInv, PoolIInv, QuotaAsConfigured, QuotaSoFar, Balanced
  <1>2. QED
    BY <1>1, StartInvariance, PTL

\* The program never serves a database that lacks tables.
THEOREM ValidServed == StartSpec => []ServesValid
  <1>1. StartIInv => ServesValid
    BY DEF StartIInv, ServesValid, Healthy
  <1>2. QED
    BY <1>1, StartInvariance, PTL

\* No database but that of the settings has its tables dropped.
THEOREM OthersUntouched == StartSpec => []OnlyConfiguredRemade
  <1>1. StartIInv => OnlyConfiguredRemade
    BY DEF StartIInv
  <1>2. QED
    BY <1>1, StartInvariance, PTL

-----------------------------------------------------------------------------
(***************************************************************************)
(* Prepared queries.                                                       *)
(***************************************************************************)
USE QueriesAssumption


\* Every step is a step of the pool, or none.
LEMMA PoolNext == [QueriesNext]_allVars => [Next]_pool
  <1> SUFFICES ASSUME [QueriesNext]_allVars PROVE [Next]_pool
    OBVIOUS
  <1>1. ASSUME NEW c \in Clients, Call(c) PROVE Next
    BY <1>1 DEF Call, Next
  <1>2. ASSUME NEW c \in Clients, Grab(c) \/ Settle(c) PROVE Next
    BY <1>2 DEF Grab, Settle, Get, Next
  <1>3. ASSUME NEW c \in Clients, Finish(c) PROVE Next
    BY <1>3 DEF Finish, Next
  <1>4. ASSUME NEW c \in Clients, UpToDate(c) \/ BeginRefresh(c) \/ Refresh(c) \/ ExecuteCached(c)
        PROVE UNCHANGED pool
    BY <1>4 DEF UpToDate, BeginRefresh, Refresh, PrepareFails, Prepare, EndRefresh, ExecuteCached
  <1>5. ASSUME NEW c \in Clients, NEW q \in Queries, ExecuteRaw(c, q) \/ Support(c, q) \/ Reuse(c, q)
        PROVE UNCHANGED pool
    BY <1>5 DEF ExecuteRaw, Support, Reuse
  <1>6. CASE UNCHANGED allVars
    BY <1>6 DEF allVars, pool
  <1>7. QED
    BY <1>1, <1>2, <1>3, <1>4, <1>5, <1>6 DEF QueriesNext

-----------------------------------------------------------------------------
\* What a query is printed as is one of the statements.
LEMMA OptionsTyped == \A q \in Queries : Options(q) \in Statements
  BY DEF Statements

\* The invariant holds initially.
LEMMA InitQueries == QueriesInit => QueriesIInv
  <1> SUFFICES ASSUME QueriesInit PROVE QueriesIInv
    OBVIOUS
  <1> USE DEF QueriesInit, Init, Fresh
  <1>1. QueriesTypeOK
    BY DEF QueriesTypeOK
  <1>2. Entries
    BY DEF Entries
  <1>3. Registered
    BY DEF Registered
  <1>4. CaughtUp
    BY DEF CaughtUp
  <1>5. OwnStatement
    BY DEF OwnStatement
  <1>6. FailsForAReason
    BY DEF FailsForAReason
  <1>7. QED
    BY <1>1, <1>2, <1>3, <1>4, <1>5, <1>6 DEF QueriesIInv

\* Steps of the pool that leave the connections in use where they are.
LEMMA OthersMove ==
  ASSUME IInv, QueriesIInv, UNCHANGED outside,
         \A d \in Clients : pc[d] = "using" => pc'[d] = "using" /\ proxy'[d] = proxy[d]
  PROVE  QueriesIInv'
  <1> USE DEF QueriesIInv, outside, registry, statements, entry
  <1>1. QueriesTypeOK'
    BY DEF QueriesTypeOK
  <1>2. \A d \in Clients : step[d] # "none" => pc[d] = "using" /\ proxy'[d] = proxy[d]
    BY DEF Entries
  <1>3. Entries'
    BY <1>2 DEF Entries
  <1>4. Registered'
    BY DEF Registered
  <1>5. \A d \in Taken : d \in Taken' /\ proxy'[d] = proxy[d]
    BY DEF Taken, IInv, PoolIInv, Holding
  <1>6. CaughtUp'
    BY <1>5 DEF CaughtUp
  <1>7. OwnStatement'
    BY DEF OwnStatement
  <1>8. FailsForAReason'
    BY <1>2 DEF FailsForAReason
  <1>9. QED
    BY <1>1, <1>3, <1>4, <1>6, <1>7, <1>8

LEMMA GetQueries ==
  ASSUME IInv, QueriesIInv, NEW c \in Clients, Call(c) \/ Grab(c) \/ Settle(c)
  PROVE  QueriesIInv'
  <1>1. UNCHANGED outside
    BY DEF Call, Grab, Settle
  <1>2. \A d \in Clients : pc[d] = "using" => pc'[d] = "using" /\ proxy'[d] = proxy[d]
    <2>1. TypeOK /\ Holding
      BY DEF IInv, PoolIInv
    <2>2. CASE Ask(c) \/ BeginCreate(c) \/ ConnectFails(c)
      BY <2>1, <2>2 DEF TypeOK, Ask, BeginCreate, ConnectFails
    <2>3. CASE GiveUp(c)
      BY <2>1, <2>3 DEF TypeOK, Holding, GiveUp
    <2>4. CASE TakeFree(c)
      BY <2>1, <2>4 DEF TypeOK, TakeFree
    <2>5. CASE Connected(c)
      BY <2>1, <2>5 DEF TypeOK, Holding, Connected
    <2>6. QED
      BY <2>2, <2>3, <2>4, <2>5 DEF Call, Grab, Settle
  <1>3. QED
    BY <1>1, <1>2, OthersMove
-----------------------------------------------------------------------------
\* A client in use of a connection is the only one.
LEMMA OneHolder ==
  ASSUME IInv, NEW c \in Clients, NEW d \in Clients,
         pc[c] = "using", pc[d] = "using", proxy[c] = proxy[d]
  PROVE  c = d
  BY DEF IInv, PoolIInv, Holding, Exclusive, Taken

\* Steps of one entry on the connection that its client keeps, which leave the
\* registry alone, and what has been noted, prepared and poisoned.
LEMMA EntrySteps ==
  ASSUME IInv, QueriesIInv, NEW c \in Clients,
         UNCHANGED <<pool, registry, locked, statements, todo>>,
         QueriesTypeOK',
         pc[c] = "using", step[c] # "refresh", step'[c] # "refresh",
         \A d \in Clients \ {c} : /\ step'[d] = step[d] /\ want'[d] = want[d]
                                  /\ id'[d] = id[d] /\ ran'[d] = ran[d],
         step'[c] \in {"check", "execute"} =>
           want'[c] # NoQuery /\ [id |-> id'[c], options |-> Options(want'[c])] \in stored,
         step'[c] = "execute" => id'[c] <= last[proxy[c]],
         ran'[c] # NoQuery =>
           ran'[c] = [options |-> Options(want'[c]), params |-> want'[c].params],
         step'[c] = "failed" => ~Good(Options(want'[c])) \/ proxy[c] \in poisoned
  PROVE  QueriesIInv'
  <1> USE DEF QueriesIInv, pool, registry, statements
  <1>1. Entries'
    <2> SUFFICES ASSUME NEW d \in Clients PROVE Entries!(d)'
      BY DEF Entries
    <2>1. CASE d = c
      BY <2>1 DEF Entries, QueriesTypeOK
    <2>2. CASE d # c
      BY <2>2 DEF Entries
    <2>3. QED
      BY <2>1, <2>2
  <1>2. Registered'
    BY DEF Registered
  <1>3. CaughtUp'
    BY DEF CaughtUp, Taken
  <1>4. OwnStatement'
    BY DEF OwnStatement
  <1>5. FailsForAReason'
    BY DEF FailsForAReason
  <1>6. QED
    BY <1>1, <1>2, <1>3, <1>4, <1>5

LEMMA ExecuteRawQueries ==
  ASSUME IInv, QueriesIInv, NEW c \in Clients, NEW q \in Queries, ExecuteRaw(c, q)
  PROVE  QueriesIInv'
  <1> USE DEF QueriesIInv, QueriesTypeOK
  <1>1. pc[c] = "using" /\ step[c] = "none" /\ ran[c] = NoQuery
    BY DEF ExecuteRaw, Ready
  <1>2. UNCHANGED <<pool, registry, locked, statements, todo>>
        /\ want' = [want EXCEPT ![c] = q]
    BY DEF ExecuteRaw
  <1>3. CASE Good(Options(q))
    <2>1. /\ ran' = [ran EXCEPT ![c] = [options |-> Options(q), params |-> q.params]]
          /\ UNCHANGED <<step, id>>
      BY <1>3 DEF ExecuteRaw
    <2>2. [options |-> Options(q), params |-> q.params] \in Runs
      BY DEF Runs
    <2>3. QueriesTypeOK'
      BY <1>2, <2>1, <2>2 DEF registry, statements
    <2>4. QED
      BY <1>1, <1>2, <2>1, <2>3, EntrySteps
  <1>4. CASE ~Good(Options(q))
    <2>1. /\ step' = [step EXCEPT ![c] = "failed"] /\ id' = [id EXCEPT ![c] = 0]
          /\ UNCHANGED ran
      BY <1>4 DEF ExecuteRaw, Throw, Entered
    <2>2. QueriesTypeOK'
      BY <1>2, <2>1 DEF registry, statements
    <2>3. QED
      BY <1>1, <1>2, <1>4, <2>1, <2>2, EntrySteps
  <1>5. QED
    BY <1>3, <1>4

LEMMA ReuseQueries ==
  ASSUME IInv, QueriesIInv, NEW c \in Clients, NEW q \in Queries, Reuse(c, q)
  PROVE  QueriesIInv'
  <1> USE DEF QueriesIInv, QueriesTypeOK
  <1>1. pc[c] = "using" /\ step[c] = "none" /\ ran[c] = NoQuery
    BY DEF Reuse, Ready
  <1>2. UNCHANGED <<pool, registry, locked, statements, todo>> /\ UNCHANGED ran
        /\ want' = [want EXCEPT ![c] = q] /\ step' = [step EXCEPT ![c] = "check"]
    BY DEF Reuse, Entered
  <1>3. PICK s \in Known(q) : id' = [id EXCEPT ![c] = s.id]
    BY DEF Reuse
  <1>4. s \in stored /\ s \in Supported /\ s.options = Options(q)
    <2>1. /\ s \in stored /\ s \in Supported /\ s.options.type = q.type
          /\ s.options.table = Options(q).table /\ s.options.filter = Options(q).filter
      BY DEF Known, Equals
    <2>2. PICK p \in Queries : s.options = Options(p)
      BY <2>1 DEF Supported, Statements
    <2>3. p.type = q.type /\ Equals(Options(p), Options(q))
      BY <2>1, <2>2 DEF Options, Equals
    <2>4. p.form = q.form
      BY <2>3, FormAssumption
    <2>5. QED
      BY <2>1, <2>2, <2>4 DEF Options
  <1>5. s.id \in Ids /\ s = [id |-> s.id, options |-> Options(q)]
    BY <1>4 DEF Supported
  <1>6. QueriesTypeOK'
    BY <1>2, <1>3, <1>5 DEF registry, statements, Ids
  <1>7. want'[c] # NoQuery /\ [id |-> id'[c], options |-> Options(want'[c])] \in stored
    BY <1>2, <1>3, <1>4, <1>5
  <1>8. step'[c] = "check" /\ ran'[c] = NoQuery
    BY <1>1, <1>2
  <1>9. QED
    BY <1>1, <1>2, <1>3, <1>6, <1>7, <1>8, EntrySteps

LEMMA UpToDateQueries ==
  ASSUME IInv, QueriesIInv, NEW c \in Clients, UpToDate(c)
  PROVE  QueriesIInv'
  <1> USE DEF QueriesIInv, QueriesTypeOK
  <1>1. /\ step[c] = "check" /\ last[proxy[c]] >= id[c] /\ step' = [step EXCEPT ![c] = "execute"]
        /\ UNCHANGED <<pool, registry, locked, statements, want, id, todo, ran>>
    BY DEF UpToDate, Entered
  <1>2. /\ pc[c] = "using" /\ want[c] # NoQuery
        /\ [id |-> id[c], options |-> Options(want[c])] \in stored
    BY <1>1 DEF Entries
  <1>3. QueriesTypeOK'
    BY <1>1 DEF registry, statements
  <1>4. proxy[c] \in Conns /\ last[proxy[c]] \in Nat /\ id[c] \in Nat
    BY <1>2 DEF IInv, PoolIInv, TypeOK, Holding
  <1>5. QED
    BY <1>1, <1>2, <1>3, <1>4, EntrySteps DEF OwnStatement
\* The registry gets one more query, or only an id that is never used.
LEMMA SupportQueries ==
  ASSUME IInv, QueriesIInv, NEW c \in Clients, NEW q \in Queries, Support(c, q)
  PROVE  QueriesIInv'
  <1> USE DEF QueriesIInv
  <1> DEFINE new == [id |-> nextId, options |-> Options(q)]
  <1>1. /\ pc[c] = "using" /\ step[c] = "none" /\ ran[c] = NoQuery
        /\ nextId <= MaxId /\ nextId' = nextId + 1 /\ locked = Nobody
        /\ want' = [want EXCEPT ![c] = q]
        /\ UNCHANGED <<pool, tracing, locked, statements, todo, ran>>
    BY DEF Support, Ready
  <1>2. nextId \in Ids /\ nextId \in Nat /\ q # NoQuery
    BY <1>1 DEF QueriesTypeOK, Ids
  <1>3. \/ /\ UNCHANGED stored /\ ~Good(Options(q))
           /\ step' = [step EXCEPT ![c] = "failed"] /\ id' = [id EXCEPT ![c] = 0]
        \/ /\ stored' = stored \cup {new}
           /\ step' = [step EXCEPT ![c] = "check"] /\ id' = [id EXCEPT ![c] = nextId]
    BY DEF Support, Throw, Entered, Good
  <1>4. new \in Supported /\ new.id = nextId /\ new.options = Options(q)
    BY <1>2, OptionsTyped DEF Supported
  <1> HIDE DEF new
  <1>5. QueriesTypeOK'
    BY <1>1, <1>2, <1>3, <1>4 DEF QueriesTypeOK, Ids, statements
  <1>6. \A s \in stored' : s \in stored \/ (s = new /\ s.id = nextId)
    BY <1>3, <1>4
  <1>7. stored \subseteq stored'
    BY <1>3
  <1>8. Registered'
    <2>1. \A s \in stored : s.id < nextId /\ s.id \in Nat
      BY DEF Registered, QueriesTypeOK, Supported, Ids
    <2>2. \A s \in stored' : s.id < nextId + 1
      BY <1>2, <1>6, <2>1
    <2>3. \A s, o \in stored' : s.id = o.id => s = o
      BY <1>2, <1>6, <2>1 DEF Registered
    <2>4. \A k \in Conns : last[k] < nextId /\ last[k] < nextId + 1
      BY <1>2 DEF Registered, QueriesTypeOK
    <2>5. QED
      BY <1>1, <1>7, <2>2, <2>3, <2>4 DEF Registered, statements
  <1>9. Entries'
    <2> SUFFICES ASSUME NEW d \in Clients PROVE Entries!(d)'
      BY DEF Entries
    <2>1. CASE d = c
      BY <1>1, <1>2, <1>3, <1>4, <2>1 DEF Entries, QueriesTypeOK, pool, new
    <2>2. CASE d # c
      BY <1>1, <1>3, <1>7, <2>2 DEF Entries, QueriesTypeOK, pool, statements
    <2>3. QED
      BY <2>1, <2>2
  <1>10. CaughtUp'
    <2> SUFFICES ASSUME NEW k \in Conns, NEW s \in stored', s.id <= last[k]
                 PROVE  k \in poisoned \/ s \in prepared[k]
                        \/ \E d \in Taken : proxy[d] = k /\ s \in todo[d]
      BY <1>1 DEF CaughtUp, Taken, pool, statements
    <2>1. s \in stored
      BY <1>2, <1>6 DEF Registered, QueriesTypeOK
    <2>2. QED
      BY <2>1 DEF CaughtUp
  <1>11. OwnStatement'
    BY <1>1 DEF OwnStatement, QueriesTypeOK
  <1>12. FailsForAReason'
    BY <1>1, <1>3 DEF FailsForAReason, QueriesTypeOK, pool, statements
  <1>13. QED
    BY <1>5, <1>8, <1>9, <1>10, <1>11, <1>12

-----------------------------------------------------------------------------
\* The client that refreshes is the only one that does, and has the lock.
LEMMA BeginRefreshQueries ==
  ASSUME IInv, QueriesIInv, NEW c \in Clients, BeginRefresh(c)
  PROVE  QueriesIInv'
  <1> USE DEF QueriesIInv
  <1> DEFINE k == proxy[c]
  <1>1. PICK s \in Newest(Newer(k)) : last' = [last EXCEPT ![k] = s.id]
    BY DEF BeginRefresh
  <1>2. /\ step[c] = "check" /\ last[k] < id[c] /\ locked = Nobody /\ locked' = c
        /\ todo' = [todo EXCEPT ![c] = Newer(k)] /\ step' = [step EXCEPT ![c] = "refresh"]
        /\ UNCHANGED <<pool, registry, prepared, poisoned, want, id, ran>>
    BY DEF BeginRefresh, Entered
  <1>3. /\ pc[c] = "using" /\ k \in Conns /\ c \in Taken /\ want[c] # NoQuery
        /\ [id |-> id[c], options |-> Options(want[c])] \in stored
    BY <1>2 DEF Entries, IInv, PoolIInv, TypeOK, Holding, Taken
  <1>4. /\ s \in stored /\ s.id > last[k] /\ s.id \in Ids
        /\ \A o \in stored : o.id > last[k] => o.id <= s.id
    BY <1>1 DEF Newest, Newer, QueriesTypeOK, Supported
  <1>5. /\ Ids \subseteq Nat /\ last[k] \in Nat /\ id[c] \in Nat
        /\ \A o \in stored : o.id \in Nat
    BY <1>3 DEF QueriesTypeOK, Ids, Supported
  <1>6. id[c] <= s.id
    BY <1>2, <1>3, <1>4
  <1>7. QueriesTypeOK'
    <2>1. last' \in [Conns -> 0 .. MaxId]
      <3>1. s.id \in 0 .. MaxId
        BY <1>4 DEF Ids
      <3>2. QED
        BY <1>1, <3>1 DEF QueriesTypeOK
    <2>2. todo' \in [Clients -> SUBSET Supported]
      BY <1>2 DEF QueriesTypeOK, Newer
    <2>3. QED
      BY <1>2, <2>1, <2>2 DEF QueriesTypeOK, registry
  <1> HIDE DEF k
  <1>8. \A d \in Clients \ {c} : pc[d] = "using" => proxy[d] # k
    BY <1>3, OneHolder DEF k
  <1>9. \A j \in Conns : j # k => last'[j] = last[j]
    BY <1>1 DEF QueriesTypeOK
  <1>10. last'[k] = s.id
    BY <1>1, <1>3 DEF QueriesTypeOK
  <1>11. Entries'
    <2> SUFFICES ASSUME NEW d \in Clients PROVE Entries!(d)'
      BY DEF Entries
    <2>1. CASE d = c
      BY <1>2, <1>3, <1>6, <1>10, <2>1 DEF Entries, QueriesTypeOK, pool, registry, k
    <2>2. CASE d # c
      <3>1. pc[d] = "using" => proxy[d] \in Conns /\ last'[proxy[d]] = last[proxy[d]]
        BY <1>8, <1>9, <2>2 DEF IInv, PoolIInv, TypeOK, Holding
      <3>2. QED
        BY <1>2, <2>2, <3>1 DEF Entries, QueriesTypeOK, pool, registry
    <2>3. QED
      BY <2>1, <2>2
  <1>12. Registered'
    BY <1>2, <1>4, <1>9, <1>10 DEF Registered, registry, QueriesTypeOK, Newer
  <1>13. CaughtUp'
    <2> SUFFICES ASSUME NEW j \in Conns, NEW o \in stored, o.id <= last'[j]
                 PROVE  j \in poisoned \/ o \in prepared[j]
                        \/ \E d \in Taken : proxy[d] = j /\ o \in todo'[d]
      BY <1>2 DEF CaughtUp, Taken, pool, registry
    <2>1. CASE j = k /\ o.id > last[k]
      <3>1. o \in todo'[c]
        BY <1>2, <2>1 DEF QueriesTypeOK, Newer
      <3>2. QED
        BY <1>3, <2>1, <3>1 DEF k
    <2>2. CASE j = k /\ ~(o.id > last[k])
      <3>1. o.id <= last[k]
        BY <1>5, <2>2
      <3>2. j \in poisoned \/ o \in prepared[j] \/ \E d \in Taken : proxy[d] = j /\ o \in todo[d]
        BY <2>2, <3>1 DEF CaughtUp
      <3>3. todo[c] = {}
        BY <1>2 DEF Entries
      <3>4. QED
        BY <1>2, <3>2, <3>3 DEF QueriesTypeOK, Taken
    <2>3. CASE j # k
      <3>1. j \in poisoned \/ o \in prepared[j] \/ \E d \in Taken : proxy[d] = j /\ o \in todo[d]
        BY <1>9, <2>3 DEF CaughtUp
      <3>2. \A d \in Clients \ {c} : todo'[d] = todo[d]
        BY <1>2 DEF QueriesTypeOK
      <3>3. QED
        BY <2>3, <3>1, <3>2 DEF Taken, k
    <2>4. QED
      BY <2>1, <2>2, <2>3
  <1>14. OwnStatement'
    BY <1>2 DEF OwnStatement
  <1>15. FailsForAReason'
    BY <1>2 DEF FailsForAReason, QueriesTypeOK, pool
  <1>16. QED
    BY <1>7, <1>11, <1>12, <1>13, <1>14, <1>15
\* The client that holds the lock, while its refresh goes on.
LEMMA Refreshing ==
  ASSUME IInv, QueriesIInv, NEW c \in Clients, step[c] = "refresh"
  PROVE  /\ locked = c /\ pc[c] = "using" /\ c \in Taken /\ proxy[c] \in Conns
         /\ \A d \in Clients \ {c} : step[d] # "refresh" /\ todo[d] = {}
         /\ \A d \in Clients \ {c} : pc[d] = "using" => proxy[d] # proxy[c]
         /\ id[c] <= last[proxy[c]] /\ want[c] # NoQuery
         /\ [id |-> id[c], options |-> Options(want[c])] \in stored
  <1>1. locked = c /\ pc[c] = "using"
    BY DEF QueriesIInv, Entries
  <1>2. c \in Taken /\ proxy[c] \in Conns
    BY <1>1 DEF IInv, PoolIInv, TypeOK, Holding, Taken
  <1>3. \A d \in Clients \ {c} : step[d] # "refresh" /\ todo[d] = {}
    BY <1>1 DEF QueriesIInv, Entries
  <1>4. \A d \in Clients \ {c} : pc[d] = "using" => proxy[d] # proxy[c]
    BY <1>1, OneHolder
  <1>5. QED
    BY <1>1, <1>2, <1>3, <1>4 DEF QueriesIInv, Entries

LEMMA PrepareFailsQueries ==
  ASSUME IInv, QueriesIInv, NEW c \in Clients, PrepareFails(c)
  PROVE  QueriesIInv'
  <1> USE DEF QueriesIInv
  <1>1. /\ step[c] = "refresh"
        /\ step' = [step EXCEPT ![c] = "failed"] /\ id' = [id EXCEPT ![c] = 0]
        /\ poisoned' = poisoned \cup {proxy[c]} /\ locked' = Nobody
        /\ todo' = [todo EXCEPT ![c] = {}]
        /\ UNCHANGED <<pool, registry, last, prepared, want, ran>>
    BY DEF PrepareFails, Throw, Entered
  <1>2. /\ locked = c /\ pc[c] = "using" /\ proxy[c] \in Conns
        /\ \A d \in Clients \ {c} : step[d] # "refresh" /\ todo[d] = {}
    BY <1>1, Refreshing
  <1>3. QueriesTypeOK'
    BY <1>1, <1>2 DEF QueriesTypeOK, registry
  <1>4. Entries'
    <2> SUFFICES ASSUME NEW d \in Clients PROVE Entries!(d)'
      BY DEF Entries
    <2>1. CASE d = c
      BY <1>1, <1>2, <2>1 DEF Entries, QueriesTypeOK, pool, registry
    <2>2. CASE d # c
      BY <1>1, <1>2, <2>2 DEF Entries, QueriesTypeOK, pool, registry
    <2>3. QED
      BY <2>1, <2>2
  <1>5. Registered'
    BY <1>1 DEF Registered, registry, QueriesTypeOK
  <1>6. CaughtUp'
    <2> SUFFICES ASSUME NEW j \in Conns, NEW o \in stored, o.id <= last[j], j \notin poisoned'
                 PROVE  o \in prepared[j] \/ \E d \in Taken : proxy[d] = j /\ o \in todo'[d]
      BY <1>1 DEF CaughtUp, Taken, pool, registry
    <2>1. j \notin poisoned /\ j # proxy[c]
      BY <1>1
    <2>2. CASE o \in prepared[j]
      BY <2>2
    <2>3. CASE o \notin prepared[j]
      <3>1. PICK d \in Taken : proxy[d] = j /\ o \in todo[d]
        BY <2>1, <2>3 DEF CaughtUp
      <3>2. d # c /\ todo'[d] = todo[d]
        BY <1>1, <2>1, <3>1 DEF QueriesTypeOK, Taken
      <3>3. QED
        BY <3>1, <3>2
    <2>4. QED
      BY <2>2, <2>3
  <1>7. OwnStatement'
    BY <1>1 DEF OwnStatement
  <1>8. FailsForAReason'
    BY <1>1 DEF FailsForAReason, QueriesTypeOK, pool
  <1>9. QED
    BY <1>3, <1>4, <1>5, <1>6, <1>7, <1>8

LEMMA PrepareQueries ==
  ASSUME IInv, QueriesIInv, NEW c \in Clients, Prepare(c)
  PROVE  QueriesIInv'
  <1> USE DEF QueriesIInv
  <1>1. PICK s \in Newest(todo[c]) :
          /\ prepared' = [prepared EXCEPT ![proxy[c]] = @ \cup {s}]
          /\ todo' = [todo EXCEPT ![c] = @ \ {s}]
    BY DEF Prepare
  <1>2. /\ step[c] = "refresh"
        /\ UNCHANGED <<pool, registry, locked, last, poisoned, step, want, id, ran>>
    BY DEF Prepare
  <1>3. s \in todo[c] /\ s \in stored /\ s \in Supported
    BY <1>1 DEF Newest, Registered, QueriesTypeOK
  <1>4. proxy[c] \in Conns /\ c \in Taken
    BY <1>2, Refreshing
  <1>5. QueriesTypeOK'
    <2>1. prepared' \in [Conns -> SUBSET Supported]
      BY <1>1, <1>3 DEF QueriesTypeOK
    <2>2. todo' \in [Clients -> SUBSET Supported]
      BY <1>1 DEF QueriesTypeOK
    <2>3. QED
      BY <1>2, <2>1, <2>2 DEF QueriesTypeOK, registry
  <1>6. Entries'
    BY <1>1, <1>2 DEF Entries, QueriesTypeOK, pool, registry
  <1>7. Registered'
    BY <1>1, <1>2, <1>3 DEF Registered, registry, QueriesTypeOK
  <1>8. CaughtUp'
    <2> SUFFICES ASSUME NEW j \in Conns, NEW o \in stored, o.id <= last[j], j \notin poisoned
                 PROVE  o \in prepared'[j] \/ \E d \in Taken : proxy[d] = j /\ o \in todo'[d]
      BY <1>2 DEF CaughtUp, Taken, pool, registry
    <2>1. CASE o \in prepared[j]
      BY <1>1, <2>1 DEF QueriesTypeOK
    <2>2. CASE o \notin prepared[j]
      <3>1. PICK d \in Taken : proxy[d] = j /\ o \in todo[d]
        BY <2>2 DEF CaughtUp
      <3>2. CASE d = c /\ o = s
        BY <1>1, <1>4, <3>1, <3>2 DEF QueriesTypeOK
      <3>3. CASE ~(d = c /\ o = s)
        BY <1>1, <3>1, <3>3 DEF QueriesTypeOK, Taken
      <3>4. QED
        BY <3>2, <3>3
    <2>3. QED
      BY <2>1, <2>2
  <1>9. OwnStatement'
    BY <1>2 DEF OwnStatement
  <1>10. FailsForAReason'
    BY <1>2 DEF FailsForAReason, pool
  <1>11. QED
    BY <1>5, <1>6, <1>7, <1>8, <1>9, <1>10

LEMMA EndRefreshQueries ==
  ASSUME IInv, QueriesIInv, NEW c \in Clients, EndRefresh(c)
  PROVE  QueriesIInv'
  <1> USE DEF QueriesIInv
  <1>1. /\ step[c] = "refresh" /\ todo[c] = {} /\ locked' = Nobody
        /\ step' = [step EXCEPT ![c] = "execute"]
        /\ UNCHANGED <<pool, registry, statements, want, id, todo, ran>>
    BY DEF EndRefresh, Entered
  <1>2. /\ locked = c /\ pc[c] = "using" /\ id[c] <= last[proxy[c]] /\ want[c] # NoQuery
        /\ [id |-> id[c], options |-> Options(want[c])] \in stored
        /\ \A d \in Clients \ {c} : step[d] # "refresh"
    BY <1>1, Refreshing
  <1>3. QueriesTypeOK'
    BY <1>1 DEF QueriesTypeOK, registry, statements
  <1>4. Entries'
    <2> SUFFICES ASSUME NEW d \in Clients PROVE Entries!(d)'
      BY DEF Entries
    <2>1. CASE d = c
      BY <1>1, <1>2, <2>1 DEF Entries, QueriesTypeOK, pool, registry, statements
    <2>2. CASE d # c
      BY <1>1, <1>2, <2>2 DEF Entries, QueriesTypeOK, pool, registry, statements
    <2>3. QED
      BY <2>1, <2>2
  <1>5. Registered' /\ CaughtUp' /\ OwnStatement'
    BY <1>1 DEF Registered, CaughtUp, OwnStatement, Taken, pool, registry, statements
  <1>6. FailsForAReason'
    BY <1>1 DEF FailsForAReason, QueriesTypeOK, pool, statements
  <1>7. QED
    BY <1>3, <1>4, <1>5, <1>6
-----------------------------------------------------------------------------
\* What is executed is what the connection prepared for the id, and only a
\* connection on which a prepare has failed lacks it.
LEMMA ExecuteCachedQueries ==
  ASSUME IInv, QueriesIInv, NEW c \in Clients, ExecuteCached(c)
  PROVE  QueriesIInv'
  <1> USE DEF QueriesIInv
  <1> DEFINE k == proxy[c]
             new == [id |-> id[c], options |-> Options(want[c])]
  <1>1. /\ step[c] = "execute"
        /\ UNCHANGED <<pool, registry, locked, statements, want, todo>>
    BY DEF ExecuteCached
  <1>2. /\ pc[c] = "using" /\ c \in Taken /\ k \in Conns /\ want[c] # NoQuery
        /\ new \in stored /\ id[c] <= last[k] /\ todo[c] = {}
    BY <1>1 DEF Entries, IInv, PoolIInv, TypeOK, Holding, Taken
  <1>3. CASE \A s \in prepared[k] : s.id # id[c]
    <2>1. /\ step' = [step EXCEPT ![c] = "failed"] /\ id' = [id EXCEPT ![c] = 0]
          /\ UNCHANGED ran
      BY <1>3 DEF ExecuteCached, Throw, Entered
    <2>2. QueriesTypeOK'
      BY <1>1, <2>1 DEF QueriesTypeOK, registry, statements
    <2>3. \A d \in Taken : proxy[d] = k => d = c
      BY <1>2, OneHolder DEF IInv, PoolIInv, Holding, Taken
    <2>4. k \in poisoned
      BY <1>2, <1>3, <2>3 DEF CaughtUp
    <2>5. step'[c] = "failed" /\ ran'[c] = ran[c]
      BY <2>1 DEF QueriesTypeOK
    <2>6. ran[c] # NoQuery => ran[c] = [options |-> Options(want[c]), params |-> want[c].params]
      BY DEF OwnStatement
    <2>7. UNCHANGED want /\ step[c] # "refresh"
      BY <1>1
    <2>8. \A d \in Clients \ {c} : /\ step'[d] = step[d] /\ want'[d] = want[d]
                                   /\ id'[d] = id[d] /\ ran'[d] = ran[d]
      BY <2>1, <2>7 DEF QueriesTypeOK
    <2>9. QED
      BY <1>1, <1>2, <2>2, <2>4, <2>5, <2>6, <2>7, <2>8, EntrySteps
  <1>4. CASE \E s \in prepared[k] : s.id = id[c]
    <2>1. PICK s \in prepared[k] :
            s.id = id[c] /\ ran' = [ran EXCEPT ![c] = [options |-> s.options, params |-> want[c].params]]
      BY <1>4 DEF ExecuteCached
    <2>2. step' = [step EXCEPT ![c] = "none"] /\ id' = [id EXCEPT ![c] = 0]
      BY <1>4 DEF ExecuteCached, Entered
    <2>3. s.options = Options(want[c])
      <3>1. s \in stored /\ new.id = id[c] /\ new.options = Options(want[c])
        BY <1>2 DEF Registered
      <3>2. QED
        BY <1>2, <2>1, <3>1 DEF Registered
    <2>4. want[c] \in Queries
      BY <1>2 DEF QueriesTypeOK
    <2>5. [options |-> s.options, params |-> want[c].params] \in Runs
      BY <2>3, <2>4 DEF Runs
    <2>6. QueriesTypeOK'
      BY <1>1, <2>1, <2>2, <2>5 DEF QueriesTypeOK, registry, statements
    <2>7. ran'[c] = [options |-> Options(want[c]), params |-> want[c].params]
          /\ step'[c] = "none" /\ UNCHANGED want /\ step[c] # "refresh"
      BY <1>1, <2>1, <2>2, <2>3 DEF QueriesTypeOK
    <2>8. \A d \in Clients \ {c} : /\ step'[d] = step[d] /\ want'[d] = want[d]
                                   /\ id'[d] = id[d] /\ ran'[d] = ran[d]
      BY <2>1, <2>2, <2>7 DEF QueriesTypeOK
    <2>9. QED
      BY <1>1, <1>2, <2>6, <2>7, <2>8, EntrySteps
  <1>5. QED
    BY <1>3, <1>4

\* A connection that is not kept forgets what it has noted.
LEMMA FinishQueries ==
  ASSUME IInv, QueriesIInv, NEW c \in Clients, Finish(c)
  PROVE  QueriesIInv'
  <1> USE DEF QueriesIInv
  <1> DEFINE k == proxy[c]
  <1>1. /\ step[c] \in {"none", "failed"} /\ pc[c] = "using"
        /\ proxy' = [proxy EXCEPT ![c] = NoConn] /\ pc' = [pc EXCEPT ![c] = "idle"]
        /\ step' = [step EXCEPT ![c] = "none"] /\ want' = [want EXCEPT ![c] = NoQuery]
        /\ ran' = [ran EXCEPT ![c] = NoQuery]
        /\ UNCHANGED <<id, todo, registry, locked>>
    BY DEF Finish, Return
  <1>2. \/ UNCHANGED statements
        \/ /\ last' = [last EXCEPT ![k] = 0] /\ prepared' = [prepared EXCEPT ![k] = {}]
           /\ poisoned' = poisoned \ {k}
    BY DEF Finish
  <1>3. k \in Conns /\ todo[c] = {} /\ TypeOK
    BY <1>1 DEF Entries, IInv, PoolIInv, TypeOK, Holding
  <1>4. \A d \in Clients \ {c} : pc[d] = "using" => proxy[d] # k /\ proxy[d] \in Conns
    BY <1>1, OneHolder DEF IInv, PoolIInv, TypeOK, Holding
  <1> HIDE DEF k
  <1>5. \A j \in Conns \ {k} :
          last'[j] = last[j] /\ prepared'[j] = prepared[j] /\ (j \in poisoned => j \in poisoned')
    BY <1>2 DEF QueriesTypeOK, statements
  <1>6. QueriesTypeOK'
    BY <1>1, <1>2 DEF QueriesTypeOK, statements, registry
  <1>7. \A d \in Clients \ {c} : /\ pc'[d] = pc[d] /\ proxy'[d] = proxy[d]
                                 /\ step'[d] = step[d] /\ want'[d] = want[d] /\ ran'[d] = ran[d]
    BY <1>1, <1>3 DEF QueriesTypeOK, TypeOK
  <1>8. step'[c] = "none" /\ want'[c] = NoQuery /\ ran'[c] = NoQuery
    BY <1>1 DEF QueriesTypeOK
  <1>9. Entries'
    <2> SUFFICES ASSUME NEW d \in Clients PROVE Entries!(d)'
      BY DEF Entries
    <2>1. CASE d = c
      BY <1>1, <1>3, <1>8, <2>1 DEF Entries, registry
    <2>2. CASE d # c
      BY <1>1, <1>4, <1>5, <1>7, <2>2 DEF Entries, registry
    <2>3. QED
      BY <2>1, <2>2
  <1>10. Registered'
    <2>1. \A j \in Conns : prepared'[j] \subseteq stored /\ last'[j] < nextId
      BY <1>2, <1>3 DEF Registered, QueriesTypeOK, statements
    <2>2. QED
      BY <1>1, <2>1 DEF Registered, registry
  <1>11. CaughtUp'
    <2> SUFFICES ASSUME NEW j \in Conns, NEW o \in stored, o.id <= last'[j]
                 PROVE  j \in poisoned' \/ o \in prepared'[j]
                        \/ \E d \in Taken' : proxy'[d] = j /\ o \in todo[d]
      BY <1>1 DEF CaughtUp, registry
    <2>1. CASE last'[j] = last[j] /\ prepared'[j] = prepared[j] /\ (j \in poisoned => j \in poisoned')
      <3>1. CASE j \in poisoned \/ o \in prepared[j]
        BY <2>1, <3>1
      <3>2. CASE ~(j \in poisoned \/ o \in prepared[j])
        <4>1. PICK d \in Taken : proxy[d] = j /\ o \in todo[d]
          BY <2>1, <3>2 DEF CaughtUp
        <4>2. d # c /\ d \in Clients /\ proxy[d] # NoConn
          BY <1>3, <4>1 DEF Taken
        <4>3. QED
          BY <1>7, <4>1, <4>2 DEF Taken
      <3>3. QED
        BY <3>1, <3>2
    <2>2. CASE j = k /\ last'[j] = 0
      BY <2>2 DEF QueriesTypeOK, Supported, Ids
    <2>3. QED
      BY <1>2, <1>3, <1>5, <2>1, <2>2 DEF QueriesTypeOK, statements
  <1>12. OwnStatement'
    BY <1>7, <1>8 DEF OwnStatement
  <1>13. FailsForAReason'
    <2>1. \A d \in Clients \ {c} : step[d] = "failed" => pc[d] = "using"
      BY DEF Entries
    <2>2. QED
      BY <1>4, <1>5, <1>7, <1>8, <2>1 DEF FailsForAReason
  <1>14. QED
    BY <1>6, <1>9, <1>10, <1>11, <1>12, <1>13

-----------------------------------------------------------------------------
\* Every step keeps the invariant.
LEMMA NextQueries == IInv /\ QueriesIInv /\ [QueriesNext]_allVars => QueriesIInv'
  <1> SUFFICES ASSUME IInv, QueriesIInv, [QueriesNext]_allVars PROVE QueriesIInv'
    OBVIOUS
  <1>1. ASSUME NEW c \in Clients,
               \/ Call(c) \/ Grab(c) \/ Settle(c) \/ Finish(c)
               \/ UpToDate(c) \/ BeginRefresh(c) \/ Refresh(c) \/ ExecuteCached(c)
        PROVE  QueriesIInv'
    BY <1>1, GetQueries, FinishQueries, UpToDateQueries, BeginRefreshQueries, PrepareFailsQueries,
       PrepareQueries, EndRefreshQueries, ExecuteCachedQueries DEF Refresh
  <1>2. ASSUME NEW c \in Clients, NEW q \in Queries, ExecuteRaw(c, q) \/ Support(c, q) \/ Reuse(c, q)
        PROVE  QueriesIInv'
    BY <1>2, ExecuteRawQueries, SupportQueries, ReuseQueries
  <1>3. CASE UNCHANGED allVars
    BY <1>3, OthersMove DEF allVars, outside, pool
  <1>4. QED
    BY <1>1, <1>2, <1>3 DEF QueriesNext

\* The invariant of the pool and that of the queries hold in every state.
THEOREM QueriesInvariance == QueriesSpec => [](IInv /\ QueriesIInv)
  <1>1. QueriesInit => IInv /\ QueriesIInv
    BY InitIInv, InitQueries DEF QueriesInit
  <1>2. IInv /\ QueriesIInv /\ [QueriesNext]_allVars => (IInv /\ QueriesIInv)'
    BY PoolNext, StepIInv, NextQueries
  <1>3. QED
    BY <1>1, <1>2, PTL DEF QueriesSpec

\* The pool keeps its promises while its clients prepare and execute.
THEOREM StillExclusive == QueriesSpec => [](Exclusive /\ QuotaKept)
  <1>1. IInv => Exclusive /\ QuotaKept
    BY DEF IInv, PoolIInv, QuotaKept
  <1>2. QED
    BY <1>1, QueriesInvariance, PTL

\* A client that executes a statement by its id executes its own query with
\* its own values.
THEOREM OwnQuery == QueriesSpec => []OwnStatement
  <1>1. QueriesIInv => OwnStatement
    BY DEF QueriesIInv
  <1>2. QED
    BY <1>1, QueriesInvariance, PTL

\* An entry fails only when its own query is bad, or on a connection on which
\* a prepare has failed before.
THEOREM FailuresExplained == QueriesSpec => []FailsForAReason
  <1>1. QueriesIInv => FailsForAReason
    BY DEF QueriesIInv
  <1>2. QED
    BY <1>1, QueriesInvariance, PTL
=============================================================================
