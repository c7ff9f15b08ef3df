--------------------------- MODULE BrowsingProofs ---------------------------
(***************************************************************************)
(* What a client of the lists can rely on, for any tables, bookings,       *)
(* batches and pages: IInv is inductive and implies the properties that    *)
(* TLC checks on a small instance.                                         *)
(***************************************************************************)
EXTENDS Browsing, FiniteSetTheorems, TLAPS

-----------------------------------------------------------------------------
(* Sequences that enumerate a set.                                         *)

\* The numbers of the first p rows, which are p when no two are the same.
First(s, p) == {s[i].operation_id : i \in 1 .. p}

LEMMA CountFirst ==
  ASSUME NEW p \in Nat, NEW s,
         \A i, j \in 1 .. p : s[i].operation_id = s[j].operation_id => i = j
  PROVE  IsFiniteSet(First(s, p)) /\ Cardinality(First(s, p)) = p
  <1> DEFINE T == First(s, p)
             g == [i \in 1 .. p |-> s[i].operation_id]
  <1>1. g \in Bijection(1 .. p, T)
    BY DEF First, Bijection, Injection, Surjection, IsInjective
  <1>2. ExistsBijection(1 .. p, T)
    BY <1>1 DEF ExistsBijection
  <1>3. IsFiniteSet(1 .. p) /\ Cardinality(1 .. p) = p
    BY FS_Interval
  <1>4. QED
    BY <1>2, <1>3, FS_Bijection

LEMMA Enumerates ==
  ASSUME NEW S, IsFiniteSet(S), NEW s \in SetToSeqs(S)
  PROVE  /\ Cardinality(S) \in Nat /\ s \in Seq(S)
         /\ Len(s) = Cardinality(S) /\ DOMAIN s = 1 .. Cardinality(S)
         /\ \A x \in S : \E i \in 1 .. Cardinality(S) : s[i] = x
         /\ \A i, j \in 1 .. Cardinality(S) : s[i] = s[j] => i = j
  <1>1. PICK n \in Nat : n = Cardinality(S)
    BY FS_CardinalityType
  <1>2. s \in [1 .. n -> S] /\ \A i, j \in 1 .. n : i # j => s[i] # s[j]
    BY <1>1 DEF SetToSeqs
  <1>3. s \in Injection(1 .. n, S)
    BY <1>2 DEF Injection, IsInjective
  <1>4. Cardinality(1 .. n) = n
    BY FS_Interval
  <1>5. s \in Surjection(1 .. n, S)
    BY <1>1, <1>3, <1>4, FS_Injection
  <1>6. \A x \in S : \E i \in 1 .. n : s[i] = x
    BY <1>5 DEF Surjection
  <1>7. s \in Seq(S) /\ Len(s) = n /\ DOMAIN s = 1 .. n
    BY <1>2
  <1>8. QED
    BY <1>1, <1>2, <1>6, <1>7

\* A key of one column.
LEMMA OneColumn ==
  ASSUME NEW S, NEW key, Keyed(S, {key})
  PROVE  \A x, y \in S : x[key] = y[key] => x = y
  <1> SUFFICES ASSUME NEW x \in S, NEW y \in S, x[key] = y[key] PROVE x = y
    OBVIOUS
  <1>1. \A k \in {key} : x[k] = y[k]
    OBVIOUS
  <1>2. QED
    BY <1>1 DEF Keyed

\* Rows with a key that is a number, in its order.
LEMMA Strictly ==
  ASSUME NEW S, IsFiniteSet(S), Keyed(S, {"operation_id"}),
         \A o \in S : o.operation_id \in Nat, NEW s \in Orders(S, "operation_id")
  PROVE  /\ s \in SetToSeqs(S)
         /\ \A i, j \in 1 .. Cardinality(S) :
              i < j => s[i].operation_id < s[j].operation_id
  <1>1. s \in SetToSeqs(S)
    BY DEF Orders
  <1>2. \A i, j \in 1 .. Cardinality(S) : i < j => s[i].operation_id <= s[j].operation_id
    BY <1>1, Enumerates DEF Orders
  <1> SUFFICES ASSUME NEW i \in 1 .. Cardinality(S), NEW j \in 1 .. Cardinality(S), i < j
               PROVE  s[i].operation_id < s[j].operation_id
    BY <1>1
  <1>3. i # j /\ Cardinality(S) \in Nat
    BY FS_CardinalityType
  <1>4. s[i] \in S /\ s[j] \in S /\ s[i] # s[j]
    BY <1>1, <1>3, Enumerates
  <1>5. s[i].operation_id # s[j].operation_id
    <2>1. s[i]["operation_id"] # s[j]["operation_id"]
      BY <1>4, OneColumn
    <2>2. QED
      BY <2>1
  <1>6. QED
    BY <1>2, <1>4, <1>5

-----------------------------------------------------------------------------
(* One batch after the other.                                              *)

\* s is the n operations of the product in the order of their numbers.
Ranked(s, n) ==
  /\ n \in Nat /\ s \in Seq(Operations) /\ Len(s) = n /\ DOMAIN s = 1 .. n
  /\ \A i \in 1 .. n : s[i].operation_id \in Numbers
  /\ \A x \in Numbers : x \in Nat /\ \E i \in 1 .. n : s[i].operation_id = x
  /\ \A i, j \in 1 .. n : i < j => s[i].operation_id < s[j].operation_id
  /\ \A p \in 0 .. n : IsFiniteSet(First(s, p)) /\ Cardinality(First(s, p)) = p

LEMMA OperationsFinite ==
  ASSUME Drawn
  PROVE  /\ IsFiniteSet(Operations) /\ Keyed(Operations, {"operation_id"})
         /\ \A o \in Operations : o.operation_id \in Nat
         /\ IsFiniteSet(Numbers)
  <1>1. "Operation" \in DOMAIN Schema /\ PrimaryKey["Operation"] = {"operation_id"}
    BY DEF Schema, PrimaryKey
  <1>2. IsFiniteSet(db.Operation) /\ Keyed(db.Operation, {"operation_id"})
    BY <1>1 DEF Drawn, WellKept
  <1>3. IsFiniteSet(Operations)
    BY <1>2, FS_Subset DEF Operations
  <1>4. Keyed(Operations, {"operation_id"})
    BY <1>2 DEF Keyed, Operations
  <1>5. \A o \in Operations : o.operation_id \in Nat
    BY DEF Drawn, Operations
  <1>6. IsFiniteSet(Numbers)
    <2>1. \A x \in Numbers : x \in Nat /\ x <= drawn
      BY DEF Numbers, Operations, Drawn
    <2>2. Numbers \in SUBSET Nat /\ drawn \in Nat
      BY <2>1 DEF Drawn
    <2>3. QED
      BY <2>1, <2>2, FS_BoundedSetOfNaturals
  <1>7. QED
    BY <1>3, <1>4, <1>5, <1>6

LEMMA IsRanked ==
  ASSUME Drawn, NEW s \in Orders(Operations, "operation_id")
  PROVE  \E n \in Nat : Ranked(s, n)
  <1>1. PICK n \in Nat : n = Cardinality(Operations)
    BY OperationsFinite, FS_CardinalityType
  <1>2. s \in SetToSeqs(Operations)
    BY OperationsFinite, Strictly
  <1>3. \A i, j \in 1 .. n : i < j => s[i].operation_id < s[j].operation_id
    BY <1>1, OperationsFinite, Strictly
  <1>4. /\ s \in Seq(Operations) /\ Len(s) = n /\ DOMAIN s = 1 .. n
        /\ \A x \in Operations : \E i \in 1 .. n : s[i] = x
    BY <1>1, <1>2, OperationsFinite, Enumerates
  <1>5. \A i \in 1 .. n : s[i] \in Operations /\ s[i].operation_id \in Nat
    BY <1>4, OperationsFinite
  <1>6. \A i, j \in 1 .. n : s[i].operation_id = s[j].operation_id => i = j
    BY <1>3, <1>5
  <1>7. ASSUME NEW p \in 0 .. n
        PROVE  IsFiniteSet(First(s, p)) /\ Cardinality(First(s, p)) = p
    <2>1. p \in Nat /\ \A i, j \in 1 .. p : s[i].operation_id = s[j].operation_id => i = j
      BY <1>6
    <2>2. QED
      BY <2>1, CountFirst
  <1>8. \A i \in 1 .. n : s[i].operation_id \in Numbers
    BY <1>5 DEF Numbers
  <1>9. \A x \in Numbers : x \in Nat /\ \E i \in 1 .. n : s[i].operation_id = x
    BY <1>4, OperationsFinite DEF Numbers
  <1>10. QED
    BY <1>3, <1>4, <1>7, <1>8, <1>9 DEF Ranked

\* Among the rows before the end of what is shown none is missed.
LEMMA Passed ==
  ASSUME Drawn, InOrder(shown), NEW s, NEW n \in Nat, Ranked(s, n),
         NEW p \in 1 .. n, p <= Len(shown)
  PROVE  s[p].operation_id \in NumbersOf(shown) \cup late
  <1> SUFFICES ASSUME s[p].operation_id \notin NumbersOf(shown) \cup late PROVE FALSE
    OBVIOUS
  <1> DEFINE x == s[p].operation_id
             first == First(s, p - 1)
  <1>1. x \in Numbers /\ x \in Nat
    BY DEF Ranked
  <1>2. \A r \in NumbersOf(shown) : r \in Numbers /\ r \in Nat
    <2>1. shown \in Seq(Operations)
      BY DEF InOrder
    <2>2. \A i \in DOMAIN shown : shown[i] \in Operations
      BY <2>1
    <2>3. QED
      BY <2>2 DEF NumbersOf, Numbers, Ranked
  <1>3. \A r \in NumbersOf(shown) : r < x
    <2>1. x \notin UpTo(shown)
      BY DEF InOrder
    <2>2. QED
      BY <1>1, <1>2, <2>1 DEF UpTo
  <1>4. UpTo(shown) \subseteq first
    <2> SUFFICES ASSUME NEW y \in Numbers, NEW r \in NumbersOf(shown), y <= r PROVE y \in first
      BY DEF UpTo
    <2>1. PICK j \in 1 .. n : s[j].operation_id = y
      BY DEF Ranked
    <2>2. y < x /\ y \in Nat
      BY <1>1, <1>2, <1>3 DEF Ranked
    <2>3. j < p
      BY <2>1, <2>2, <1>1 DEF Ranked
    <2>4. QED
      BY <2>1, <2>3 DEF First
  <1>5. IsFiniteSet(first) /\ Cardinality(first) = p - 1
    BY DEF Ranked
  <1>6. Cardinality(UpTo(shown)) <= p - 1 /\ Cardinality(UpTo(shown)) \in Nat
    <2> HIDE DEF first
    <2> QED
      BY <1>4, <1>5, FS_Subset, FS_CardinalityType
  <1>7. Len(shown) <= Cardinality(UpTo(shown)) /\ Len(shown) \in Nat
    BY DEF InOrder
  <1>8. QED
    BY <1>6, <1>7

\* What follows on what is shown, up to the e-th row.
LEMMA Appended ==
  ASSUME NEW S, NEW shwn \in Seq(S), NEW s \in Seq(S), NEW e \in 0 .. Len(s)
  PROVE  LET seen == shwn \o SubSeq(s, Len(shwn) + 1, e)
         IN  /\ seen \in Seq(S) /\ DOMAIN seen = 1 .. Len(seen)
             /\ e <= Len(shwn) => seen = shwn /\ SubSeq(s, Len(shwn) + 1, e) = <<>>
             /\ e > Len(shwn) =>
                  /\ Len(seen) = e
                  /\ \A i \in 1 .. Len(shwn) : seen[i] = shwn[i]
                  /\ \A i \in Len(shwn) + 1 .. e : seen[i] = s[i]
  <1> DEFINE rows == SubSeq(s, Len(shwn) + 1, e)
  <1>1. PICK m \in Nat : m = Len(shwn)
    OBVIOUS
  <1>2. PICK n \in Nat : n = Len(s)
    OBVIOUS
  <1>3. rows \in Seq(S)
    BY <1>1, <1>2
  <1>4. CASE e <= m
    <2>1. rows = <<>>
      BY <1>1, <1>2, <1>4
    <2>2. shwn \o <<>> = shwn
      OBVIOUS
    <2>3. QED
      BY <1>1, <1>3, <1>4, <2>1, <2>2
  <1>5. CASE e > m
    <2>1. Len(rows) = e - m /\ \A i \in 1 .. e - m : rows[i] = s[m + i]
      BY <1>1, <1>2, <1>5
    <2> HIDE DEF rows
    <2>2. Len(shwn \o rows) = e
      BY <1>1, <1>3, <1>5, <2>1
    <2>3. \A i \in 1 .. m : (shwn \o rows)[i] = shwn[i]
      BY <1>1, <1>3
    <2>4. ASSUME NEW i \in m + 1 .. e PROVE (shwn \o rows)[i] = s[i]
      <3>1. (shwn \o rows)[i] = rows[i - m]
        BY <1>1, <1>3, <2>1
      <3>2. i - m \in 1 .. e - m /\ m + (i - m) = i
        BY <1>5
      <3>3. QED
        BY <2>1, <3>1, <3>2
    <2>5. QED
      BY <1>1, <1>3, <1>5, <2>2, <2>3, <2>4 DEF rows
  <1>6. QED
    BY <1>1, <1>4, <1>5

\* The rows from the end of what is shown to the e-th continue it, and when
\* the e-th is the last, nothing is missing but what came late.
LEMMA Continued ==
  ASSUME Drawn, InOrder(shown), NEW s, NEW n \in Nat, Ranked(s, n), NEW e \in 0 .. n,
         NEW seen, seen = shown \o SubSeq(s, Len(shown) + 1, e)
  PROVE  InOrder(seen) /\ (e = n => Numbers \subseteq NumbersOf(seen) \cup late)
  <1>1. PICK m \in Nat : m = Len(shown)
    BY DEF InOrder
  <1>2. shown \in Seq(Operations) /\ DOMAIN shown = 1 .. m
    BY <1>1 DEF InOrder
  <1>3. s \in Seq(Operations) /\ Len(s) = n
    BY DEF Ranked
  <1>4. /\ seen \in Seq(Operations) /\ DOMAIN seen = 1 .. Len(seen)
        /\ e <= m => seen = shown
        /\ e > m => /\ Len(seen) = e
                    /\ \A i \in 1 .. m : seen[i] = shown[i]
                    /\ \A i \in m + 1 .. e : seen[i] = s[i]
    BY <1>1, <1>2, <1>3, Appended
  <1>5. \A p \in 1 .. n : p <= m => s[p].operation_id \in NumbersOf(shown) \cup late
    BY <1>1, Passed
  <1>6. CASE e <= m
    <2>1. seen = shown
      BY <1>4, <1>6
    <2>2. ASSUME e = n, NEW x \in Numbers PROVE x \in NumbersOf(shown) \cup late
      <3>1. PICK p \in 1 .. n : s[p].operation_id = x
        BY DEF Ranked
      <3>2. p <= m
        BY <1>6, <2>2
      <3>3. QED
        BY <1>5, <3>1, <3>2
    <2>3. QED
      BY <2>1, <2>2
  <1>7. CASE e > m
    <2>1. /\ Len(seen) = e /\ DOMAIN seen = 1 .. e
          /\ \A i \in 1 .. m : seen[i] = shown[i]
          /\ \A i \in m + 1 .. e : seen[i] = s[i]
      BY <1>4, <1>7
    <2>2. NumbersOf(shown) \subseteq NumbersOf(seen)
      BY <1>2, <1>7, <2>1 DEF NumbersOf
    <2>3. ASSUME NEW p \in 1 .. n, p <= e PROVE s[p].operation_id \in NumbersOf(seen) \cup late
      <3>1. CASE p <= m
        BY <1>5, <2>2, <3>1
      <3>2. CASE p > m
        <4>1. p \in DOMAIN seen /\ seen[p] = s[p]
          BY <2>1, <2>3, <3>2
        <4>2. QED
          BY <4>1 DEF NumbersOf
      <3>3. QED
        BY <1>1, <3>1, <3>2
    <2>4. UpTo(seen) \subseteq NumbersOf(seen) \cup late
      <3> SUFFICES ASSUME NEW x \in Numbers, NEW i \in 1 .. e, x <= seen[i].operation_id
                   PROVE  x \in NumbersOf(seen) \cup late
        BY <2>1 DEF UpTo, NumbersOf
      <3>1. CASE i <= m
        <4>1. i \in DOMAIN shown /\ x <= shown[i].operation_id
          BY <1>2, <2>1, <3>1
        <4>2. shown[i].operation_id \in NumbersOf(shown)
          BY <4>1 DEF NumbersOf
        <4>3. x \in UpTo(shown)
          BY <4>1, <4>2 DEF UpTo
        <4>4. QED
          BY <2>2, <4>3 DEF InOrder
      <3>2. CASE i > m
        <4>1. x <= s[i].operation_id
          BY <2>1, <3>2
        <4>2. PICK p \in 1 .. n : s[p].operation_id = x
          BY DEF Ranked
        <4>3. x \in Nat /\ s[i].operation_id \in Nat
          BY DEF Ranked
        <4>4. ~(i < p)
          <5>1. i < p => s[i].operation_id < x
            BY <4>2 DEF Ranked
          <5>2. QED
            BY <4>1, <4>3, <5>1
        <4>5. QED
          BY <2>3, <4>2, <4>4
      <3>3. QED
        BY <1>1, <3>1, <3>2
    <2>5. Len(seen) <= Cardinality(UpTo(seen))
      <3>1. First(s, e) \subseteq UpTo(seen)
        <4> SUFFICES ASSUME NEW j \in 1 .. e PROVE s[j].operation_id \in UpTo(seen)
          BY DEF First
        <4>1. e \in DOMAIN seen /\ seen[e] = s[e]
          BY <1>1, <1>7, <2>1
        <4>2. s[e].operation_id \in NumbersOf(seen)
          BY <4>1 DEF NumbersOf
        <4>3. s[j].operation_id \in Numbers /\ s[j].operation_id \in Nat /\ s[e].operation_id \in Nat
          BY <1>7, <1>1 DEF Ranked
        <4>4. j = e \/ s[j].operation_id < s[e].operation_id
          BY <1>7, <1>1 DEF Ranked
        <4>5. QED
          BY <4>2, <4>3, <4>4 DEF UpTo
      <3>2. IsFiniteSet(UpTo(seen))
        BY OperationsFinite, FS_Subset DEF UpTo
      <3>3. Cardinality(First(s, e)) = e
        BY DEF Ranked
      <3>4. QED
        BY <2>1, <3>1, <3>2, <3>3, FS_Subset
    <2>6. ASSUME late = {}, NEW i \in 1 .. e, NEW j \in 1 .. e, i < j,
                 seen[i].operation_id = seen[j].operation_id
          PROVE  FALSE
      <3>1. CASE j <= m
        BY <1>2, <2>1, <2>6, <3>1 DEF InOrder
      <3>2. CASE i > m
        <4>1. s[i].operation_id = s[j].operation_id
          BY <1>1, <2>1, <2>6, <3>2
        <4>2. s[i].operation_id < s[j].operation_id /\ s[i].operation_id \in Nat
          BY <2>6 DEF Ranked
        <4>3. QED
          BY <4>1, <4>2
      <3>3. CASE i <= m /\ j > m
        <4>1. shown[i].operation_id = s[j].operation_id /\ i \in DOMAIN shown
          BY <1>1, <1>2, <2>1, <2>6, <3>3
        <4>2. s[j].operation_id \in NumbersOf(shown)
          BY <4>1 DEF NumbersOf
        <4>3. First(s, j) \subseteq NumbersOf(shown)
          <5> SUFFICES ASSUME NEW k \in 1 .. j PROVE s[k].operation_id \in NumbersOf(shown)
            BY DEF First
          <5>1. s[k].operation_id \in Numbers /\ s[k].operation_id \in Nat /\ s[j].operation_id \in Nat
            BY <2>6 DEF Ranked
          <5>2. k = j \/ s[k].operation_id < s[j].operation_id
            BY <2>6 DEF Ranked
          <5>3. s[k].operation_id \in UpTo(shown)
            BY <4>2, <5>1, <5>2 DEF UpTo
          <5>4. QED
            BY <2>6, <5>3 DEF InOrder
        <4>4. IsFiniteSet(NumbersOf(shown)) /\ Cardinality(NumbersOf(shown)) = m
          <5>1. \A k, l \in 1 .. m : shown[k].operation_id = shown[l].operation_id => k = l
            BY <1>2, <2>6 DEF InOrder
          <5>2. NumbersOf(shown) = First(shown, m)
            BY <1>2 DEF NumbersOf, First
          <5>3. QED
            BY <5>1, <5>2, CountFirst
        <4>5. Cardinality(First(s, j)) = j
          BY <2>6 DEF Ranked
        <4>6. Cardinality(First(s, j)) <= m
          BY <4>3, <4>4, FS_Subset
        <4>7. QED
          BY <1>1, <3>3, <4>5, <4>6
      <3>4. QED
        BY <1>1, <3>1, <3>2, <3>3
    <2>7. late = {} => \A i, j \in DOMAIN seen :
                          seen[i].operation_id = seen[j].operation_id => i = j
      <3> SUFFICES ASSUME late = {}, NEW i \in 1 .. e, NEW j \in 1 .. e,
                          seen[i].operation_id = seen[j].operation_id
                   PROVE  i = j
        BY <2>1
      <3>1. ~(i < j) /\ ~(j < i)
        BY <2>6
      <3>2. QED
        BY <3>1
    <2>8. ASSUME e = n, NEW x \in Numbers PROVE x \in NumbersOf(seen) \cup late
      <3>1. PICK p \in 1 .. n : s[p].operation_id = x
        BY DEF Ranked
      <3>2. QED
        BY <2>3, <2>8, <3>1
    <2>9. QED
      BY <1>4, <2>4, <2>5, <2>7, <2>8 DEF InOrder
  <1>8. QED
    BY <1>1, <1>6, <1>7

-----------------------------------------------------------------------------
(* What a list answers.                                                    *)

LEMMA NarrowOf ==
  ASSUME NEW n \in Nat
  PROVE  /\ n < Half => Narrow(n) = n
         /\ Half <= n /\ n < 2 * Half => Narrow(n) < 0
  <1>1. Half \in Nat /\ Half > 0
    BY ReadingAssumption
  <1>2. \A a, b \in Nat : a < b => a % b = a
    OBVIOUS
  <1>3. \A a, b \in Nat : b <= a /\ a < 2 * b => a % b = a - b
    OBVIOUS
  <1>4. CASE n < Half
    <2>1. (n + Half) % (2 * Half) = n + Half
      BY <1>1, <1>2, <1>4
    <2>2. QED
      BY <1>1, <1>4, <2>1 DEF Narrow
  <1>5. CASE Half <= n /\ n < 2 * Half
    <2>1. (n + Half) % (2 * Half) = n + Half - 2 * Half
      <3>1. PICK a \in Nat, h \in Nat : a = n + Half /\ h = 2 * Half
        BY <1>1
      <3>2. h <= a /\ a < 2 * h
        BY <1>1, <1>5, <3>1
      <3>3. a % h = a - h
        BY <1>3, <3>2
      <3>4. QED
        BY <1>1, <3>1, <3>3
    <2>2. QED
      BY <1>1, <1>5, <2>1 DEF Narrow
  <1>6. QED
    BY <1>1, <1>4, <1>5

\* The filter of one number.
Only(key, value) == [given |-> TRUE, conditions |-> {[column |-> key, type |-> "=", value |-> value]}]

LEMMA OneFilter ==
  ASSUME NEW r, NEW key \in Columns, NEW value, r.filters = {Equal(key, value)}, r.filters # Missing
  PROVE  FilterOf(r) = Only(key, value)
  <1>1. Conditions(Equal(key, value)) = {[column |-> key, type |-> "=", value |-> value]}
    BY DEF Conditions, Equal
  <1>2. \A f \in {Equal(key, value)} : f.key \in Columns /\ f.type \in Types /\ f.kind # "other"
    BY DEF Equal, Types
  <1>3. UNION {Conditions(f) : f \in {Equal(key, value)}} = Conditions(Equal(key, value))
    OBVIOUS
  <1>4. QED
    BY <1>1, <1>2, <1>3 DEF FilterOf, ParseFilters, Only

LEMMA Columned == "product_id" \in Columns /\ "warehouse_id" \in Columns
  <1>1. "Operation" \in DOMAIN Schema /\ "product_id" \in Schema["Operation"]
                                      /\ "warehouse_id" \in Schema["Operation"]
    BY DEF Schema
  <1>2. QED
    BY <1>1 DEF Columns

LEMMA OnlyEqual ==
  ASSUME NEW rows, NEW key, NEW value, value # Null
  PROVE  Where(rows, Only(key, value)) = {x \in rows : x[key] = value}
  <1> DEFINE c == [column |-> key, type |-> "=", value |-> value]
  <1>1. \A x : Holds(c, x) <=> x[key] = value
    BY DEF Holds
  <1>2. Only(key, value).conditions = {c}
    BY DEF Only
  <1> HIDE DEF c
  <1>3. QED
    BY <1>1, <1>2 DEF Where

\* What a list task answers: an error, nothing, or a page.
Listed(a, rows, from, key, r, fault) ==
  \/ /\ a = Nothing("ERROR")
     /\ fault # "none" \/ Empty(FilterOf(r)) \/ Refused(FilterOf(r), from)
  \/ /\ a = Nothing("NOT_FOUND")
     /\ \/ fault # "none" \/ Empty(FilterOf(r))
        \/ Refused(FilterOf(r), from) \/ PageRefused(r)
  \/ /\ ~Empty(FilterOf(r)) /\ ~Refused(FilterOf(r), from) /\ ~PageRefused(r)
     /\ \E p \in Pages(Where(rows, FilterOf(r)), key, r) :
          \/ p = <<>> /\ a = Nothing("NOT_FOUND")
          \/ p # <<>> /\ fault = "none" /\ a = Answer("SUCCESS", p)

LEMMA ListAnswer ==
  ASSUME NEW rows, NEW from, NEW key, NEW r, r.offset # Missing, NEW fault,
         NEW a \in ListTask(rows, from, key, r, fault)
  PROVE  Listed(a, rows, from, key, r, fault)
  <1> DEFINE f == FilterOf(r)
             throws == fault = "lost" \/ (Empty(f) /\ Traced)
             unprepared == Empty(f) \/ Refused(f, from)
             failed == fault = "first" \/ PageRefused(r)
  <1>1. CASE throws \/ unprepared
    BY <1>1 DEF ListTask, Listed
  <1>2. CASE ~throws /\ ~unprepared /\ failed
    BY <1>2 DEF ListTask, Listed
  <1>3. CASE ~throws /\ ~unprepared /\ ~failed
    <2>1. a \in Found(Pages(Where(rows, f), key, r), fault)
      BY <1>3 DEF ListTask
    <2>2. QED
      BY <1>3, <2>1 DEF Found, Listed
  <1>4. QED
    BY <1>1, <1>2, <1>3

\* A page with a limit and an offset that fit into an int32_t.
LEMMA PageOf ==
  ASSUME NEW S, NEW key, NEW r, NEW limit \in Nat, NEW off \in Nat, 0 < limit, limit < Half,
         r.limit = limit, r.offset = off, ~PageRefused(r), off < 2 * Half,
         NEW p \in Pages(S, key, r)
  PROVE  /\ off < Half
         /\ \E s \in Orders(S, key) :
              p = SubSeq(s, off + 1, IF off + limit < Len(s) THEN off + limit ELSE Len(s))
  <1>1. Half \in Nat /\ limit # Missing
    BY ReadingAssumption, AskedAssumption
  <1>2. Narrow(limit) = limit /\ Limited(r)
    BY <1>1, NarrowOf DEF Limited
  <1>3. off < Half /\ Narrow(off) = off
    BY <1>1, NarrowOf DEF PageRefused
  <1>4. QED
    BY <1>2, <1>3 DEF Pages

LEMMA OneTableKnows ==
  ASSUME NEW key, NEW value, NEW from, NEW u,
         {t \in from : key \in Schema[t]} = {u}
  PROVE  ~Refused(Only(key, value), from)
  <1> DEFINE c == [column |-> key, type |-> "=", value |-> value]
  <1>1. Only(key, value).conditions = {c}
    BY DEF Only
  <1>2. c.column = key
    OBVIOUS
  <1>3. {t \in from : c.column \in Schema[t]} = {u}
    BY <1>2
  <1> HIDE DEF c
  <1>4. Cardinality({t \in from : c.column \in Schema[t]}) = 1
    BY <1>3, FS_Singleton
  <1>5. QED
    BY <1>1, <1>2, <1>4 DEF Refused

LEMMA OneColumnKnown ==
  /\ \A value : ~Refused(Only("product_id", value), {"Operation"})
  /\ \A value : ~Refused(Only("warehouse_id", value), {"Product", "Warehouse_Item"})
  /\ \A key, value : ~Empty(Only(key, value))
  <1>1. {t \in {"Operation"} : "product_id" \in Schema[t]} = {"Operation"}
    BY DEF Schema
  <1>2. {t \in {"Product", "Warehouse_Item"} : "warehouse_id" \in Schema[t]} = {"Warehouse_Item"}
    BY DEF Schema
  <1>3. \A key, value : ~Empty(Only(key, value))
    BY DEF Empty, Only
  <1>4. QED
    BY <1>1, <1>2, <1>3, OneTableKnows

\* The next operations, whatever fails.
LEMMA NextOperations ==
  ASSUME Drawn, InOrder(shown), Len(shown) < 2 * Half, NEW fault, NEW r,
         r = Request(Batch, Len(shown), {Equal("product_id", Product)}),
         NEW a \in GetOperationList(db, r, fault)
  PROVE  /\ a.rows \in Seq(Operations)
         /\ InOrder(shown \o a.rows) /\ Len(shown \o a.rows) < 2 * Half
         /\ \/ Numbers \subseteq NumbersOf(shown \o a.rows) \cup late
            \/ a.code \notin {"SUCCESS", "NOT_FOUND"} \/ Len(a.rows) >= Batch
            \/ a.code = "NOT_FOUND" /\ fault # "none"
            \/ Len(shown) >= Half
  <1> DEFINE off == Len(shown)
             filter == Only("product_id", Product)
  <1>1. /\ shown \in Seq(Operations) /\ off \in Nat /\ Batch \in Nat /\ Batch > 0
        /\ Half \in Nat /\ Batch < Half
    BY ReadingAssumption, BrowsingAssumption DEF InOrder
  <1>2. r.limit = Batch /\ r.offset = off /\ r.filters = {Equal("product_id", Product)}
    BY DEF Request
  <1>3. r.offset # Missing /\ FilterOf(r) = filter
    BY <1>1, <1>2, AskedAssumption, OneFilter, Columned
  <1>4. Where(db.Operation, filter) = Operations
    <2>1. Where(db.Operation, filter) = {x \in db.Operation : x["product_id"] = Product}
      BY AskedAssumption, OnlyEqual
    <2>2. QED
      BY <2>1 DEF Operations
  <1>5. ~Refused(filter, {"Operation"}) /\ ~Empty(filter)
    BY OneColumnKnown
  <1>6. a \in ListTask(db.Operation, {"Operation"}, "operation_id", r, fault)
    BY DEF GetOperationList
  <1>7. shown \o <<>> = shown /\ <<>> \in Seq(Operations)
    BY <1>1
  <1> HIDE DEF filter
  <1>8. CASE a = Nothing("ERROR")
    BY <1>7, <1>8 DEF Nothing, Answer
  <1>9. CASE a = Nothing("NOT_FOUND") /\ fault # "none"
    BY <1>7, <1>9 DEF Nothing, Answer
  <1>10. CASE a = Nothing("NOT_FOUND") /\ PageRefused(r)
    <2>1. off >= Half
      <3>1. Narrow(Batch) = Batch
        BY <1>1, NarrowOf
      <3>2. Narrow(off) < 0
        BY <1>1, <1>2, <1>10, <3>1 DEF PageRefused
      <3>3. QED
        BY <1>1, <3>2, NarrowOf
    <2>2. QED
      BY <1>7, <1>10, <2>1 DEF Nothing, Answer
  <1>11. ASSUME ~PageRefused(r), NEW p \in Pages(Operations, "operation_id", r),
                \/ p = <<>> /\ a = Nothing("NOT_FOUND")
                \/ p # <<>> /\ a = Answer("SUCCESS", p)
         PROVE  /\ a.rows \in Seq(Operations)
                /\ InOrder(shown \o a.rows) /\ Len(shown \o a.rows) < 2 * Half
                /\ \/ Numbers \subseteq NumbersOf(shown \o a.rows) \cup late
                   \/ Len(a.rows) >= Batch
    <2>1. PICK s \in Orders(Operations, "operation_id") :
            p = SubSeq(s, off + 1, IF off + Batch < Len(s) THEN off + Batch ELSE Len(s))
      BY <1>1, <1>2, <1>11, PageOf
    <2>2. off < Half
      BY <1>1, <1>2, <1>11, PageOf
    <2>3. PICK n \in Nat : Ranked(s, n)
      BY IsRanked
    <2>4. PICK e \in 0 .. n : e = IF off + Batch < n THEN off + Batch ELSE n
      BY <1>1
    <2>5. /\ a.rows = p /\ p = SubSeq(s, off + 1, e) /\ Len(s) = n
          /\ s \in Seq(Operations) /\ p \in Seq(Operations)
      <3>1. Len(s) = n /\ s \in Seq(Operations)
        BY <2>3 DEF Ranked
      <3>2. p = SubSeq(s, off + 1, e)
        BY <2>1, <2>4, <3>1
      <3>3. a.rows = p
        BY <1>11 DEF Nothing, Answer
      <3>4. p \in Seq(Operations)
        BY <1>1, <2>4, <3>1, <3>2
      <3>5. QED
        BY <3>1, <3>2, <3>3, <3>4
    <2>6. /\ InOrder(shown \o p)
          /\ e = n => Numbers \subseteq NumbersOf(shown \o p) \cup late
      BY <2>3, <2>5, Continued
    <2>7. /\ e <= off => shown \o p = shown
          /\ e > off => Len(shown \o p) = e
      BY <1>1, <2>5, Appended
    <2>8. Len(shown \o p) < 2 * Half
      BY <1>1, <2>2, <2>4, <2>7
    <2>9. CASE e = n
      BY <2>5, <2>6, <2>8, <2>9
    <2>10. CASE e = off + Batch /\ e < n
      <3>1. Len(p) = Batch
        BY <1>1, <2>5, <2>10
      <3>2. QED
        BY <1>1, <2>5, <2>6, <2>8, <3>1
    <2>11. QED
      BY <1>1, <2>4, <2>9, <2>10
  <1>12. \/ a = Nothing("ERROR")
         \/ a = Nothing("NOT_FOUND") /\ (fault # "none" \/ PageRefused(r))
         \/ /\ ~PageRefused(r)
            /\ \E p \in Pages(Operations, "operation_id", r) :
                 \/ p = <<>> /\ a = Nothing("NOT_FOUND")
                 \/ p # <<>> /\ a = Answer("SUCCESS", p)
    <2>1. r.offset # Missing
      BY <1>3
    <2>2. Listed(a, db.Operation, {"Operation"}, "operation_id", r, fault)
      BY <1>6, <2>1, ListAnswer
    <2>3. QED
      BY <1>3, <1>4, <1>5, <2>2 DEF Listed
  <1>13. QED
    BY <1>8, <1>9, <1>10, <1>11, <1>12

-----------------------------------------------------------------------------
(* The tables keep their keys.                                             *)

LEMMA InitDrawn == Init => Drawn
  <1> SUFFICES ASSUME Init PROVE Drawn
    OBVIOUS
  <1>1. "Operation" \in DOMAIN Schema
    BY DEF Schema
  <1>2. IsFiniteSet(Tables.Operation)
    BY <1>1, TablesAssumption DEF WellKept
  <1>3. Cardinality(Tables.Operation) \in Nat
    BY <1>2, FS_CardinalityType
  <1>4. QED
    BY <1>3, TablesAssumption DEF Init, Drawn

\* The rows of one table, after one is added with a key of its own.
LEMMA AddedRow ==
  ASSUME NEW S, IsFiniteSet(S), NEW key, Keyed(S, key), NEW x,
         \A y \in S : \E k \in key : y[k] # x[k],
         NEW T, T = S \cup {x}
  PROVE  IsFiniteSet(T) /\ Keyed(T, key)
  <1>1. IsFiniteSet(T)
    BY FS_AddElement
  <1>2. QED
    BY <1>1 DEF Keyed

LEMMA FewerRows ==
  ASSUME NEW S, IsFiniteSet(S), NEW key, Keyed(S, key), NEW T \in SUBSET S
  PROVE  IsFiniteSet(T) /\ Keyed(T, key)
  BY FS_Subset DEF Keyed

LEMMA Tablewise ==
  ASSUME NEW d
  PROVE  WellKept(d) <=>
           /\ d = [t \in DOMAIN Schema |-> d[t]]
           /\ IsFiniteSet(d.Invoice) /\ Keyed(d.Invoice, {"invoice_id"})
           /\ IsFiniteSet(d.Invoice_Item) /\ Keyed(d.Invoice_Item, {"invoice_id", "product_id"})
           /\ IsFiniteSet(d.Operation) /\ Keyed(d.Operation, {"operation_id"})
           /\ IsFiniteSet(d.Product) /\ Keyed(d.Product, {"product_id"})
           /\ IsFiniteSet(d.Report) /\ Keyed(d.Report, {"report_id"})
           /\ IsFiniteSet(d.User) /\ Keyed(d.User, {"user_id"})
           /\ IsFiniteSet(d.Warehouse) /\ Keyed(d.Warehouse, {"warehouse_id"})
           /\ IsFiniteSet(d.Warehouse_Item) /\ Keyed(d.Warehouse_Item, {"warehouse_id", "product_id"})
  <1>1. DOMAIN Schema = {"Invoice", "Invoice_Item", "Operation", "Product", "Report", "User",
                         "Warehouse", "Warehouse_Item"}
    BY DEF Schema
  <1>2. /\ PrimaryKey["Invoice"] = {"invoice_id"}
        /\ PrimaryKey["Invoice_Item"] = {"invoice_id", "product_id"}
        /\ PrimaryKey["Operation"] = {"operation_id"}
        /\ PrimaryKey["Product"] = {"product_id"}
        /\ PrimaryKey["Report"] = {"report_id"}
        /\ PrimaryKey["User"] = {"user_id"}
        /\ PrimaryKey["Warehouse"] = {"warehouse_id"}
        /\ PrimaryKey["Warehouse_Item"] = {"warehouse_id", "product_id"}
    BY DEF PrimaryKey
  <1> DEFINE P(t) == IsFiniteSet(d[t]) /\ Keyed(d[t], PrimaryKey[t])
  <1>3. (\A t \in DOMAIN Schema : P(t)) <=>
          /\ P("Invoice") /\ P("Invoice_Item") /\ P("Operation") /\ P("Product")
          /\ P("Report") /\ P("User") /\ P("Warehouse") /\ P("Warehouse_Item")
    <2> HIDE DEF P
    <2> QED
      BY <1>1
  <1> HIDE DEF P
  <1>4. WellKept(d) <=> d = [t \in DOMAIN Schema |-> d[t]] /\ \A t \in DOMAIN Schema : P(t)
    BY Zenon DEF WellKept, P
  <1>5. QED
    BY <1>2, <1>3, <1>4 DEF P

StockOf(b) ==
  {i \in db.Warehouse_Item : i.warehouse_id = b.warehouse /\ i.product_id = b.product}

\* What a commit does to each table.
LEMMA Committed ==
  ASSUME Drawn, NEW t, Commit(t)
  PROVE  /\ db' = [x \in DOMAIN Schema |-> db'[x]]
         /\ db'.Invoice = db.Invoice \cup {[invoice_id |-> t.number]}
         /\ db'.Invoice_Item =
              db.Invoice_Item
              \cup {[invoice_id |-> t.number, product_id |-> t.booking.product, count |-> 1]}
         /\ db'.Operation =
              db.Operation \cup {[operation_id |-> t.number, product_id |-> t.booking.product,
                                  warehouse_id |-> t.booking.warehouse]}
         /\ db'.Warehouse_Item =
              IF ~t.booking.brings THEN db.Warehouse_Item \ StockOf(t.booking)
              ELSE IF StockOf(t.booking) # {} THEN db.Warehouse_Item
              ELSE db.Warehouse_Item
                   \cup {[warehouse_id |-> t.booking.warehouse, product_id |-> t.booking.product,
                          count |-> 1]}
         /\ db'.Product = db.Product /\ db'.Report = db.Report /\ db'.User = db.User
         /\ db'.Warehouse = db.Warehouse
  <1>1. DOMAIN Schema = {"Invoice", "Invoice_Item", "Operation", "Product", "Report", "User",
                         "Warehouse", "Warehouse_Item"}
    BY DEF Schema
  <1>2. db = [x \in DOMAIN Schema |-> db[x]]
    BY DEF Drawn, WellKept
  <1>3. DOMAIN db = DOMAIN Schema
    BY <1>2
  <1>4. QED
    BY <1>1, <1>2, <1>3 DEF Commit, StockOf

LEMMA CommitDrawn ==
  ASSUME Drawn, NEW t \in pending, Commit(t)
  PROVE  Drawn'
  <1> DEFINE n == t.number
             b == t.booking
  <1>1. /\ pending' = pending \ {t} /\ drawn' = drawn /\ n \in 1 .. drawn /\ drawn \in Nat
        /\ \A u \in pending' : u.number # n
    BY DEF Commit, Drawn
  <1>2. /\ IsFiniteSet(db'.Invoice) /\ Keyed(db'.Invoice, {"invoice_id"})
    <2>1. \A v \in db.Invoice : v["invoice_id"] # [invoice_id |-> n]["invoice_id"]
      BY DEF Drawn
    <2>2. IsFiniteSet(db.Invoice) /\ Keyed(db.Invoice, {"invoice_id"})
      BY Tablewise DEF Drawn
    <2>3. \A v \in db.Invoice : \E k \in {"invoice_id"} : v[k] # [invoice_id |-> n][k]
      BY <2>1
    <2>4. db'.Invoice = db.Invoice \cup {[invoice_id |-> n]}
      BY Committed
    <2>5. QED
      BY <2>3, <2>2, <2>4, AddedRow
  <1>3. /\ IsFiniteSet(db'.Invoice_Item) /\ Keyed(db'.Invoice_Item, {"invoice_id", "product_id"})
    <2> DEFINE x == [invoice_id |-> n, product_id |-> b.product, count |-> 1]
    <2>1. \A i \in db.Invoice_Item : \E k \in {"invoice_id", "product_id"} : i[k] # x[k]
      <3>1. \A i \in db.Invoice_Item : i["invoice_id"] # x["invoice_id"]
        BY DEF Drawn
      <3> HIDE DEF x
      <3>2. QED
        BY <3>1
    <2>2. IsFiniteSet(db.Invoice_Item) /\ Keyed(db.Invoice_Item, {"invoice_id", "product_id"})
      BY Tablewise DEF Drawn
    <2>3. db'.Invoice_Item = db.Invoice_Item \cup {x}
      BY Committed
    <2> HIDE DEF x
    <2>4. QED
      BY <2>1, <2>2, <2>3, AddedRow
  <1>4. /\ IsFiniteSet(db'.Operation) /\ Keyed(db'.Operation, {"operation_id"})
    <2> DEFINE x == [operation_id |-> n, product_id |-> b.product, warehouse_id |-> b.warehouse]
    <2>1. \A o \in db.Operation : \E k \in {"operation_id"} : o[k] # x[k]
      <3>1. \A o \in db.Operation : o["operation_id"] # x["operation_id"]
        BY DEF Drawn
      <3> HIDE DEF x
      <3>2. QED
        BY <3>1
    <2>2. IsFiniteSet(db.Operation) /\ Keyed(db.Operation, {"operation_id"})
      BY Tablewise DEF Drawn
    <2>3. db'.Operation = db.Operation \cup {x}
      BY Committed
    <2> HIDE DEF x
    <2>4. QED
      BY <2>1, <2>2, <2>3, AddedRow
  <1>5. /\ IsFiniteSet(db'.Warehouse_Item)
        /\ Keyed(db'.Warehouse_Item, {"warehouse_id", "product_id"})
    <2> DEFINE x == [warehouse_id |-> b.warehouse, product_id |-> b.product, count |-> 1]
               S == db.Warehouse_Item
    <2>1. IsFiniteSet(S) /\ Keyed(S, {"warehouse_id", "product_id"})
      BY Tablewise DEF Drawn
    <2>2. CASE db'.Warehouse_Item \in SUBSET S
      BY <2>1, <2>2, FewerRows
    <2>3. CASE StockOf(b) = {} /\ db'.Warehouse_Item = S \cup {x}
      <3>1. \A i \in S : i["warehouse_id"] # x["warehouse_id"] \/ i["product_id"] # x["product_id"]
        BY <2>3 DEF StockOf
      <3> HIDE DEF x, S
      <3>2. \A i \in S : \E k \in {"warehouse_id", "product_id"} : i[k] # x[k]
        BY <3>1
      <3>3. QED
        BY <2>1, <2>3, <3>2, AddedRow
    <2>4. QED
      BY <2>2, <2>3, Committed
  <1>6. WellKept(db)'
    <2>1. WellKept(db') <=> WellKept(db)'
      BY DEF WellKept
    <2>2. WellKept(db')
      BY <1>2, <1>3, <1>4, <1>5, Committed, Tablewise DEF Drawn
    <2>3. QED
      BY <2>1, <2>2
  <1>7. \A i \in db'.Warehouse_Item :
          i = [warehouse_id |-> i.warehouse_id, product_id |-> i.product_id, count |-> i.count]
    <2> DEFINE x == [warehouse_id |-> b.warehouse, product_id |-> b.product, count |-> 1]
    <2>1. db'.Warehouse_Item \subseteq db.Warehouse_Item \cup {x}
      BY Committed
    <2>2. x = [warehouse_id |-> x.warehouse_id, product_id |-> x.product_id, count |-> x.count]
      OBVIOUS
    <2> HIDE DEF x
    <2>3. QED
      BY <2>1, <2>2 DEF Drawn
  <1> DEFINE v0 == [invoice_id |-> n]
             i0 == [invoice_id |-> n, product_id |-> b.product, count |-> 1]
             o0 == [operation_id |-> n, product_id |-> b.product, warehouse_id |-> b.warehouse]
  <1>8. /\ db'.Invoice = db.Invoice \cup {v0} /\ v0.invoice_id = n
        /\ db'.Invoice_Item = db.Invoice_Item \cup {i0} /\ i0.invoice_id = n
        /\ db'.Operation = db.Operation \cup {o0} /\ o0.operation_id = n
    BY Committed
  <1> HIDE DEF v0, i0, o0
  <1>9. \A i \in db'.Invoice_Item : \E v \in db'.Invoice : v.invoice_id = i.invoice_id
    BY <1>8 DEF Drawn
  <1>10. \A o \in db'.Operation :
           o.operation_id \in 1 .. drawn /\ \A u \in pending' : u.number # o.operation_id
    BY <1>1, <1>8 DEF Drawn
  <1>11. \A v \in db'.Invoice :
           v.invoice_id \in 1 .. drawn /\ \A u \in pending' : u.number # v.invoice_id
    BY <1>1, <1>8 DEF Drawn
  <1>12. \A u, v \in pending' : u.number = v.number => u = v
    BY <1>1 DEF Drawn
  <1>13. db'.Warehouse = Tables.Warehouse
    BY Committed DEF Drawn
  <1>14. QED
    BY <1>1, <1>6, <1>7, <1>9, <1>10, <1>11, <1>12, <1>13 DEF Drawn

LEMMA DrawDrawn ==
  ASSUME Drawn, NEW b, Draw(b)
  PROVE  Drawn'
  <1>1. db' = db /\ drawn' = drawn + 1 /\ drawn \in Nat
        /\ pending' = pending \cup {[number |-> drawn + 1, booking |-> b]}
    BY DEF Draw, Drawn
  <1>2. \A t \in pending' : t.number \in 1 .. drawn' /\ (t \in pending \/ t.number = drawn + 1)
    BY <1>1 DEF Drawn
  <1>3. \A t, u \in pending' : t.number = u.number => t = u
    BY <1>1, <1>2 DEF Drawn
  <1>4. WellKept(db)'
    BY <1>1 DEF Drawn, WellKept
  <1>5. \A o \in db.Operation :
          o.operation_id \in 1 .. drawn' /\ \A t \in pending' : t.number # o.operation_id
    BY <1>1, <1>2 DEF Drawn
  <1>6. \A v \in db.Invoice :
          v.invoice_id \in 1 .. drawn' /\ \A t \in pending' : t.number # v.invoice_id
    BY <1>1, <1>2 DEF Drawn
  <1>7. QED
    BY <1>1, <1>2, <1>3, <1>4, <1>5, <1>6 DEF Drawn

LEMMA SameDrawn ==
  ASSUME Drawn, UNCHANGED tables
  PROVE  Drawn'
  BY DEF Drawn, WellKept, tables

LEMMA NextDrawn == Drawn /\ [Next]_vars => Drawn'
  <1> SUFFICES ASSUME Drawn, [Next]_vars PROVE Drawn'
    OBVIOUS
  <1>1. CASE UNCHANGED tables
    BY <1>1, SameDrawn
  <1>2. CASE \E b \in Bookings : Draw(b)
    BY <1>2, DrawDrawn
  <1>3. CASE \E t \in pending : Commit(t)
    BY <1>3, CommitDrawn
  <1>4. QED
    BY <1>1, <1>2, <1>3 DEF Next, LoadNext, SwitchPage, Serve, Deny, ReceiveOperations,
       ReceiveSize, ReceiveProducts, IgnoreFailure, Redirect, vars

-----------------------------------------------------------------------------
(* One load at a time.                                                     *)

LEMMA CommitNumbers ==
  ASSUME Drawn, NEW t \in pending, Commit(t)
  PROVE  /\ Operations \subseteq Operations' /\ Numbers \subseteq Numbers'
         /\ Numbers' \subseteq Numbers \cup {t.number}
         /\ t.number \notin Numbers /\ t.number \in Nat
         /\ t.number \in Numbers' => t.booking.product = Product
  <1> DEFINE o == [operation_id |-> t.number, product_id |-> t.booking.product,
                   warehouse_id |-> t.booking.warehouse]
  <1>1. /\ db'.Operation = db.Operation \cup {o}
        /\ o.operation_id = t.number /\ o.product_id = t.booking.product
    BY Committed
  <1>2. t.number \in Nat /\ t.number \notin Numbers
    BY DEF Drawn, Numbers, Operations
  <1> HIDE DEF o
  <1>3. Operations \subseteq Operations'
    BY <1>1 DEF Operations
  <1>4. \A x \in Operations' : x \in Operations \/ (x.operation_id = t.number /\ t.booking.product = Product)
    BY <1>1 DEF Operations
  <1>5. QED
    BY <1>2, <1>3, <1>4 DEF Numbers

\* Rows that some load has read stay in order, whatever others commit.
LEMMA CommitInOrder ==
  ASSUME Drawn, NEW t \in pending, Commit(t), OnProduct,
         NEW rows, InOrder(rows), NumbersOf(rows) \subseteq Read
  PROVE  InOrder(rows)' /\ late \subseteq late'
  <1>1. rows \in Seq(Operations) /\ Numbers \subseteq Numbers'
    BY CommitNumbers DEF InOrder
  <1>2. rows \in Seq(Operations')
    BY <1>1, CommitNumbers
  <1>3. late \subseteq late'
    BY DEF Commit
  <1>4. \A r \in NumbersOf(rows) : r \in Numbers /\ r \in Nat
    <2>1. \A i \in DOMAIN rows : rows[i] \in Operations
      BY <1>1
    <2>2. QED
      BY <2>1, OperationsFinite DEF NumbersOf, Numbers
  <1>5. UpTo(rows) \subseteq {x \in Numbers' : \E r \in NumbersOf(rows) : x <= r}
    BY <1>1 DEF UpTo
  <1>6. {x \in Numbers' : \E r \in NumbersOf(rows) : x <= r} \subseteq NumbersOf(rows) \cup late'
    <2> SUFFICES ASSUME NEW x \in Numbers', NEW r \in NumbersOf(rows), x <= r,
                        x \notin NumbersOf(rows)
                 PROVE  x \in late'
      OBVIOUS
    <2>1. CASE x \in Numbers
      BY <1>3, <2>1 DEF UpTo, InOrder
    <2>2. CASE x = t.number
      <3>1. r # x /\ r \in Nat /\ x \in Nat /\ r \in Read
        BY <1>4, <2>2, CommitNumbers
      <3>2. r > t.number
        BY <2>2, <3>1
      <3>3. t.booking.product = Product
        BY <2>2, CommitNumbers
      <3>4. QED
        BY <2>2, <3>1, <3>2, <3>3 DEF Commit, OnProduct
    <2>3. QED
      BY <2>1, <2>2, CommitNumbers
  <1>7. Len(rows) <= Cardinality({x \in Numbers' : \E r \in NumbersOf(rows) : x <= r})
    <2> DEFINE new == {x \in Numbers' : \E r \in NumbersOf(rows) : x <= r}
    <2>1. IsFiniteSet(Numbers')
      <3>1. Drawn'
        BY CommitDrawn
      <3>2. (Drawn => IsFiniteSet(Numbers))'
        BY OperationsFinite, PTL
      <3>3. QED
        BY <3>1, <3>2
    <2>2. IsFiniteSet(new)
      BY <2>1, FS_Subset
    <2>3. Cardinality(UpTo(rows)) <= Cardinality(new)
      <3> HIDE DEF new
      <3>1. UpTo(rows) \subseteq new
        BY <1>5 DEF new
      <3>2. QED
        BY <2>2, <3>1, FS_Subset
    <2>4. Cardinality(UpTo(rows)) \in Nat /\ Cardinality(new) \in Nat /\ Len(rows) \in Nat
      <3>1. IsFiniteSet(UpTo(rows))
        BY <1>5, <2>2, FS_Subset
      <3>2. QED
        BY <1>1, <2>2, <3>1, FS_CardinalityType
    <2>5. QED
      BY <2>3, <2>4 DEF InOrder
  <1>8. late' = {} => \A i, j \in DOMAIN rows : rows[i].operation_id = rows[j].operation_id => i = j
    BY <1>3 DEF InOrder
  <1>9. QED
    BY <1>2, <1>3, <1>6, <1>7, <1>8 DEF InOrder, UpTo, NumbersOf

LEMMA InitLoad == Init => OneLoad
  <1> SUFFICES ASSUME Init, OnProduct PROVE OneLoad
    BY DEF OneLoad
  <1>1. shown = <<>> /\ calls = {} /\ noMore = FALSE /\ late = {}
    BY DEF Init, OnProduct
  <1>2. NumbersOf(<<>>) = {} /\ UpTo(<<>>) = {}
    BY DEF NumbersOf, UpTo
  <1>3. Len(<<>>) = 0 /\ Cardinality({}) = 0 /\ <<>> \in Seq(Operations) /\ DOMAIN <<>> = {}
    BY FS_EmptySet
  <1>4. InOrder(<<>>)
    <2>1. PICK e : e = <<>>
      OBVIOUS
    <2>2. /\ e \in Seq(Operations) /\ Len(e) = 0 /\ UpTo(e) = {} /\ DOMAIN e = {}
      BY <1>2, <1>3, <2>1
    <2>3. InOrder(e)
      BY <1>3, <2>2 DEF InOrder
    <2>4. QED
      BY <2>1, <2>3
  <1>5. QED
    BY <1>1, <1>3, <1>4, ReadingAssumption DEF OneLoad, EndIsTheEnd

LEMMA SameLoad ==
  ASSUME OneLoad,
         UNCHANGED <<db, screen, calls, shown, noMore, ended, late, overlapped, misread>>
  PROVE  OneLoad'
  <1>1. Operations' = Operations /\ Numbers' = Numbers
    BY DEF Operations, Numbers
  <1>2. ASSUME NEW c PROVE Continues(c)' <=> Continues(c)
    BY <1>1 DEF Continues, SaysEnd, InOrder, UpTo, NumbersOf
  <1>3. InOrder(shown)' <=> InOrder(shown)
    BY <1>1 DEF InOrder, UpTo, NumbersOf
  <1>4. EndIsTheEnd' <=> EndIsTheEnd
    BY DEF EndIsTheEnd, OnProduct, ShownNumbers
  <1>5. QED
    BY <1>2, <1>3, <1>4 DEF OneLoad, OnProduct

\* A request that has been answered.
LEMMA Replied ==
  ASSUME Sent, NEW c \in calls, NEW fault, NEW a, Answering(c, fault, a)
  PROVE  \E d : /\ calls' = (calls \ {c}) \cup {d}
                /\ d = [n |-> c.n, task |-> c.task, page |-> c.page, request |-> c.request,
                        known |-> c.known, fault |-> fault, answer |-> a]
  <1>1. PICK n, task, p, r, known, f, ans :
          /\ n = c.n /\ task = c.task /\ p = c.page /\ r = c.request /\ known = c.known
          /\ f = c.fault /\ ans = c.answer
    OBVIOUS
  <1>2. c = [n |-> n, task |-> task, page |-> p, request |-> r, known |-> known, fault |-> f,
             answer |-> ans]
    BY <1>1 DEF Sent
  <1>3. PICK d : d = [c EXCEPT !.answer = a, !.fault = fault]
    OBVIOUS
  <1>4. d = [n |-> n, task |-> task, page |-> p, request |-> r, known |-> known,
             fault |-> fault, answer |-> a]
    BY <1>2, <1>3
  <1>5. calls' = (calls \ {c}) \cup {d}
    BY <1>3 DEF Answering
  <1>6. QED
    BY <1>1, <1>4, <1>5

LEMMA NextSent == Sent /\ [Next]_vars => Sent'
  <1> SUFFICES ASSUME Sent, [Next]_vars PROVE Sent'
    OBVIOUS
  <1> DEFINE Typed(c) == c = [n |-> c.n, task |-> c.task, page |-> c.page, request |-> c.request,
                              known |-> c.known, fault |-> c.fault, answer |-> c.answer]
  <1>1. sent \in Nat /\ \A c \in calls : Typed(c)
    BY DEF Sent
  <1>2. \A n, task, p, r, known : Typed(Call(n, task, p, r, known))
    BY DEF Call
  <1>3. ASSUME NEW c \in calls, NEW fault, NEW a, Answering(c, fault, a)
        PROVE  \A x \in calls' : Typed(x)
    <2>1. PICK d : /\ calls' = (calls \ {c}) \cup {d}
                   /\ d = [n |-> c.n, task |-> c.task, page |-> c.page, request |-> c.request,
                           known |-> c.known, fault |-> fault, answer |-> a]
      BY <1>3, Replied
    <2>2. Typed(d)
      BY <2>1
    <2> HIDE DEF Typed
    <2>3. QED
      BY <1>1, <2>1, <2>2
  <1>4. CASE calls' \subseteq calls /\ sent' = sent
    BY <1>1, <1>4 DEF Sent
  <1>5. CASE LoadNext
    BY <1>1, <1>2, <1>5 DEF Sent, LoadNext, Send
  <1>6. ASSUME NEW to, SwitchPage(to) PROVE Sent'
    BY <1>1, <1>2, <1>6 DEF Sent, SwitchPage, Send
  <1>7. ASSUME NEW c \in calls, NEW fault, Serve(c, fault) PROVE Sent'
    BY <1>1, <1>3, <1>7 DEF Sent, Serve
  <1>8. ASSUME NEW c \in calls, Deny(c) PROVE Sent'
    BY <1>1, <1>3, <1>8 DEF Sent, Deny
  <1>9. ASSUME NEW c \in calls, ReceiveSize(c) PROVE Sent'
    BY <1>1, <1>2, <1>9 DEF Sent, ReceiveSize
  <1>10. QED
    BY <1>4, <1>5, <1>6, <1>7, <1>8, <1>9 DEF Next, Draw, Commit, ReceiveOperations,
       ReceiveProducts, IgnoreFailure, Redirect, vars

LEMMA InitSent == Init => Sent
  BY DEF Init, Sent, Call

LEMMA CommitLoad ==
  ASSUME Drawn, OneLoad, NEW t \in pending, Commit(t)
  PROVE  OneLoad'
  <1> SUFFICES ASSUME OnProduct, ~overlapped PROVE OneLoad'
    BY DEF OneLoad, OnProduct, Commit
  <1>1. UNCHANGED <<screen, calls, shown, noMore, ended, overlapped, misread>>
    BY DEF Commit, list, pages
  <1>2. /\ InOrder(shown) /\ EndIsTheEnd /\ Len(shown) < 2 * Half
        /\ \A c, d \in calls : c = d
        /\ \A c \in calls : Continues(c)
    BY DEF OneLoad
  <1>3. late \subseteq late' /\ Numbers \subseteq Numbers' /\ Operations \subseteq Operations'
    BY CommitNumbers DEF Commit
  <1>4. InOrder(shown)'
    <2>1. PICK rows : rows = shown
      OBVIOUS
    <2>2. NumbersOf(rows) \subseteq Read
      BY <2>1 DEF NumbersOf, Read
    <2>3. InOrder(rows)'
      BY <1>2, <2>1, <2>2, CommitInOrder
    <2>4. QED
      BY <1>1, <2>1, <2>3 DEF InOrder, UpTo, NumbersOf
  <1>5. EndIsTheEnd'
    BY <1>1, <1>2, <1>3 DEF EndIsTheEnd, OnProduct, ShownNumbers
  <1>6. ASSUME NEW c \in calls PROVE Continues(c)'
    <2>1. Continues(c)
      BY <1>2
    <2>2. CASE c.answer = Unanswered
      BY <1>1, <1>3, <2>1, <2>2 DEF Continues
    <2>3. CASE c.answer # Unanswered
      <3>1. PICK rows : rows = shown \o c.answer.rows
        OBVIOUS
      <3>2. /\ c.answer.rows \in Seq(Operations) /\ InOrder(rows) /\ Len(rows) < 2 * Half
            /\ SaysEnd(c) /\ Len(shown) < Half => c.known \subseteq NumbersOf(rows) \cup late
        BY <2>1, <2>3, <3>1 DEF Continues
      <3>3. NumbersOf(rows) \subseteq Read
        <4>1. shown \in Seq(Operations)
          BY <1>2 DEF InOrder
        <4>2. ASSUME NEW i \in DOMAIN rows
              PROVE  \/ \E j \in DOMAIN shown : rows[i] = shown[j]
                     \/ \E j \in DOMAIN c.answer.rows : rows[i] = c.answer.rows[j]
          <5>1. PICK m \in Nat, k \in Nat : m = Len(shown) /\ k = Len(c.answer.rows)
            BY <3>2, <4>1
          <5>2. i \in 1 .. m + k
            BY <3>1, <3>2, <4>1, <5>1
          <5>3. CASE i <= m
            BY <3>1, <3>2, <4>1, <5>1, <5>2, <5>3
          <5>4. CASE i > m
            <6>1. i - m \in DOMAIN c.answer.rows
              BY <3>2, <5>1, <5>2, <5>4
            <6>2. rows[i] = c.answer.rows[i - m]
              BY <3>1, <3>2, <4>1, <5>1, <5>2, <5>4
            <6>3. QED
              BY <6>1, <6>2
          <5>5. QED
            BY <5>1, <5>2, <5>3, <5>4
        <4>3. QED
          BY <2>3, <4>2 DEF NumbersOf, Read, Answered
      <3>4. InOrder(rows)'
        BY <3>2, <3>3, CommitInOrder
      <3>5. InOrder(shown \o c.answer.rows)'
        <4>1. (shown \o c.answer.rows)' = rows
          BY <1>1, <3>1
        <4>2. QED
          BY <3>4, <4>1 DEF InOrder, UpTo, NumbersOf
      <3>6. c.answer.rows \in Seq(Operations)'
        BY <1>3, <3>2
      <3>7. (SaysEnd(c) /\ Len(shown) < Half => c.known \subseteq NumbersOf(shown \o c.answer.rows) \cup late)'
        BY <1>1, <1>3, <3>1, <3>2 DEF SaysEnd, NumbersOf
      <3>8. QED
        BY <1>1, <1>3, <2>1, <3>1, <3>2, <3>5, <3>6, <3>7 DEF Continues
    <2>4. QED
      BY <2>2, <2>3
  <1>7. QED
    BY <1>1, <1>2, <1>4, <1>5, <1>6 DEF OneLoad

LEMMA LoadNextLoad ==
  ASSUME OneLoad, LoadNext
  PROVE  OneLoad'
  <1> SUFFICES ASSUME calls = {}, ~overlapped, OnProduct PROVE OneLoad'
    BY DEF OneLoad, OnProduct, LoadNext
  <1>0. PICK c : c = Call(sent + 1, "operations", 0,
                          Request(Batch, Len(shown), {Equal("product_id", Product)}), Numbers)
    OBVIOUS
  <1>1. /\ calls' = {c} /\ ~overlapped'
        /\ UNCHANGED <<db, screen, shown, noMore, ended, late, misread>>
    BY <1>0 DEF LoadNext, Send, tables, list
  <1>2. /\ InOrder(shown) /\ EndIsTheEnd /\ Len(shown) < 2 * Half
    BY DEF OneLoad
  <1>3. Operations' = Operations /\ Numbers' = Numbers
    BY <1>1 DEF Operations, Numbers
  <1>4. InOrder(shown)'
    BY <1>1, <1>2, <1>3 DEF InOrder, UpTo, NumbersOf
  <1>5. EndIsTheEnd'
    BY <1>1, <1>2 DEF EndIsTheEnd, OnProduct, ShownNumbers
  <1>6. Continues(c)'
    BY <1>0, <1>1, <1>3 DEF Continues, Call
  <1>7. \A x \in calls' : Continues(x)'
    BY <1>1, <1>6
  <1>8. QED
    BY <1>1, <1>2, <1>4, <1>5, <1>7 DEF OneLoad

\* The request in flight has been answered with rows that continue the list.
LEMMA AnsweredLoad ==
  ASSUME Sent, OneLoad, OnProduct, ~overlapped, NEW c \in calls, NEW fault, NEW a,
         Answering(c, fault, a),
         UNCHANGED <<db, screen, shown, noMore, ended, late, overlapped, misread>>,
         a.rows \in Seq(Operations),
         InOrder(shown \o a.rows) /\ Len(shown \o a.rows) < 2 * Half,
         \/ Numbers \subseteq NumbersOf(shown \o a.rows) \cup late
         \/ a.code \notin {"SUCCESS", "NOT_FOUND"} \/ Len(a.rows) >= Batch
         \/ a.code = "NOT_FOUND" /\ fault # "none"
         \/ Len(shown) >= Half
  PROVE  OneLoad'
  <1>1. /\ InOrder(shown) /\ EndIsTheEnd /\ Len(shown) < 2 * Half
        /\ \A x, y \in calls : x = y
        /\ Continues(c)
    BY DEF OneLoad
  <1>2. PICK d : /\ calls' = (calls \ {c}) \cup {d}
                 /\ d = [n |-> c.n, task |-> c.task, page |-> c.page, request |-> c.request,
                         known |-> c.known, fault |-> fault, answer |-> a]
    BY Replied
  <1>3. calls' = {d}
    BY <1>1, <1>2
  <1>4. /\ d.task = c.task /\ d.request = c.request /\ d.known = c.known
        /\ d.fault = fault /\ d.answer = a
    BY <1>2
  <1>5. Len(a.rows) \in Nat /\ Len(shown) \in Nat /\ Half \in Nat /\ Batch \in Nat
    BY <1>1, ReadingAssumption, BrowsingAssumption DEF InOrder
  <1>6. SaysEnd(d) /\ Len(shown) < Half => d.known \subseteq NumbersOf(shown \o a.rows) \cup late
    BY <1>1, <1>4, <1>5 DEF SaysEnd, Continues
  <1>7. Operations' = Operations /\ Numbers' = Numbers
    BY DEF Operations, Numbers
  <1>8. (InOrder(shown \o a.rows)' <=> InOrder(shown \o a.rows)) /\ (InOrder(shown)' <=> InOrder(shown))
    BY <1>7 DEF InOrder, UpTo, NumbersOf
  <1>9. Continues(d)'
    <2>1. /\ d.task = "operations" /\ d.known \subseteq Numbers
          /\ d.request = Request(Batch, Len(shown), {Equal("product_id", Product)})
      BY <1>1, <1>4 DEF Continues
    <2>2. (d.answer.rows \in Seq(Operations))' /\ InOrder(shown \o d.answer.rows)'
      BY <1>4, <1>7, <1>8
    <2>3. (Len(shown \o d.answer.rows) < 2 * Half)'
      BY <1>4
    <2>4. (SaysEnd(d) /\ Len(shown) < Half =>
             d.known \subseteq NumbersOf(shown \o d.answer.rows) \cup late)'
      BY <1>4, <1>6 DEF SaysEnd, NumbersOf
    <2>5. QED
      BY <1>7, <2>1, <2>2, <2>3, <2>4 DEF Continues
  <1>10. EndIsTheEnd'
    BY <1>1 DEF EndIsTheEnd, OnProduct, ShownNumbers
  <1>11. QED
    BY <1>1, <1>3, <1>8, <1>9, <1>10 DEF OneLoad

LEMMA ServeLoad ==
  ASSUME Drawn, Sent, OneLoad, NEW c \in calls, NEW fault, Serve(c, fault)
  PROVE  OneLoad'
  <1> SUFFICES ASSUME OnProduct, ~overlapped PROVE OneLoad'
    BY DEF OneLoad, OnProduct, Serve
  <1>1. InOrder(shown) /\ Len(shown) < 2 * Half /\ Continues(c)
    BY DEF OneLoad
  <1>2. PICK a \in Answers(c, fault) : Answering(c, fault, a)
    BY DEF Serve
  <1>3. a \in GetOperationList(db, c.request, fault)
    BY <1>1 DEF Answers, Continues
  <1>4. PICK r : r = c.request
    OBVIOUS
  <1>5. r = Request(Batch, Len(shown), {Equal("product_id", Product)})
    BY <1>1, <1>4 DEF Continues
  <1>6. a \in GetOperationList(db, r, fault)
    BY <1>3, <1>4
  <1>7. /\ a.rows \in Seq(Operations)
        /\ InOrder(shown \o a.rows) /\ Len(shown \o a.rows) < 2 * Half
        /\ \/ Numbers \subseteq NumbersOf(shown \o a.rows) \cup late
           \/ a.code \notin {"SUCCESS", "NOT_FOUND"} \/ Len(a.rows) >= Batch
           \/ a.code = "NOT_FOUND" /\ fault # "none"
           \/ Len(shown) >= Half
    BY <1>1, <1>5, <1>6, NextOperations
  <1>8. UNCHANGED <<db, screen, shown, noMore, ended, late, overlapped, misread>>
    BY DEF Serve, tables, list
  <1>9. QED
    BY <1>2, <1>7, <1>8, AnsweredLoad

LEMMA DenyLoad ==
  ASSUME Sent, OneLoad, NEW c \in calls, Deny(c)
  PROVE  OneLoad'
  <1> SUFFICES ASSUME OnProduct, ~overlapped PROVE OneLoad'
    BY DEF OneLoad, OnProduct, Deny, history
  <1>1. InOrder(shown) /\ Len(shown) < 2 * Half
    BY DEF OneLoad
  <1>2. PICK a : a = Nothing("UNAUTHORIZED") /\ Answering(c, "none", a)
    BY DEF Deny
  <1>3. a.code = "UNAUTHORIZED" /\ a.rows = <<>>
    BY <1>2 DEF Nothing, Answer
  <1>4. shown \o <<>> = shown /\ <<>> \in Seq(Operations)
    BY <1>1 DEF InOrder
  <1>5. InOrder(shown \o a.rows) /\ Len(shown \o a.rows) < 2 * Half /\ a.rows \in Seq(Operations)
    BY <1>1, <1>3, <1>4
  <1>6. UNCHANGED <<db, screen, shown, noMore, ended, late, overlapped, misread>>
    BY DEF Deny, tables, list, history
  <1>7. a.code \notin {"SUCCESS", "NOT_FOUND"}
    BY <1>3
  <1>8. QED
    BY <1>2, <1>5, <1>6, <1>7, AnsweredLoad

LEMMA ReceiveOperationsLoad ==
  ASSUME OneLoad, NEW c \in calls, ReceiveOperations(c)
  PROVE  OneLoad'
  <1> SUFFICES ASSUME OnProduct, ~overlapped PROVE OneLoad'
    BY DEF OneLoad, OnProduct, ReceiveOperations
  <1>1. /\ InOrder(shown) /\ EndIsTheEnd /\ Len(shown) < 2 * Half
        /\ \A x, y \in calls : x = y
        /\ Continues(c)
    BY DEF OneLoad
  <1>2. /\ c.answer # Unanswered /\ c.answer.code \in {"SUCCESS", "NOT_FOUND", "ERROR"}
        /\ calls' = {} /\ shown' = shown \o c.answer.rows
        /\ noMore' = (noMore \/ IsLast(c))
        /\ ended' = IF noMore' /\ ~noMore THEN c.known ELSE ended
        /\ misread' = (misread \/ (c.answer.code = "NOT_FOUND" /\ c.fault # "none"))
        /\ UNCHANGED <<db, screen, late, overlapped>>
    BY <1>1 DEF ReceiveOperations, Arrived, tables
  <1>3. /\ c.answer.rows \in Seq(Operations)
        /\ InOrder(shown \o c.answer.rows) /\ Len(shown \o c.answer.rows) < 2 * Half
        /\ SaysEnd(c) /\ Len(shown) < Half =>
             c.known \subseteq NumbersOf(shown \o c.answer.rows) \cup late
    BY <1>1, <1>2 DEF Continues
  <1>4. Operations' = Operations /\ Numbers' = Numbers
    BY <1>2 DEF Operations, Numbers
  <1>5. InOrder(shown)'
    <2>1. PICK rows : rows = shown \o c.answer.rows
      OBVIOUS
    <2>2. shown' = rows /\ InOrder(rows)
      BY <1>2, <1>3, <2>1
    <2>3. QED
      BY <1>2, <1>4, <2>2 DEF InOrder, UpTo, NumbersOf
  <1>6. EndIsTheEnd'
    <2> SUFFICES ASSUME noMore', ~misread', Len(shown') < Half
                 PROVE  ended' \subseteq NumbersOf(shown') \cup late
      BY <1>2 DEF EndIsTheEnd, ShownNumbers, NumbersOf
    <2>1. Len(shown) \in Nat /\ Len(shown) <= Len(shown') /\ Len(shown') \in Nat /\ Half \in Nat
      BY <1>1, <1>2, <1>3, ReadingAssumption DEF InOrder
    <2>2. CASE noMore
      <3>1. ended' = ended /\ ended \subseteq NumbersOf(shown) \cup late
        BY <1>1, <1>2, <2>1, <2>2 DEF EndIsTheEnd, ShownNumbers, NumbersOf
      <3>2. NumbersOf(shown) \subseteq NumbersOf(shown')
        <4>1. \A i \in DOMAIN shown : i \in DOMAIN shown' /\ shown'[i] = shown[i]
          BY <1>1, <1>2, <1>3 DEF InOrder
        <4>2. QED
          BY <4>1 DEF NumbersOf
      <3>3. QED
        BY <3>1, <3>2
    <2>3. CASE ~noMore
      <3>1. IsLast(c) /\ ended' = c.known
        BY <1>2, <2>3, Zenon
      <3>2. ~(c.answer.code = "NOT_FOUND" /\ c.fault # "none")
        BY <1>2, Zenon
      <3>3. SaysEnd(c) /\ Len(shown) < Half
        BY <1>2, <2>1, <3>1, <3>2 DEF SaysEnd, IsLast
      <3>4. QED
        BY <1>2, <1>3, <3>1, <3>3
    <2>4. QED
      BY <2>2, <2>3
  <1>7. QED
    BY <1>2, <1>3, <1>5, <1>6 DEF OneLoad

LEMMA NextLoad == Drawn /\ Sent /\ OneLoad /\ [Next]_vars => OneLoad'
  <1> SUFFICES ASSUME Drawn, Sent, OneLoad, [Next]_vars PROVE OneLoad'
    OBVIOUS
  <1>1. ASSUME NEW b, Draw(b) PROVE OneLoad'
    BY <1>1, SameLoad DEF Draw, list, history
  <1>2. ASSUME NEW t \in pending, Commit(t) PROVE OneLoad'
    BY <1>2, CommitLoad
  <1>3. CASE LoadNext
    BY <1>3, LoadNextLoad
  <1>4. ASSUME NEW to, SwitchPage(to) PROVE OneLoad'
    BY <1>4 DEF SwitchPage, OneLoad, OnProduct
  <1>5. ASSUME NEW c \in calls, NEW fault, Serve(c, fault) PROVE OneLoad'
    BY <1>5, ServeLoad
  <1>6. ASSUME NEW c \in calls, Deny(c) PROVE OneLoad'
    BY <1>6, DenyLoad
  <1>7. ASSUME NEW c \in calls, ReceiveOperations(c) PROVE OneLoad'
    BY <1>7, ReceiveOperationsLoad
  <1>8. ASSUME NEW c \in calls, c.task # "operations",
               UNCHANGED <<screen, overlapped>>
        PROVE  OneLoad'
    BY <1>8 DEF OneLoad, OnProduct, Continues
  <1>9. ASSUME NEW c \in calls, ReceiveSize(c) \/ ReceiveProducts(c) \/ IgnoreFailure(c) PROVE OneLoad'
    BY <1>8, <1>9 DEF ReceiveSize, ReceiveProducts, IgnoreFailure, Arrived, history
  <1>10. ASSUME NEW c, Redirect(c) PROVE OneLoad'
    BY <1>10 DEF Redirect, OneLoad, OnProduct
  <1>11. CASE UNCHANGED vars
    BY <1>11, SameLoad DEF vars, tables, list, history
  <1>12. QED
    BY <1>1, <1>2, <1>3, <1>4, <1>5, <1>6, <1>7, <1>9, <1>10, <1>11 DEF Next

-----------------------------------------------------------------------------
(* Pages of a warehouse.                                                   *)

LEMMA StoredFinite ==
  ASSUME Drawn
  PROVE  IsFiniteSet(WarehouseItems(db, Warehouse)) /\ Stored \in Nat
  <1>1. IsFiniteSet(db.Warehouse_Item)
    BY Tablewise DEF Drawn
  <1>2. IsFiniteSet(WarehouseItems(db, Warehouse))
    BY <1>1, FS_Subset DEF WarehouseItems
  <1>3. QED
    BY <1>2, FS_CardinalityType DEF Stored

\* A booking that takes the product away is known as taken.
LEMMA CommitStored ==
  ASSUME Drawn, NEW t \in pending, Commit(t), ~taken'
  PROVE  ~taken /\ Stored <= Stored'
  <1> DEFINE old == WarehouseItems(db, Warehouse)
             new == WarehouseItems(db', Warehouse)
  <1>1. ~taken
    BY Zenon DEF Commit
  <1>2. ~(~t.booking.brings /\ t.booking.warehouse = Warehouse /\ StockOf(t.booking) # {})
    BY Zenon DEF Commit, StockOf
  <1>3. old \subseteq new
    <2>1. CASE t.booking.brings
      <3>1. db.Warehouse_Item \subseteq db'.Warehouse_Item
        BY <2>1, Committed
      <3>2. QED
        BY <3>1 DEF WarehouseItems
    <2>2. CASE ~t.booking.brings
      <3>1. db'.Warehouse_Item = db.Warehouse_Item \ StockOf(t.booking)
        BY <2>2, Committed
      <3>2. \A i \in old : i \notin StockOf(t.booking)
        BY <1>2, <2>2 DEF StockOf, WarehouseItems
      <3>3. QED
        BY <3>1, <3>2 DEF WarehouseItems
    <2>3. QED
      BY <2>1, <2>2
  <1>4. IsFiniteSet(new)
    <2>1. Drawn'
      BY CommitDrawn
    <2>2. (Drawn => IsFiniteSet(WarehouseItems(db, Warehouse)))'
      BY StoredFinite, PTL
    <2>3. QED
      BY <2>1, <2>2
  <1>5. Cardinality(old) <= Cardinality(new)
    <2> HIDE DEF old, new
    <2> QED
      BY <1>3, <1>4, FS_Subset
  <1>6. QED
    BY <1>1, <1>5 DEF Stored

\* The join of a warehouse is its items.
LEMMA JoinedItems ==
  ASSUME Drawn, NEW w, w # Null
  PROVE  Where(Joined(db), Only("warehouse_id", w)) = WarehouseItems(db, w)
  <1>1. Where(Joined(db), Only("warehouse_id", w)) = {x \in Joined(db) : x["warehouse_id"] = w}
    BY OnlyEqual
  <1>2. \A x \in WarehouseItems(db, w) : x \in Joined(db)
    BY DEF Joined, Drawn, WarehouseItems
  <1>3. \A x \in Joined(db) : x.warehouse_id = w => x \in WarehouseItems(db, w)
    <2> SUFFICES ASSUME NEW x \in Joined(db), x.warehouse_id = w PROVE x \in WarehouseItems(db, w)
      OBVIOUS
    <2>1. CASE \E i \in db.Warehouse_Item :
                 x = [product_id |-> i.product_id, warehouse_id |-> i.warehouse_id,
                      count |-> i.count]
      <3>1. PICK i \in db.Warehouse_Item :
              x = [product_id |-> i.product_id, warehouse_id |-> i.warehouse_id,
                   count |-> i.count]
        BY <2>1
      <3>2. i = [warehouse_id |-> i.warehouse_id, product_id |-> i.product_id, count |-> i.count]
        BY DEF Drawn
      <3>3. x = i
        BY <3>1, <3>2
      <3>4. QED
        BY <3>3 DEF WarehouseItems
    <2>2. CASE \E q \in db.Product :
                 x = [product_id |-> q.product_id, warehouse_id |-> Null, count |-> Null]
      BY <2>2
    <2>3. QED
      BY <2>1, <2>2 DEF Joined
  <1>4. QED
    BY <1>1, <1>2, <1>3 DEF WarehouseItems

\* A page that begins before the end of the warehouse has a row.
LEMMA FoundPage ==
  ASSUME Drawn, NEW off \in Nat, off < Stored, off < Half,
         NEW r, r = Request(PageSize, off, {Equal("warehouse_id", Warehouse)}),
         NEW a \in GetProductList(db, r, "none")
  PROVE  a.code # "NOT_FOUND"
  <1> DEFINE filter == Only("warehouse_id", Warehouse)
             items == WarehouseItems(db, Warehouse)
             from == {"Product", "Warehouse_Item"}
  <1>1. PageSize \in Nat /\ PageSize > 0 /\ Half \in Nat /\ PageSize < Half
    BY ReadingAssumption, BrowsingAssumption
  <1>2. r.limit = PageSize /\ r.offset = off /\ r.filters = {Equal("warehouse_id", Warehouse)}
    BY DEF Request
  <1>3. off < 2 * Half
    BY <1>1
  <1>4. r.offset # Missing /\ FilterOf(r) = filter
    BY <1>1, <1>2, AskedAssumption, OneFilter, Columned
  <1>5. MentionsWarehouse(filter)
    BY DEF MentionsWarehouse, Only
  <1>6. a \in ListTask(Joined(db), from, "product_id", r, "none")
    BY <1>4, <1>5 DEF GetProductList
  <1>7. Where(Joined(db), filter) = items
    BY AskedAssumption, JoinedItems
  <1>8. ~Refused(filter, from) /\ ~Empty(filter)
    BY OneColumnKnown
  <1>9. ~PageRefused(r)
    <2>1. Narrow(PageSize) = PageSize /\ Narrow(off) = off
      BY <1>1, NarrowOf
    <2>2. QED
      BY <1>1, <1>2, <2>1 DEF PageRefused
  <1>10. Listed(a, Joined(db), from, "product_id", r, "none")
    BY <1>4, <1>6, ListAnswer
  <1> HIDE DEF filter, from, items
  <1>11. ASSUME NEW q \in Pages(items, "product_id", r) PROVE q # <<>>
    <2>1. PICK S : S = items
      OBVIOUS
    <2>2. PICK s \in Orders(S, "product_id") :
            q = SubSeq(s, off + 1, IF off + PageSize < Len(s) THEN off + PageSize ELSE Len(s))
      BY <1>1, <1>2, <1>3, <1>9, <1>11, <2>1, PageOf
    <2>3. PICK n \in Nat : n = Stored
      BY StoredFinite
    <2>4. Len(s) = n /\ s \in Seq(items)
      <3>1. s \in SetToSeqs(items) /\ IsFiniteSet(items)
        BY <2>1, <2>2, StoredFinite DEF Orders, items
      <3>2. QED
        BY <2>3, <3>1, Enumerates DEF Stored, items
    <2>5. PICK e \in Nat : e = IF off + PageSize < n THEN off + PageSize ELSE n
      BY <1>1
    <2>6. off + 1 <= e /\ e <= n
      BY <1>1, <2>3, <2>5
    <2>7. Len(SubSeq(s, off + 1, e)) = e - off
      BY <2>4, <2>6
    <2>8. Len(q) = e - off
      BY <2>2, <2>4, <2>5, <2>7
    <2>9. QED
      BY <2>6, <2>8
  <1>12. \/ a = Nothing("ERROR")
         \/ \E q \in Pages(items, "product_id", r) : q = <<>> \/ a = Answer("SUCCESS", q)
    BY <1>4, <1>7, <1>8, <1>9, <1>10 DEF Listed
  <1>13. a = Nothing("ERROR") \/ \E q : a = Answer("SUCCESS", q)
    BY <1>11, <1>12
  <1>14. QED
    BY <1>13 DEF Nothing, Answer

LEMMA LastPage ==
  ASSUME NEW count \in Nat, NEW n \in Nat, count <= n, NEW size \in Nat \ {0},
         NEW last, last = (count + size - 1) \div size - 1
  PROVE  last \in Int /\ last * size < n
  <1>1. PICK k \in Nat : k = count + size - 1
    OBVIOUS
  <1>2. PICK q \in Nat : q = k \div size
    OBVIOUS
  <1>3. q * size <= k
    BY <1>2
  <1>4. last = q - 1 /\ last \in Int
    BY <1>1, <1>2
  <1>5. last * size = q * size - size
    BY <1>4
  <1>6. QED
    BY <1>1, <1>3, <1>4, <1>5

LEMMA EarlierPage ==
  ASSUME NEW p \in Nat, NEW last \in Int, p <= last, NEW size \in Nat, NEW n \in Nat,
         last * size < n
  PROVE  p * size \in Nat /\ p * size < n
  OBVIOUS

LEMMA InitPages == Init => OnPages
  <1> SUFFICES ASSUME Init, screen = "warehouse" PROVE OnPages
    BY DEF OnPages
  <1>1. /\ sent = 1 /\ page = 0 /\ maxPage = 0 /\ shownBy = 0
        /\ calls = {Call(1, "size", 0, Request(0, 0, Missing), {})}
    BY DEF Init
  <1>2. \A c \in calls : /\ c.n = 1 /\ c.page = 0 /\ c.task = "size" /\ c.answer.code = "none"
    BY <1>1 DEF Call, Unanswered
  <1>3. \A c, d \in calls : c = d
    BY <1>1
  <1>4. PagesWithinSizeAreFound /\ ShownPageIsCurrent
    BY <1>1, <1>2 DEF PagesWithinSizeAreFound, ShownPageIsCurrent, Arrived
  <1>5. QED
    BY <1>1, <1>2, <1>3, <1>4 DEF OnPages, AsksSize

\* Nothing that the pages depend on has changed but what is stored.
LEMMA MorePages ==
  ASSUME OnPages, UNCHANGED <<screen, calls, sent, pages>>,
         taken' \/ (~taken /\ Stored <= Stored'), Stored \in Nat, Stored' \in Nat
  PROVE  OnPages'
  <1> SUFFICES ASSUME screen = "warehouse" PROVE OnPages'
    BY DEF OnPages
  <1>1. UNCHANGED <<page, maxPage, shownBy, shownPage>>
    BY DEF pages
  <1>2. /\ sent # 0 /\ page \in Nat /\ maxPage \in Int /\ shownBy \in 0 .. sent
        /\ ShownPageIsCurrent /\ PagesWithinSizeAreFound
        /\ \A c \in calls : c.n \in 1 .. sent /\ c.page \in Nat
    BY DEF OnPages
  <1>3. ShownPageIsCurrent'
    BY <1>1, <1>2 DEF ShownPageIsCurrent
  <1>4. PagesWithinSizeAreFound'
    BY <1>1, <1>2 DEF PagesWithinSizeAreFound, Arrived
  <1>5. CASE sent = 1
    <2>1. /\ page = 0 /\ maxPage = 0 /\ shownBy = 0
          /\ \A c, d \in calls : c = d
          /\ \A c \in calls : AsksSize(c)
      BY <1>5 DEF OnPages
    <2>2. \A c \in calls : AsksSize(c)'
      BY <2>1 DEF AsksSize
    <2>3. QED
      BY <1>1, <1>2, <1>3, <1>4, <1>5, <2>1, <2>2 DEF OnPages
  <1>6. CASE sent # 1
    <2>1. taken \/ maxPage < 0 \/ maxPage * PageSize < Stored
      BY <1>6 DEF OnPages
    <2>2. \A c \in calls : AsksPage(c)
      BY <1>6 DEF OnPages
    <2>3. \A c \in calls : AsksPage(c)'
      BY <1>1, <2>2 DEF AsksPage
    <2>4. (taken \/ maxPage < 0 \/ maxPage * PageSize < Stored)'
      <3>1. PICK m \in Int : m = maxPage * PageSize
        BY <1>2, BrowsingAssumption
      <3>2. QED
        BY <1>1, <2>1, <3>1
    <2>5. QED
      BY <1>1, <1>2, <1>3, <1>4, <1>6, <2>3, <2>4 DEF OnPages
  <1>7. QED
    BY <1>5, <1>6

LEMMA SwitchPagePages ==
  ASSUME OnPages, sent \in Nat, NEW to, SwitchPage(to)
  PROVE  OnPages'
  <1>1. PICK d : d = Call(sent + 1, "products", to, ProductsOf(to), Numbers)
    OBVIOUS
  <1>2. /\ screen = "warehouse" /\ to \in {page - 1, page + 1} /\ 0 <= to /\ to <= maxPage
        /\ page' = to /\ sent' = sent + 1 /\ calls' = calls \cup {d}
        /\ UNCHANGED <<db, screen, maxPage, shownBy, shownPage, taken>>
    BY <1>1 DEF SwitchPage, Send, tables, history
  <1>3. /\ sent # 0 /\ page \in Nat /\ maxPage \in Int /\ shownBy \in 0 .. sent
        /\ ShownPageIsCurrent /\ PagesWithinSizeAreFound
        /\ \A c \in calls : c.n \in 1 .. sent /\ c.page \in Nat
        /\ sent # 1
    BY <1>2 DEF OnPages
  <1>4. /\ taken \/ maxPage < 0 \/ maxPage * PageSize < Stored
        /\ \A c \in calls : AsksPage(c)
    BY <1>2, <1>3 DEF OnPages
  <1>5. /\ d.n = sent' /\ d.task = "products" /\ d.page = to /\ d.request = ProductsOf(d.page)
        /\ d.answer = Unanswered
    BY <1>1, <1>2 DEF Call
  <1>6. \A c \in calls : AsksPage(c)'
    BY <1>2, <1>3, <1>4 DEF AsksPage
  <1>7. AsksPage(d)'
    BY <1>2, <1>5 DEF AsksPage
  <1>8. ShownPageIsCurrent'
    BY <1>2, <1>3 DEF ShownPageIsCurrent
  <1>9. PagesWithinSizeAreFound'
    BY <1>2, <1>3, <1>5 DEF PagesWithinSizeAreFound, Arrived
  <1>10. Stored' = Stored
    BY <1>2 DEF Stored, WarehouseItems
  <1>11. (taken \/ maxPage < 0 \/ maxPage * PageSize < Stored)'
    BY <1>2, <1>4, <1>10
  <1>12. sent' # 0 /\ sent' # 1 /\ page' \in Nat /\ maxPage' \in Int /\ shownBy' \in 0 .. sent'
    BY <1>2, <1>3
  <1>13. \A c \in calls' : c.n \in 1 .. sent' /\ c.page \in Nat
    BY <1>2, <1>3, <1>5
  <1>14. \A c \in calls' : AsksPage(c)'
    BY <1>2, <1>6, <1>7
  <1>15. QED
    BY <1>8, <1>9, <1>11, <1>12, <1>13, <1>14 DEF OnPages

LEMMA AnsweredPages ==
  ASSUME Sent, OnPages, screen = "warehouse", NEW c \in calls, NEW fault, NEW a,
         Answering(c, fault, a), UNCHANGED <<db, screen, sent, pages>>,
         sent = 1 => (a.code = "SUCCESS" => a.count \in Nat /\ (taken' \/ a.count <= Stored)),
         sent # 1 => /\ taken' <=> taken
                     /\ (a.code = "NOT_FOUND" /\ c.page <= maxPage /\ c.page * PageSize < Half)
                          => taken \/ fault # "none"
  PROVE  OnPages'
  <1>1. UNCHANGED <<page, maxPage, shownBy, shownPage>>
    BY DEF pages
  <1>2. PICK d : /\ calls' = (calls \ {c}) \cup {d}
                 /\ d = [n |-> c.n, task |-> c.task, page |-> c.page, request |-> c.request,
                         known |-> c.known, fault |-> fault, answer |-> a]
    BY Replied
  <1>3. /\ d.n = c.n /\ d.task = c.task /\ d.page = c.page /\ d.request = c.request
        /\ d.fault = fault /\ d.answer = a
    BY <1>2
  <1>4. /\ sent # 0 /\ page \in Nat /\ maxPage \in Int /\ shownBy \in 0 .. sent
        /\ ShownPageIsCurrent /\ PagesWithinSizeAreFound
        /\ \A x \in calls : x.n \in 1 .. sent /\ x.page \in Nat
    BY DEF OnPages
  <1>5. ShownPageIsCurrent'
    BY <1>1, <1>4 DEF ShownPageIsCurrent
  <1>6. \A x \in calls' : x.n \in 1 .. sent /\ x.page \in Nat
    BY <1>2, <1>3, <1>4
  <1>7. Stored' = Stored
    BY DEF Stored, WarehouseItems
  <1>8. CASE sent = 1
    <2>1. /\ page = 0 /\ maxPage = 0 /\ shownBy = 0
          /\ \A x, y \in calls : x = y
          /\ AsksSize(c)
      BY <1>8 DEF OnPages
    <2>2. calls' = {d}
      BY <1>2, <2>1
    <2>3. AsksSize(d)'
      BY <1>3, <1>7, <1>8, <2>1 DEF AsksSize
    <2>4. PagesWithinSizeAreFound'
      BY <1>3, <2>1, <2>2 DEF PagesWithinSizeAreFound, Arrived, AsksSize
    <2>5. QED
      BY <1>1, <1>4, <1>5, <1>6, <1>8, <2>1, <2>2, <2>3, <2>4 DEF OnPages
  <1>9. CASE sent # 1
    <2>1. /\ taken \/ maxPage < 0 \/ maxPage * PageSize < Stored
          /\ \A x \in calls : AsksPage(x)
      BY <1>9 DEF OnPages
    <2>2. \A x \in calls : AsksPage(x)'
      BY <1>1, <2>1 DEF AsksPage
    <2>3. AsksPage(d)'
      BY <1>3, <2>2 DEF AsksPage
    <2>4. \A x \in calls' : AsksPage(x)'
      BY <1>2, <2>2, <2>3
    <2>5. PagesWithinSizeAreFound'
      <3> SUFFICES ASSUME NEW x \in calls', Arrived(x, "products", {"NOT_FOUND"}),
                          x.page <= maxPage, x.page * PageSize < Half
                   PROVE  taken \/ x.fault # "none"
        BY <1>1, <1>9 DEF PagesWithinSizeAreFound, Arrived
      <3>1. CASE x \in calls
        BY <1>4, <3>1 DEF PagesWithinSizeAreFound
      <3>2. CASE x = d
        BY <1>3, <1>9, <3>2 DEF Arrived
      <3>3. QED
        BY <1>2, <3>1, <3>2
    <2>6. (taken \/ maxPage < 0 \/ maxPage * PageSize < Stored)'
      BY <1>1, <1>7, <1>9, <2>1
    <2>7. QED
      BY <1>1, <1>4, <1>5, <1>6, <1>9, <2>4, <2>5, <2>6 DEF OnPages
  <1>10. QED
    BY <1>8, <1>9

LEMMA ServePages ==
  ASSUME Drawn, Sent, OnPages, screen = "warehouse", NEW c \in calls, NEW fault, Serve(c, fault)
  PROVE  OnPages'
  <1>1. PICK a \in Answers(c, fault) : Answering(c, fault, a)
    BY DEF Serve
  <1>2. UNCHANGED <<db, screen, sent, pages>> /\ taken' = (taken /\ c.task # "size")
    BY DEF Serve, tables
  <1>3. Stored \in Nat
    BY StoredFinite
  <1>4. CASE sent = 1
    <2>1. c.task = "size"
      BY <1>4 DEF OnPages, AsksSize
    <2>2. a = GetProductSizeByWarehouse(db, Warehouse, fault)
      BY <1>1, <2>1 DEF Answers
    <2>3. a.code = "SUCCESS" => a.count = Stored
      BY <2>2 DEF GetProductSizeByWarehouse, Stored
    <2>4. a.code = "SUCCESS" => a.count \in Nat /\ (taken' \/ a.count <= Stored)
      BY <1>3, <2>3
    <2>5. QED
      BY <1>1, <1>2, <1>4, <2>4, AnsweredPages
  <1>5. CASE sent # 1
    <2>1. /\ AsksPage(c) /\ c.page \in Nat /\ maxPage \in Int
          /\ taken \/ maxPage < 0 \/ maxPage * PageSize < Stored
      BY <1>5 DEF OnPages
    <2>2. c.task = "products" /\ c.request = ProductsOf(c.page)
      BY <2>1 DEF AsksPage
    <2>3. ASSUME a.code = "NOT_FOUND", c.page <= maxPage, c.page * PageSize < Half,
                 ~taken, fault = "none"
          PROVE  FALSE
      <3>1. PageSize \in Nat
        BY BrowsingAssumption
      <3>2. maxPage * PageSize < Stored
        BY <2>1, <2>3
      <3>3. c.page * PageSize \in Nat /\ c.page * PageSize < Stored
        <4>1. PICK p \in Nat, last \in Int, size \in Nat, n \in Nat :
                p = c.page /\ last = maxPage /\ size = PageSize /\ n = Stored
          BY <1>3, <2>1, <3>1
        <4>2. p * size \in Nat /\ p * size < n
          BY <2>3, <3>2, <4>1, EarlierPage
        <4>3. QED
          BY <4>1, <4>2
      <3>4. PICK off, r :
              /\ off \in Nat /\ off = c.page * PageSize
              /\ r = Request(PageSize, off, {Equal("warehouse_id", Warehouse)})
        BY <3>3
      <3>5. c.request = r
        BY <2>2, <3>4 DEF ProductsOf
      <3>6. a \in GetProductList(db, r, "none")
        BY <1>1, <2>2, <2>3, <3>5 DEF Answers
      <3>7. off < Stored /\ off < Half
        BY <2>3, <3>3, <3>4
      <3>8. a.code # "NOT_FOUND"
        BY <3>4, <3>6, <3>7, FoundPage
      <3>9. QED
        BY <2>3, <3>8
    <2>4. taken' <=> taken
      <3>1. c.task # "size"
        BY <2>2
      <3>2. QED
        BY <1>2, <3>1, Zenon
    <2>5. QED
      BY <1>1, <1>2, <1>5, <2>3, <2>4, AnsweredPages
  <1>6. QED
    BY <1>4, <1>5

LEMMA DenyPages ==
  ASSUME Sent, OnPages, screen = "warehouse", NEW c \in calls, Deny(c)
  PROVE  OnPages'
  <1>1. PICK a : a = Nothing("UNAUTHORIZED") /\ Answering(c, "none", a)
    BY DEF Deny
  <1>2. a.code = "UNAUTHORIZED"
    BY <1>1 DEF Nothing, Answer
  <1>3. UNCHANGED <<db, screen, sent, pages>> /\ taken' = taken
    BY DEF Deny, tables, history
  <1>4. QED
    BY <1>1, <1>2, <1>3, AnsweredPages

LEMMA ReceiveSizePages ==
  ASSUME Drawn, Sent, OnPages, screen = "warehouse", NEW c \in calls, ReceiveSize(c)
  PROVE  OnPages'
  <1>1. PICK d : d = Call(sent + 1, "products", page, ProductsOf(page), {})
    OBVIOUS
  <1>2. /\ c.task = "size" /\ c.answer.code = "SUCCESS"
        /\ maxPage' = (c.answer.count + PageSize - 1) \div PageSize - 1
        /\ sent' = sent + 1 /\ calls' = (calls \ {c}) \cup {d}
        /\ UNCHANGED <<db, screen, page, shownBy, shownPage, taken>>
    BY <1>1 DEF ReceiveSize, Arrived, tables, history
  <1>3. sent = 1
    BY <1>2 DEF OnPages, AsksPage
  <1>4. /\ page = 0 /\ shownBy = 0
        /\ \A x, y \in calls : x = y
        /\ AsksSize(c)
    BY <1>3 DEF OnPages
  <1>5. calls' = {d}
    BY <1>2, <1>4
  <1>6. /\ d.n = sent' /\ d.task = "products" /\ d.page = page /\ d.request = ProductsOf(d.page)
        /\ d.answer = Unanswered
    BY <1>1, <1>2 DEF Call
  <1>7. AsksPage(d)'
    BY <1>2, <1>6 DEF AsksPage
  <1>8. c.answer.count \in Nat /\ (taken \/ c.answer.count <= Stored)
    BY <1>2, <1>4 DEF AsksSize
  <1>9. Stored' = Stored /\ Stored \in Nat
    BY <1>2, StoredFinite DEF Stored, WarehouseItems
  <1>10. maxPage' \in Int /\ (taken \/ maxPage' * PageSize < Stored)
    <2>1. PICK count \in Nat, n \in Nat, size \in Nat \ {0} :
            count = c.answer.count /\ n = Stored /\ size = PageSize
      BY <1>8, <1>9, BrowsingAssumption
    <2>2. PICK last : last = (count + size - 1) \div size - 1
      OBVIOUS
    <2>3. maxPage' = last
      BY <1>2, <2>1, <2>2
    <2>4. last \in Int
      BY <2>2, LastPage
    <2>5. CASE taken
      BY <2>3, <2>4, <2>5
    <2>6. CASE count <= n
      <3>1. last * size < n
        BY <2>2, <2>6, LastPage
      <3>2. QED
        BY <2>1, <2>3, <2>4, <3>1
    <2>7. QED
      BY <1>8, <2>1, <2>5, <2>6
  <1>11. ShownPageIsCurrent' /\ PagesWithinSizeAreFound'
    BY <1>2, <1>3, <1>4, <1>5, <1>6 DEF ShownPageIsCurrent, PagesWithinSizeAreFound, Arrived
  <1>12. (taken \/ maxPage < 0 \/ maxPage * PageSize < Stored)'
    BY <1>2, <1>9, <1>10
  <1>13. QED
    BY <1>2, <1>3, <1>4, <1>5, <1>6, <1>7, <1>10, <1>11, <1>12 DEF OnPages

LEMMA ReceivePages ==
  ASSUME OnPages, sent \in Nat, screen = "warehouse", NEW c \in calls, calls' \subseteq calls,
         UNCHANGED <<db, screen, sent, page, maxPage, taken>>,
         \/ UNCHANGED <<shownBy, shownPage>>
         \/ c.task = "products" /\ shownBy' = c.n /\ shownPage' = c.page
  PROVE  OnPages'
  <1>1. /\ sent # 0 /\ page \in Nat /\ maxPage \in Int /\ shownBy \in 0 .. sent
        /\ ShownPageIsCurrent /\ PagesWithinSizeAreFound
        /\ \A x \in calls : x.n \in 1 .. sent /\ x.page \in Nat
    BY DEF OnPages
  <1>2. Stored' = Stored
    BY DEF Stored, WarehouseItems
  <1>3. PagesWithinSizeAreFound'
    BY <1>1 DEF PagesWithinSizeAreFound, Arrived
  <1>4. CASE sent = 1
    <2>1. /\ page = 0 /\ maxPage = 0 /\ shownBy = 0
          /\ \A x, y \in calls : x = y
          /\ \A x \in calls : AsksSize(x)
      BY <1>4 DEF OnPages
    <2>2. UNCHANGED <<shownBy, shownPage>>
      BY <2>1 DEF AsksSize
    <2>3. \A x \in calls' : AsksSize(x)'
      BY <1>2, <2>1 DEF AsksSize
    <2>4. ShownPageIsCurrent'
      BY <2>1, <2>2 DEF ShownPageIsCurrent
    <2>5. QED
      BY <1>1, <1>3, <1>4, <2>1, <2>2, <2>3, <2>4 DEF OnPages
  <1>5. CASE sent # 1
    <2>1. /\ taken \/ maxPage < 0 \/ maxPage * PageSize < Stored
          /\ \A x \in calls : AsksPage(x)
      BY <1>5 DEF OnPages
    <2>2. \A x \in calls' : AsksPage(x)'
      BY <2>1 DEF AsksPage
    <2>3. ShownPageIsCurrent' /\ shownBy' \in 0 .. sent
      BY <1>1, <2>1 DEF ShownPageIsCurrent, AsksPage
    <2>4. (taken \/ maxPage < 0 \/ maxPage * PageSize < Stored)'
      BY <1>2, <2>1
    <2>5. QED
      BY <1>1, <1>3, <1>5, <2>2, <2>3, <2>4 DEF OnPages
  <1>6. QED
    BY <1>4, <1>5

LEMMA NextPages == Drawn /\ Sent /\ OnPages /\ [Next]_vars => OnPages'
  <1> SUFFICES ASSUME Drawn, Sent, OnPages, [Next]_vars, screen = "warehouse" PROVE OnPages'
    BY DEF Next, Draw, Commit, LoadNext, SwitchPage, Serve, Deny, ReceiveOperations, ReceiveSize,
       ReceiveProducts, IgnoreFailure, Redirect, vars, OnPages
  <1>1. sent \in Nat /\ Stored \in Nat /\ Stored' \in Nat
    <2>1. Drawn'
      BY NextDrawn
    <2>2. (Drawn => Stored \in Nat)'
      BY StoredFinite, PTL
    <2>3. QED
      BY <2>1, <2>2, StoredFinite DEF Sent
  <1>2. ASSUME UNCHANGED <<db, screen, calls, sent, pages, taken>> PROVE OnPages'
    BY <1>1, <1>2, MorePages DEF Stored, WarehouseItems
  <1>3. ASSUME NEW b, Draw(b) PROVE OnPages'
    BY <1>2, <1>3 DEF Draw, history
  <1>4. ASSUME NEW t \in pending, Commit(t) PROVE OnPages'
    <2>1. taken' \/ (~taken /\ Stored <= Stored')
      BY <1>4, CommitStored
    <2>2. UNCHANGED <<screen, calls, sent, pages>>
      BY <1>4 DEF Commit
    <2>3. QED
      BY <1>1, <2>1, <2>2, MorePages
  <1>5. ~LoadNext
    BY DEF LoadNext
  <1>6. ASSUME NEW to, SwitchPage(to) PROVE OnPages'
    BY <1>1, <1>6, SwitchPagePages
  <1>7. ASSUME NEW c \in calls, NEW fault, Serve(c, fault) PROVE OnPages'
    BY <1>7, ServePages
  <1>8. ASSUME NEW c \in calls, Deny(c) PROVE OnPages'
    BY <1>8, DenyPages
  <1>9. ASSUME NEW c \in calls, ReceiveOperations(c) PROVE OnPages'
    BY <1>9 DEF ReceiveOperations, Arrived, OnPages, AsksSize, AsksPage
  <1>10. ASSUME NEW c \in calls, ReceiveSize(c) PROVE OnPages'
    BY <1>10, ReceiveSizePages
  <1>11. ASSUME NEW c \in calls, ReceiveProducts(c) \/ IgnoreFailure(c) PROVE OnPages'
    <2>1. /\ calls' \subseteq calls
          /\ UNCHANGED <<db, screen, sent, page, maxPage, taken>>
          /\ \/ UNCHANGED <<shownBy, shownPage>>
             \/ c.task = "products" /\ shownBy' = c.n /\ shownPage' = c.page
      BY <1>11 DEF ReceiveProducts, IgnoreFailure, Arrived, tables, pages, history
    <2>2. QED
      BY <1>1, <2>1, ReceivePages
  <1>12. ASSUME NEW c, Redirect(c) PROVE OnPages'
    BY <1>12 DEF Redirect, OnPages
  <1>13. CASE UNCHANGED vars
    BY <1>2, <1>13 DEF vars, tables, history
  <1>14. QED
    BY <1>3, <1>4, <1>5, <1>6, <1>7, <1>8, <1>9, <1>10, <1>11, <1>12, <1>13 DEF Next

-----------------------------------------------------------------------------
(* Lists, sizes and single reads of one snapshot.                          *)

LEMMA WholeSequence ==
  ASSUME NEW S, NEW s \in Seq(S)
  PROVE  SubSeq(s, 1, Len(s)) = s
  <1>1. PICK n \in Nat : n = Len(s)
    OBVIOUS
  <1>2. SubSeq(s, 1, n) \in Seq(S) /\ Len(SubSeq(s, 1, n)) = n
    BY <1>1
  <1>3. \A i \in 1 .. n : SubSeq(s, 1, n)[i] = s[i]
    BY <1>1
  <1>4. QED
    BY <1>1, <1>2, <1>3

\* A list without a limit is all the rows that its size counts.
LEMMA WholeList ==
  ASSUME NEW rows, NEW from, NEW key, NEW r, r.limit = 0, r.offset = 0,
         IsFiniteSet(Where(rows, FilterOf(r))), NEW a \in ListTask(rows, from, key, r, "none")
  PROVE  /\ a.rows \in Seq(rows)
         /\ Len(a.rows) = SizeTask(rows, from, r, "none").count
         /\ ~Empty(FilterOf(r)) /\ ~Refused(FilterOf(r), from) =>
              a.rows \in Orders(Where(rows, FilterOf(r)), key)
  <1> DEFINE f == FilterOf(r)
             S == Where(rows, f)
             size == SizeTask(rows, from, r, "none")
  <1>1. r.offset # Missing /\ Half \in Nat /\ Half > 0
    BY AskedAssumption, ReadingAssumption
  <1>2. Narrow(0) = 0
    BY <1>1, NarrowOf
  <1>3. ~PageRefused(r) /\ ~Limited(r)
    BY <1>2 DEF PageRefused, Limited
  <1>4. Listed(a, rows, from, key, r, "none")
    BY <1>1, ListAnswer
  <1>5. S \subseteq rows /\ IsFiniteSet(S)
    BY DEF Where
  <1>6. Nothing("ERROR").rows = <<>> /\ Nothing("NOT_FOUND").rows = <<>> /\ Len(<<>>) = 0
        /\ <<>> \in Seq(rows)
    BY DEF Nothing, Answer
  <1> HIDE DEF f, S, size
  <1>7. CASE Empty(f) \/ Refused(f, from)
    <2>1. a.rows = <<>>
      BY <1>3, <1>4, <1>6, <1>7 DEF Listed, f
    <2>2. size.count = 0
      BY <1>7 DEF size, SizeTask, f
    <2>3. QED
      BY <1>6, <1>7, <2>1, <2>2 DEF f, size
  <1>8. CASE ~Empty(f) /\ ~Refused(f, from)
    <2>1. size.count = Cardinality(S)
      BY <1>8 DEF size, SizeTask, f, S
    <2>2. PICK p \in Pages(S, key, r) : a.rows = p
      <3>1. \E p \in Pages(S, key, r) :
              \/ p = <<>> /\ a = Nothing("NOT_FOUND")
              \/ a = Answer("SUCCESS", p)
        BY <1>3, <1>4, <1>8 DEF Listed, f, S
      <3>2. QED
        BY <1>6, <3>1 DEF Answer
    <2>3. PICK s \in Orders(S, key) : p = SubSeq(s, 0 + 1, Len(s))
      BY <1>2, <1>3 DEF Pages
    <2>4. s \in SetToSeqs(S)
      BY DEF Orders
    <2>5. s \in Seq(S) /\ Len(s) = Cardinality(S)
      BY <1>5, <2>4, Enumerates
    <2>6. p = s
      BY <2>3, <2>5, WholeSequence
    <2>7. s \in Seq(rows)
      BY <1>5, <2>5
    <2>8. QED
      BY <2>1, <2>2, <2>3, <2>5, <2>6, <2>7 DEF f, S, size
  <1>9. QED
    BY <1>7, <1>8

LEMMA Unfiltered ==
  ASSUME NEW r, r.filters = Missing
  PROVE  /\ FilterOf(r) = NoFilter /\ ~Empty(FilterOf(r)) /\ ~MentionsWarehouse(FilterOf(r))
         /\ \A from : ~Refused(FilterOf(r), from)
         /\ \A rows : Where(rows, FilterOf(r)) = rows
  BY DEF FilterOf, NoFilter, Empty, MentionsWarehouse, Refused, Where

\* Rows that are printed are as many, each from a row.
PrintedFrom(a, b, rows, out) ==
  /\ Len(a.rows) = Len(b.rows) /\ DOMAIN a.rows = 1 .. Len(b.rows)
  /\ \A i \in DOMAIN a.rows : \E row \in rows : a.rows[i] = out[row]

LEMMA Printed ==
  ASSUME NEW rows, NEW answers, \A b \in answers : b.rows \in Seq(rows),
         NEW out, NEW a \in Shown(answers, out)
  PROVE  \E b \in answers : PrintedFrom(a, b, rows, out)
  <1>1. PICK b \in answers : a = Answer(b.code, [i \in DOMAIN b.rows |-> out[b.rows[i]]])
    BY DEF Shown
  <1>2. PICK n \in Nat : n = Len(b.rows)
    OBVIOUS
  <1>3. a.rows = [i \in 1 .. n |-> out[b.rows[i]]]
    BY <1>1, <1>2 DEF Answer
  <1>4. Len(a.rows) = n
    BY <1>3
  <1>5. \A i \in 1 .. n : b.rows[i] \in rows
    BY <1>2
  <1>6. QED
    BY <1>2, <1>3, <1>4, <1>5 DEF PrintedFrom

\* A single read of the row with an id.
LEMMA OneRow ==
  ASSUME NEW x
  PROVE  Single(GetTask({x}, "none"), x)
  <1>1. {x} # {}
    OBVIOUS
  <1>2. GetTask({x}, "none") = Answer("SUCCESS", SetToSeq({x}))
    BY <1>1 DEF GetTask
  <1>3. Cardinality({x}) = 1
    BY FS_Singleton
  <1> DEFINE P(g) == \A i, j \in DOMAIN g : g[i] = g[j] => i = j
  <1>4. SetToSeq({x}) = CHOOSE g \in [1 .. 1 -> {x}] : P(g)
    BY <1>3 DEF SetToSeq, IsInjective
  <1>5. [i \in 1 .. 1 |-> x] \in [1 .. 1 -> {x}] /\ P([i \in 1 .. 1 |-> x])
    OBVIOUS
  <1>6. SetToSeq({x}) \in [1 .. 1 -> {x}]
    <2> HIDE DEF P
    <2> QED
      BY <1>4, <1>5
  <1>7. SetToSeq({x}) = <<x>>
    BY <1>6
  <1>8. QED
    BY <1>2, <1>7 DEF Single, Answer

LEMMA SizesAgree ==
  ASSUME Drawn
  PROVE  /\ Counts(GetProductList(db, All, "none"), GetProductSize(db, All, "none"))
         /\ Counts(GetInvoiceList(db, All, "none"), GetInvoiceSize(db, All, "none"))
         /\ Counts(GetReportList(db, All, "none"), GetReportSize(db, All, "none"))
         /\ Counts(GetUserList(db, All, "none"), GetUserSize(db, All, "none"))
         /\ Counts(GetWarehouseList(db, All, "none"), GetWarehouseSize(db, All, "none"))
  <1>1. All.limit = 0 /\ All.offset = 0 /\ All.filters = Missing
    BY DEF All, Request
  <1>2. ASSUME NEW rows, IsFiniteSet(rows), NEW from, NEW key
        PROVE  \A a \in ListTask(rows, from, key, All, "none") :
                 /\ a.rows \in Seq(rows)
                 /\ Len(a.rows) = SizeTask(rows, from, All, "none").count
    <2>1. PICK r : r = All
      OBVIOUS
    <2>2. IsFiniteSet(Where(rows, FilterOf(r)))
      BY <1>1, <1>2, <2>1, Unfiltered
    <2>3. r.limit = 0 /\ r.offset = 0
      BY <1>1, <2>1
    <2>4. QED
      BY <2>1, <2>2, <2>3, WholeList
  <1>3. ASSUME NEW rows, IsFiniteSet(rows), NEW from, NEW key, NEW out
        PROVE  Counts(Shown(ListTask(rows, from, key, All, "none"), out),
                      SizeTask(rows, from, All, "none"))
    <2>1. \A b \in ListTask(rows, from, key, All, "none") :
            /\ b.rows \in Seq(rows)
            /\ Len(b.rows) = SizeTask(rows, from, All, "none").count
      BY <1>2, <1>3
    <2> SUFFICES ASSUME NEW a \in Shown(ListTask(rows, from, key, All, "none"), out)
                 PROVE  Len(a.rows) = SizeTask(rows, from, All, "none").count
      BY DEF Counts
    <2>2. \E b \in ListTask(rows, from, key, All, "none") : Len(a.rows) = Len(b.rows)
      <3>1. PICK answers : answers = ListTask(rows, from, key, All, "none")
        OBVIOUS
      <3>2. a \in Shown(answers, out) /\ \A b \in answers : b.rows \in Seq(rows)
        BY <2>1, <3>1
      <3>3. \E b \in answers : PrintedFrom(a, b, rows, out)
        BY <3>2, Printed
      <3>4. QED
        BY <3>1, <3>3 DEF PrintedFrom
    <2>3. QED
      BY <2>1, <2>2
  <1>4. /\ IsFiniteSet(db.Invoice) /\ IsFiniteSet(db.Report) /\ IsFiniteSet(db.User)
        /\ IsFiniteSet(db.Warehouse) /\ IsFiniteSet(db.Product)
        /\ Keyed(db.Product, {"product_id"})
    BY Tablewise DEF Drawn
  <1>5. Counts(GetInvoiceList(db, All, "none"), GetInvoiceSize(db, All, "none"))
    BY <1>3, <1>4 DEF GetInvoiceList, GetInvoiceSize
  <1>6. Counts(GetReportList(db, All, "none"), GetReportSize(db, All, "none"))
    BY <1>2, <1>4 DEF GetReportList, GetReportSize, Counts
  <1>7. Counts(GetUserList(db, All, "none"), GetUserSize(db, All, "none"))
    BY <1>3, <1>4 DEF GetUserList, GetUserSize
  <1>8. Counts(GetWarehouseList(db, All, "none"), GetWarehouseSize(db, All, "none"))
    BY <1>3, <1>4 DEF GetWarehouseList, GetWarehouseSize
  <1>9. Counts(GetProductList(db, All, "none"), GetProductSize(db, All, "none"))
    <2> DEFINE Row(p) == [product_id |-> p.product_id, warehouse_id |-> Null, count |-> Null]
    <2>1. PICK S : S = db.Product
      OBVIOUS
    <2>2. PICK R : R = {Row(p) : p \in S}
      OBVIOUS
    <2>3. \A p, q \in S : Row(p) = Row(q) => p = q
      <3>1. \A p, q \in S : p["product_id"] = q["product_id"] => p = q
        BY <1>4, <2>1, OneColumn
      <3>2. \A p : Row(p).product_id = p.product_id
        OBVIOUS
      <3> HIDE DEF Row
      <3>3. QED
        BY <3>1, <3>2
    <2> HIDE DEF Row
    <2>4. [p \in S |-> Row(p)] \in Bijection(S, R)
      BY <2>2, <2>3 DEF Bijection, Injection, Surjection, IsInjective
    <2>5. ExistsBijection(S, R)
      BY <2>4 DEF ExistsBijection
    <2>6. IsFiniteSet(R) /\ Cardinality(R) = Cardinality(S)
      BY <1>4, <2>1, <2>5, FS_Bijection
    <2>7. GetProductList(db, All, "none") = ListTask(R, {"Product"}, "product_id", All, "none")
      <3>1. ~MentionsWarehouse(FilterOf(All))
        BY <1>1, Unfiltered
      <3>2. QED
        BY <2>1, <2>2, <3>1 DEF GetProductList, Row
    <2>8. SizeTask(R, {"Product"}, All, "none").count = SizeTask(S, {"Product"}, All, "none").count
      BY <1>1, <2>6, Unfiltered DEF SizeTask
    <2>9. QED
      BY <1>2, <2>1, <2>6, <2>7, <2>8 DEF GetProductSize, Counts
  <1>10. QED
    BY <1>5, <1>6, <1>7, <1>8, <1>9

LEMMA FilteredAgree ==
  ASSUME Drawn, NEW f, NEW r, r = Request(0, 0, f)
  PROVE  Counts(GetOperationList(db, r, "none"), GetOperationSize(db, r, "none"))
  <1>1. IsFiniteSet(db.Operation)
    BY Tablewise DEF Drawn
  <1>2. IsFiniteSet(Where(db.Operation, FilterOf(r)))
    BY <1>1, FS_Subset DEF Where
  <1>3. r.limit = 0 /\ r.offset = 0
    BY DEF Request
  <1>4. QED
    BY <1>2, <1>3, WholeList DEF Counts, GetOperationList, GetOperationSize

LEMMA ByWarehouseAgree ==
  ASSUME Drawn, NEW id, id # Null, Missing # {Equal("warehouse_id", id)},
         NEW r, r = Request(0, 0, {Equal("warehouse_id", id)})
  PROVE  Counts(GetProductList(db, r, "none"), GetProductSizeByWarehouse(db, id, "none"))
  <1> DEFINE from == {"Product", "Warehouse_Item"}
  <1>1. r.limit = 0 /\ r.offset = 0 /\ r.filters = {Equal("warehouse_id", id)}
    BY DEF Request
  <1>2. PICK f : f = Only("warehouse_id", id)
    OBVIOUS
  <1>3. FilterOf(r) = f /\ MentionsWarehouse(f)
    BY <1>1, <1>2, OneFilter, Columned DEF MentionsWarehouse, Only
  <1>4. Where(Joined(db), f) = WarehouseItems(db, id)
    BY <1>2, JoinedItems
  <1>5. IsFiniteSet(Where(Joined(db), FilterOf(r)))
    <2>1. IsFiniteSet(db.Warehouse_Item)
      BY Tablewise DEF Drawn
    <2>2. IsFiniteSet(WarehouseItems(db, id))
      BY <2>1, FS_Subset DEF WarehouseItems
    <2>3. QED
      BY <1>3, <1>4, <2>2
  <1>6. GetProductList(db, r, "none") = ListTask(Joined(db), from, "product_id", r, "none")
    BY <1>3 DEF GetProductList
  <1>7. ~Refused(f, from) /\ ~Empty(f)
    BY <1>2, OneColumnKnown
  <1>8. SizeTask(Joined(db), from, r, "none").count = Cardinality(WarehouseItems(db, id))
    BY <1>3, <1>4, <1>7 DEF SizeTask
  <1> HIDE DEF from
  <1>9. QED
    BY <1>1, <1>5, <1>6, <1>8, WholeList DEF Counts, GetProductSizeByWarehouse

\* There is one order of rows whose key is a number.
LEMMA OneOrder ==
  ASSUME NEW S, IsFiniteSet(S), Keyed(S, {"operation_id"}),
         \A o \in S : o.operation_id \in Nat,
         NEW s \in Orders(S, "operation_id"), NEW t \in Orders(S, "operation_id")
  PROVE  s = t
  <1>1. PICK n \in Nat : n = Cardinality(S)
    BY FS_CardinalityType
  <1> DEFINE Ordered(u) == /\ u \in Seq(S) /\ Len(u) = n /\ DOMAIN u = 1 .. n
                           /\ \A x \in S : \E i \in 1 .. n : u[i] = x
                           /\ \A i, j \in 1 .. n : i < j => u[i].operation_id < u[j].operation_id
  <1>2. Ordered(s) /\ Ordered(t)
    BY <1>1, Strictly, Enumerates
  <1> DEFINE Below(x) == {o.operation_id : o \in {q \in S : q.operation_id < x}}
  <1>3. ASSUME NEW u, Ordered(u), NEW i \in 1 .. n
        PROVE  /\ u[i] \in S
               /\ Cardinality(Below(u[i].operation_id)) = i - 1
    <2>1. \A j \in 1 .. n : u[j] \in S /\ u[j].operation_id \in Nat
      BY <1>3
    <2>2. First(u, i - 1) = Below(u[i].operation_id)
      <3>1. ASSUME NEW j \in 1 .. i - 1 PROVE u[j].operation_id \in Below(u[i].operation_id)
        BY <1>3, <2>1
      <3>2. ASSUME NEW o \in S, o.operation_id < u[i].operation_id
            PROVE  o.operation_id \in First(u, i - 1)
        <4>1. PICK j \in 1 .. n : u[j] = o
          BY <1>3
        <4>2. j < i
          <5>1. u[j].operation_id < u[i].operation_id
            BY <3>2, <4>1
          <5>2. i < j => u[i].operation_id < u[j].operation_id
            BY <1>3
          <5>3. QED
            BY <2>1, <5>1, <5>2
        <4>3. QED
          BY <4>1, <4>2 DEF First
      <3>3. QED
        BY <3>1, <3>2 DEF First
    <2>3. \A j, k \in 1 .. i - 1 : u[j].operation_id = u[k].operation_id => j = k
      BY <1>3, <2>1
    <2>4. Cardinality(First(u, i - 1)) = i - 1
      <3>1. i - 1 \in Nat
        OBVIOUS
      <3>2. QED
        BY <2>3, <3>1, CountFirst
    <2>5. QED
      BY <2>1, <2>2, <2>4
  <1> HIDE DEF Below
  <1>4. ASSUME NEW i \in 1 .. n PROVE s[i] = t[i]
    <2>1. s[i] \in S /\ Cardinality(Below(s[i].operation_id)) = i - 1
      BY <1>2, <1>3
    <2>2. PICK j \in 1 .. n : t[j] = s[i]
      BY <1>2, <2>1
    <2>3. Cardinality(Below(t[j].operation_id)) = j - 1
      BY <1>2, <1>3
    <2>4. i - 1 = j - 1
      BY <2>1, <2>2, <2>3
    <2>5. QED
      BY <2>2, <2>4
  <1>5. /\ s \in Seq(S) /\ Len(s) = n /\ DOMAIN s = 1 .. n
        /\ t \in Seq(S) /\ Len(t) = n /\ DOMAIN t = 1 .. n
    BY <1>2
  <1> HIDE DEF Ordered
  <1>6. QED
    BY <1>4, <1>5

\* A list read row by row is the list.
LEMMA RowByRow ==
  ASSUME Drawn, NEW a \in GetOperationList(db, All, "none"),
         NEW i \in 1 .. Cardinality(db.Operation), i <= Half,
         NEW r, r = Request(1, i - 1, Missing)
  PROVE  GetOperationList(db, r, "none") = {Answer("SUCCESS", <<a.rows[i]>>)}
  <1> DEFINE from == {"Operation"}
             key == "operation_id"
  <1>1. PICK S : S = db.Operation
    OBVIOUS
  <1>2. /\ IsFiniteSet(S) /\ Keyed(S, {"operation_id"}) /\ \A o \in S : o.operation_id \in Nat
    BY <1>1, Tablewise DEF Drawn
  <1>3. PICK n \in Nat : n = Cardinality(S)
    BY <1>2, FS_CardinalityType
  <1>4. i \in 1 .. n
    BY <1>1, <1>3
  <1>5. All.limit = 0 /\ All.offset = 0 /\ All.filters = Missing
    BY DEF All, Request
  <1>6. a.rows \in Orders(S, key)
    <2>1. PICK q : q = All
      OBVIOUS
    <2>2. a \in ListTask(S, from, key, q, "none")
      BY <1>1, <2>1 DEF GetOperationList
    <2>3. /\ ~Empty(FilterOf(q)) /\ ~Refused(FilterOf(q), from) /\ Where(S, FilterOf(q)) = S
      BY <1>5, <2>1, Unfiltered
    <2>4. q.limit = 0 /\ q.offset = 0 /\ IsFiniteSet(Where(S, FilterOf(q)))
      BY <1>2, <1>5, <2>1, <2>3
    <2>5. a.rows \in Orders(Where(S, FilterOf(q)), key)
      BY <2>2, <2>3, <2>4, WholeList
    <2>6. QED
      BY <2>3, <2>5
  <1>7. Orders(S, key) = {a.rows}
    BY <1>2, <1>6, OneOrder
  <1>8. PICK s : s = a.rows
    OBVIOUS
  <1>9. s \in Seq(S) /\ Len(s) = n
    <2>1. s \in SetToSeqs(S)
      BY <1>6, <1>8 DEF Orders
    <2>2. QED
      BY <1>2, <1>3, <2>1, Enumerates
  <1>10. /\ r.limit = 1 /\ r.offset = i - 1 /\ r.filters = Missing /\ r.offset # Missing
    BY <1>4, AskedAssumption DEF Request
  <1>11. Narrow(1) = 1 /\ Narrow(i - 1) = i - 1
    <2>1. Half \in Nat /\ 1 < Half
      BY ReadingAssumption, BrowsingAssumption
    <2>2. i - 1 \in Nat /\ i - 1 < Half
      BY <2>1
    <2>3. QED
      BY <2>1, <2>2, NarrowOf
  <1>12. Limited(r) /\ ~PageRefused(r)
    BY <1>4, <1>10, <1>11, AskedAssumption DEF Limited, PageRefused
  <1>13. Pages(S, key, r) = {<<s[i]>>}
    <2>1. Pages(S, key, r) =
            {SubSeq(s, i - 1 + 1, IF i - 1 + 1 < Len(s) THEN i - 1 + 1 ELSE Len(s))}
      BY <1>7, <1>8, <1>10, <1>11, <1>12 DEF Pages
    <2>2. i - 1 + 1 = i /\ (IF i < n THEN i ELSE n) = i
      BY <1>4
    <2>3. SubSeq(s, i, i) = <<s[i]>>
      <3>1. SubSeq(s, i, i) \in Seq(S) /\ Len(SubSeq(s, i, i)) = 1 /\ SubSeq(s, i, i)[1] = s[i]
        BY <1>4, <1>9
      <3>2. PICK u, x : u = SubSeq(s, i, i) /\ x = s[i]
        OBVIOUS
      <3>3. u \in Seq(S) /\ Len(u) = 1 /\ u[1] = x
        BY <3>1, <3>2
      <3>4. u = <<x>>
        BY <3>3
      <3>5. QED
        BY <3>2, <3>4
    <2>4. QED
      BY <1>9, <2>1, <2>2, <2>3
  <1>14. GetOperationList(db, r, "none") = Found(Pages(S, key, r), "none")
    <2>1. ~Empty(FilterOf(r)) /\ ~Refused(FilterOf(r), from) /\ Where(S, FilterOf(r)) = S
      BY <1>10, Unfiltered
    <2> HIDE DEF from
    <2>2. ListTask(S, from, key, r, "none") = Found(Pages(S, key, r), "none")
      BY <1>10, <1>12, <2>1 DEF ListTask
    <2>3. QED
      BY <1>1, <2>2 DEF GetOperationList, from
  <1>15. Found({<<s[i]>>}, "none") = {Answer("SUCCESS", <<s[i]>>)}
    <2>1. PICK p : p = <<s[i]>>
      OBVIOUS
    <2>2. p # <<>>
      BY <2>1
    <2>3. Found({p}, "none") = {Answer("SUCCESS", p)}
      BY <2>2 DEF Found
    <2>4. QED
      BY <2>1, <2>3
  <1>16. QED
    BY <1>8, <1>13, <1>14, <1>15

\* The rows with the id of a row are that row.
LEMMA ById ==
  ASSUME NEW S, NEW key, Keyed(S, {key}), NEW x \in S
  PROVE  {y \in S : y[key] = x[key]} = {x}
  BY OneColumn

\* Every row of a list without a limit is one of the table.
LEMMA FromTable ==
  ASSUME NEW rows, IsFiniteSet(rows), NEW from, NEW key,
         NEW b \in ListTask(rows, from, key, All, "none")
  PROVE  b.rows \in Seq(rows)
  <1>1. PICK r : r = All
    OBVIOUS
  <1>2. r.limit = 0 /\ r.offset = 0 /\ r.filters = Missing
    BY <1>1 DEF All, Request
  <1>3. IsFiniteSet(Where(rows, FilterOf(r)))
    BY <1>2, Unfiltered
  <1>4. b \in ListTask(rows, from, key, r, "none")
    BY <1>1
  <1>5. QED
    BY <1>2, <1>3, <1>4, WholeList

LEMMA PrintedRow ==
  ASSUME NEW rows, IsFiniteSet(rows), NEW from, NEW key, NEW out,
         NEW a \in Shown(ListTask(rows, from, key, All, "none"), out), NEW i \in DOMAIN a.rows
  PROVE  \E row \in rows : a.rows[i] = out[row]
  <1>1. PICK answers : answers = ListTask(rows, from, key, All, "none")
    OBVIOUS
  <1>2. a \in Shown(answers, out) /\ \A b \in answers : b.rows \in Seq(rows)
    BY <1>1, FromTable
  <1>3. \E b \in answers : PrintedFrom(a, b, rows, out)
    BY <1>2, Printed
  <1>4. QED
    BY <1>3 DEF PrintedFrom

LEMMA SingleReads ==
  ASSUME Drawn
  PROVE  /\ \A a \in GetInvoiceList(db, All, "none") : \A i \in DOMAIN a.rows :
              Single(GetInvoice(db, a.rows[i].row.invoice_id, "none"), a.rows[i])
         /\ \A a \in GetWarehouseList(db, All, "none") : \A i \in DOMAIN a.rows :
              Single(GetWarehouse(db, a.rows[i].row.warehouse_id, "none"), a.rows[i])
         /\ \A a \in GetReportList(db, All, "none") : \A i \in DOMAIN a.rows :
              Single(GetReport(db, a.rows[i].report_id, "none"), a.rows[i])
         /\ \A p \in db.Product : Single(GetProduct(db, p.product_id, "none"), p)
         /\ \A u \in db.User : Single(GetUser(db, u.user_id, "none"), u)
  <1>1. /\ IsFiniteSet(db.Invoice) /\ Keyed(db.Invoice, {"invoice_id"})
        /\ IsFiniteSet(db.Report) /\ Keyed(db.Report, {"report_id"})
        /\ IsFiniteSet(db.Warehouse) /\ Keyed(db.Warehouse, {"warehouse_id"})
        /\ Keyed(db.Product, {"product_id"}) /\ Keyed(db.User, {"user_id"})
    BY Tablewise DEF Drawn
  <1>2. /\ \A v \in db.Invoice : {y \in db.Invoice : y["invoice_id"] = v["invoice_id"]} = {v}
        /\ \A v \in db.Report : {y \in db.Report : y["report_id"] = v["report_id"]} = {v}
        /\ \A v \in db.Warehouse :
             {y \in db.Warehouse : y["warehouse_id"] = v["warehouse_id"]} = {v}
    <2>1. PICK I, R, W : I = db.Invoice /\ R = db.Report /\ W = db.Warehouse
      OBVIOUS
    <2>2. Keyed(I, {"invoice_id"}) /\ Keyed(R, {"report_id"}) /\ Keyed(W, {"warehouse_id"})
      BY <1>1, <2>1
    <2>3. \A v \in I : {y \in I : y["invoice_id"] = v["invoice_id"]} = {v}
      BY <2>2, ById
    <2>4. \A v \in R : {y \in R : y["report_id"] = v["report_id"]} = {v}
      BY <2>2, ById
    <2>5. \A v \in W : {y \in W : y["warehouse_id"] = v["warehouse_id"]} = {v}
      BY <2>2, ById
    <2>6. QED
      BY <2>1, <2>3, <2>4, <2>5
  <1>3. ASSUME NEW a \in GetInvoiceList(db, All, "none"), NEW i \in DOMAIN a.rows
        PROVE  Single(GetInvoice(db, a.rows[i].row.invoice_id, "none"), a.rows[i])
    <2>1. PICK out : out = [row \in db.Invoice |-> PrintInvoice(db, row)]
      OBVIOUS
    <2>2. a \in Shown(ListTask(db.Invoice, {"Invoice"}, "invoice_id", All, "none"), out)
      BY <1>3, <2>1 DEF GetInvoiceList
    <2>3. PICK v \in db.Invoice : a.rows[i] = out[v]
      BY <1>1, <1>3, <2>2, PrintedRow
    <2>4. a.rows[i] = PrintInvoice(db, v) /\ a.rows[i].row = v
      BY <2>1, <2>3 DEF PrintInvoice
    <2>5. {y \in db.Invoice : y["invoice_id"] = v["invoice_id"]} = {v}
      BY <1>2
    <2>6. {PrintInvoice(db, y) : y \in {z \in db.Invoice : z.invoice_id = v.invoice_id}}
            = {PrintInvoice(db, v)}
      BY <2>5
    <2>7. GetInvoice(db, v.invoice_id, "none") = GetTask({PrintInvoice(db, v)}, "none")
      BY <2>6 DEF GetInvoice
    <2>8. QED
      BY <2>4, <2>7, OneRow
  <1>4. ASSUME NEW a \in GetWarehouseList(db, All, "none"), NEW i \in DOMAIN a.rows
        PROVE  Single(GetWarehouse(db, a.rows[i].row.warehouse_id, "none"), a.rows[i])
    <2>1. PICK out : out = [row \in db.Warehouse |-> PrintWarehouse(db, row)]
      OBVIOUS
    <2>2. a \in Shown(ListTask(db.Warehouse, {"Warehouse"}, "warehouse_id", All, "none"), out)
      BY <1>4, <2>1 DEF GetWarehouseList
    <2>3. PICK v \in db.Warehouse : a.rows[i] = out[v]
      BY <1>1, <1>4, <2>2, PrintedRow
    <2>4. a.rows[i] = PrintWarehouse(db, v) /\ a.rows[i].row = v
      BY <2>1, <2>3 DEF PrintWarehouse
    <2>5. {y \in db.Warehouse : y["warehouse_id"] = v["warehouse_id"]} = {v}
      BY <1>2
    <2>6. {PrintWarehouse(db, y) : y \in {z \in db.Warehouse : z.warehouse_id = v.warehouse_id}}
            = {PrintWarehouse(db, v)}
      BY <2>5
    <2>7. GetWarehouse(db, v.warehouse_id, "none") = GetTask({PrintWarehouse(db, v)}, "none")
      BY <2>6 DEF GetWarehouse
    <2>8. QED
      BY <2>4, <2>7, OneRow
  <1>5. ASSUME NEW a \in GetReportList(db, All, "none"), NEW i \in DOMAIN a.rows
        PROVE  Single(GetReport(db, a.rows[i].report_id, "none"), a.rows[i])
    <2>1. a.rows \in Seq(db.Report)
      BY <1>1, <1>5, FromTable DEF GetReportList
    <2>2. PICK v \in db.Report : a.rows[i] = v
      BY <1>5, <2>1
    <2>3. {y \in db.Report : y["report_id"] = v["report_id"]} = {v}
      BY <1>2
    <2>4. GetReport(db, v.report_id, "none") = GetTask({v}, "none")
      BY <2>3 DEF GetReport
    <2>5. QED
      BY <2>2, <2>4, OneRow
  <1>6. ASSUME NEW p \in db.Product PROVE Single(GetProduct(db, p.product_id, "none"), p)
    <2>1. {y \in db.Product : y["product_id"] = p["product_id"]} = {p}
      BY <1>1, ById
    <2>2. GetProduct(db, p.product_id, "none") = GetTask({p}, "none")
      BY <2>1 DEF GetProduct
    <2>3. QED
      BY <2>2, OneRow
  <1>7. ASSUME NEW u \in db.User PROVE Single(GetUser(db, u.user_id, "none"), u)
    <2>1. {y \in db.User : y["user_id"] = u["user_id"]} = {u}
      BY <1>1, ById
    <2>2. GetUser(db, u.user_id, "none") = GetTask({u}, "none")
      BY <2>1 DEF GetUser
    <2>3. QED
      BY <2>2, OneRow
  <1>8. QED
    BY <1>3, <1>4, <1>5, <1>6, <1>7

-----------------------------------------------------------------------------
(* The theorems.                                                           *)

\* The tables keep their keys, a load continues the list, and the pages stay
\* within what was counted: IInv holds from the beginning and in every step.
THEOREM Invariance == Spec => []IInv
  <1>1. Init => IInv
    BY InitDrawn, InitSent, InitLoad, InitPages DEF IInv
  <1>2. IInv /\ [Next]_vars => IInv'
    BY NextDrawn, NextSent, NextLoad, NextPages DEF IInv
  <1>3. QED
    BY <1>1, <1>2, PTL DEF Spec

\* A list that shows an operation twice owes it to two loads at a time or to
\* an operation that was committed late (loadNextOperations and the offset it
\* asks for).
THEOREM NoneTwice == Spec => []RepeatedForAReason
  <1>1. IInv => RepeatedForAReason
    <2> SUFFICES ASSUME OneLoad, OnProduct, ~overlapped, late = {}
                 PROVE  ~(Cardinality(ShownNumbers) < Len(shown))
      BY DEF IInv, RepeatedForAReason
    <2>1. InOrder(shown)
      BY DEF OneLoad
    <2>2. PICK n \in Nat : n = Len(shown)
      BY <2>1 DEF InOrder
    <2>3. DOMAIN shown = 1 .. n
      BY <2>1, <2>2 DEF InOrder
    <2>4. \A i, j \in 1 .. n : shown[i].operation_id = shown[j].operation_id => i = j
      BY <2>1, <2>3 DEF InOrder
    <2>5. Cardinality(First(shown, n)) = n
      BY <2>4, CountFirst
    <2>6. ShownNumbers = First(shown, n)
      BY <2>3 DEF ShownNumbers, First
    <2>7. QED
      BY <2>2, <2>5, <2>6
  <1>2. QED
    BY <1>1, Invariance, PTL

\* A list that the client takes for complete shows what was committed when its
\* last batch was asked for, whatever is booked meanwhile, but for the causes
\* that EndIsTheEnd names.
THEOREM CompleteAtTheEnd == Spec => []EndIsTheEnd
  <1>1. IInv => EndIsTheEnd
    BY DEF IInv, OneLoad, EndIsTheEnd
  <1>2. QED
    BY <1>1, Invariance, PTL

\* However fast the pages are turned, the answer to the last request that was
\* sent is the page whose number is shown (switchPage and loadProducts).
THEOREM LastAskedIsCurrent == Spec => []ShownPageIsCurrent
  <1>1. IInv => ShownPageIsCurrent
    BY DEF IInv, OnPages, ShownPageIsCurrent
  <1>2. QED
    BY <1>1, Invariance, PTL

\* The size of a warehouse counts items and its list joins products, and yet no
\* page within the size is missed while the database answers and no product
\* has left (get_product_size by warehouse_id and get_product_list).
THEOREM SizeKeepsItsWord == Spec => []PagesWithinSizeAreFound
  <1>1. IInv => PagesWithinSizeAreFound
    BY DEF IInv, OnPages, PagesWithinSizeAreFound
  <1>2. QED
    BY <1>1, Invariance, PTL

\* Of any snapshot with its keys, the lists, the sizes and the single reads
\* tell one story (the tasks get_*_list, get_*_size and get_*).
THEOREM OneStory == Spec => []TasksAgree
  <1>1. IInv => TasksAgree
    <2> SUFFICES ASSUME Drawn PROVE TasksAgree
      BY DEF IInv
    <2>1. \A w \in db.Warehouse :
            Counts(GetProductList(db, Request(0, 0, {Equal("warehouse_id", w.warehouse_id)}), "none"),
                   GetProductSizeByWarehouse(db, w.warehouse_id, "none"))
      <3> SUFFICES ASSUME NEW w \in db.Warehouse
                   PROVE  Counts(GetProductList(db, Request(0, 0, {Equal("warehouse_id", w.warehouse_id)}), "none"),
                                 GetProductSizeByWarehouse(db, w.warehouse_id, "none"))
        OBVIOUS
      <3>1. w \in Tables.Warehouse
        BY DEF Drawn
      <3>2. w.warehouse_id # Null /\ Missing # {Equal("warehouse_id", w.warehouse_id)}
        BY <3>1, AskedAssumption
      <3>3. QED
        BY <3>2, ByWarehouseAgree
    <2>2. \A f \in SomeFilters :
            LET r == Request(0, 0, f)
            IN  Counts(GetOperationList(db, r, "none"), GetOperationSize(db, r, "none"))
      BY FilteredAgree
    <2>3. \A a \in GetOperationList(db, All, "none"), i \in 1 .. Cardinality(db.Operation) :
            i <= Half =>
              GetOperationList(db, Request(1, i - 1, Missing), "none")
                = {Answer("SUCCESS", <<a.rows[i]>>)}
      BY RowByRow
    <2>4. QED
      BY <2>1, <2>2, <2>3, SizesAgree, SingleReads DEF TasksAgree
  <1>2. QED
    BY <1>1, Invariance, PTL
=============================================================================
