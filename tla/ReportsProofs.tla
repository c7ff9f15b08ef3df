--------------------------- MODULE ReportsProofs ---------------------------
(***************************************************************************)
(* The safety of the reports, for any number of tasks, any requests, names *)
(* and attempts, any operations booked meanwhile and any clock tick: IInv  *)
(* is inductive and implies the properties that TLC checks on a small      *)
(* instance.                                                               *)
(***************************************************************************)
EXTENDS Reports, TLAPS

USE ReportsAssumption, PathAssumption

\* Division by the ticks of a second: what ToIso drops is less than a second.
LEMMA Seconds ==
  ASSUME NEW tick \in Nat
  PROVE  /\ ToIso(tick) \in Nat
         /\ Unit * ToIso(tick) <= tick /\ tick < Unit * ToIso(tick) + Unit
  BY DEF ToIso

\* Rounding to a second and back never crosses a bound by a whole second.
LEMMA Rounding ==
  ASSUME TypeOK, NEW second \in Nat, NEW tick \in Nat
  PROVE  /\ second < ToIso(tick) => tick > FromIso(second)
         /\ ToIso(tick) < second => tick < FromIso(second)
         /\ tick > FromIso(second) => second <= ToIso(tick)
         /\ tick < FromIso(second) => ToIso(tick) <= second
  <1> DEFINE s == ToIso(tick)
  <1>1. s \in Nat /\ Unit * s <= tick /\ tick < Unit * s + Unit
    BY Seconds
  <1>2. fraction \in Nat /\ fraction < Unit /\ FromIso(second) = Unit * second + fraction
    BY DEF TypeOK, FromIso
  <1> HIDE DEF s
  <1>3. second < s => Unit * second + Unit <= Unit * s
    <2>1. second < s => s - second \in Nat \ {0} /\ Unit * s = Unit * second + Unit * (s - second)
      BY <1>1
    <2>2. second < s => Unit * (s - second) >= Unit
      BY <1>1
    <2>3. QED
      BY <1>1, <2>1, <2>2
  <1>4. s < second => Unit * s + Unit <= Unit * second
    BY <1>1
  <1>5. second <= s => Unit * second <= Unit * s
    BY <1>1
  <1>6. s <= second => Unit * s <= Unit * second
    BY <1>1
  <1>7. QED
    BY <1>1, <1>2, <1>3, <1>4, <1>5, <1>6 DEF s

LEMMA HeldIn == ASSUME NEW ops, NEW w PROVE Held(ops, w) \subseteq ops
  BY DEF Held

-----------------------------------------------------------------------------
\* The invariant holds initially.
LEMMA InitIInv == Init => IInv
  <1> SUFFICES ASSUME Init PROVE IInv
    OBVIOUS
  <1> USE DEF Init
  <1>1. TypeOK
    BY DEF TypeOK
  <1>2. InPlace
    BY DEF InPlace, Early, Running, InTransaction, Reading
  <1>3. Results /\ Written
    BY DEF Results, Written
  <1>4. OwnFiles
    BY DEF OwnFiles, Holders
  <1>5. Snapshots
    BY DEF Snapshots
  <1>6. QED
    BY <1>1, <1>2, <1>3, <1>4, <1>5 DEF IInv

\* What a task does before it is done with its transaction concerns nobody's
\* row: it has none.
LEMMA Unnoticed ==
  ASSUME IInv, NEW t \in Tasks, pc[t] \notin Past,
         UNCHANGED <<files, head, body, bad, clashed, rows, doubted, stream>>,
         \A u \in Tasks \ {t} : /\ pc'[u] = pc[u] /\ path'[u] = path[u] /\ id'[u] = id[u]
                                /\ req'[u] = req[u] /\ outcome'[u] = outcome[u]
                                /\ result'[u] = result[u],
         stream[t] = NoPath \/ path'[t] = path[t],
         outcome'[t] # "SUCCESS", result'[t] # "SUCCESS"
  PROVE  Results' /\ OwnFiles' /\ Written'
  <1> USE DEF IInv
  <1>1. \A r \in rows : r.of \in Tasks \ {t}
    BY DEF Results, TypeOK
  <1>2. Results'
    <2>1. \A u \in Tasks \ {t} : Committed(u)' = Committed(u)
      BY DEF Committed
    <2>2. \A r \in rows : r = Committed(r.of)' /\ r.id # 0 /\ pc'[r.of] \in Past
      BY <1>1, <2>1 DEF Results
    <2>3. \A u \in doubted : pc'[u] \in Past
      BY DEF Results, TypeOK
    <2>4. \A u \in Tasks :
            /\ outcome'[u] = "SUCCESS" => Committed(u)' \in rows /\ u \notin doubted
            /\ result'[u] = "SUCCESS" => outcome'[u] = "SUCCESS" /\ pc'[u] = "answered"
      BY <2>1 DEF Results
    <2>5. QED
      BY <2>2, <2>3, <2>4 DEF Results
  <1>3. Holders' = Holders /\ \A u \in Holders : u \in Tasks /\ path'[u] = path[u]
    BY <1>1 DEF Holders
  <1>4. OwnFiles'
    BY <1>3 DEF OwnFiles
  <1>5. \A r \in rows : r.path = path[r.of] /\ path'[r.of] = path[r.of]
    BY <1>1 DEF Results, Committed
  <1>6. Written'
    BY <1>1, <1>5 DEF Written, Complete
  <1>7. QED
    BY <1>2, <1>4, <1>6

\* What Execute's return does to its task, and to no other.
LEMMA Returns ==
  ASSUME TypeOK, NEW t \in Tasks, NEW answered \in Answers, Executed(t, answered)
  PROVE  /\ pc' = [pc EXCEPT ![t] = pc'[t]] /\ pc'[t] \in {"write", "answered"}
         /\ outcome' = [outcome EXCEPT ![t] = answered] /\ outcome'[t] = answered
         /\ result' = [result EXCEPT ![t] = result'[t]]
         /\ \/ pc'[t] = "write" /\ result'[t] = result[t]
            \/ pc'[t] = "answered" /\ result'[t] = answered /\ answered # "SUCCESS"
                                   /\ req[t].kind # "current"
  BY DEF TypeOK, Executed, Go

LEMMA BookIInv == ASSUME IInv, NEW o \in Operations, Book(o) PROVE IInv'
  <1> USE DEF IInv, Book, data, file, disk, table, answer
  <1>1. TypeOK'
    BY DEF TypeOK
  <1>2. InPlace'
    BY DEF InPlace
  <1>3. Results' /\ Written'
    BY DEF Results, Committed, Written, Complete
  <1>4. OwnFiles'
    BY DEF OwnFiles, Holders
  <1>5. Snapshots'
    BY DEF Snapshots, AsPrinted
  <1>6. QED
    BY <1>1, <1>2, <1>3, <1>4, <1>5

LEMMA BeginIInv ==
  ASSUME IInv, NEW t \in Tasks, NEW r \in Requests, Begin(t, r) PROVE IInv'
  <1> USE DEF IInv
  <1>1. /\ pc[t] = "idle" /\ pc' = [pc EXCEPT ![t] = pc'[t]] /\ pc'[t] \in {"warehouse", "answered"}
        /\ req' = [req EXCEPT ![t] = r] /\ began' = [began EXCEPT ![t] = booked]
        /\ result' = [result EXCEPT ![t] = result'[t]]
        /\ result'[t] \in {result[t], "WRONG_FORMAT", "ERROR"}
        /\ UNCHANGED <<world, seen, content, file, id, disk, table, outcome>>
    BY DEF Begin, Go, TypeOK
  <1>2. outcome[t] # "SUCCESS" /\ result[t] # "SUCCESS"
    BY <1>1 DEF Results, Committed, Past, Ended
  <1>3. TypeOK'
    BY <1>1 DEF TypeOK, world, file, disk, table, Running, InTransaction, Reading, Ended, Answers
  <1>4. InPlace'
    BY <1>1 DEF InPlace, TypeOK, world, file, disk, table, Early, Running, InTransaction, Reading
  <1>5. Results' /\ OwnFiles' /\ Written'
    <2>1. UNCHANGED <<files, head, body, bad, clashed, rows, doubted, stream, path, id>>
      BY <1>1 DEF file, disk, table
    <2>2. \A u \in Tasks \ {t} : /\ pc'[u] = pc[u] /\ req'[u] = req[u]
                                 /\ outcome'[u] = outcome[u] /\ result'[u] = result[u]
      BY <1>1 DEF TypeOK
    <2>3. QED
      BY <1>1, <1>2, <2>1, <2>2, Unnoticed DEF Past, Ended
  <1>6. Snapshots'
    BY <1>1, <1>2 DEF Snapshots, AsPrinted, TypeOK, world
  <1>7. QED
    BY <1>3, <1>4, <1>5, <1>6

LEMMA FailIInv == ASSUME IInv, NEW t \in Tasks, Fail(t) PROVE IInv'
  <1> USE DEF IInv
  <1>1. /\ pc[t] \in InTransaction /\ Executed(t, "ERROR")
        /\ UNCHANGED <<world, data, file, id, disk, table>>
    BY DEF Fail
  <1>2. /\ pc' = [pc EXCEPT ![t] = pc'[t]] /\ pc'[t] \in {"write", "answered"}
        /\ outcome' = [outcome EXCEPT ![t] = "ERROR"] /\ outcome'[t] = "ERROR"
        /\ result' = [result EXCEPT ![t] = result'[t]] /\ result'[t] \in {result[t], "ERROR"}
    BY <1>1, Returns DEF Answers
  <1>3. pc[t] \notin Past /\ result[t] # "SUCCESS"
    BY <1>1 DEF Results, InTransaction, Reading, Past, Ended
  <1>4. TypeOK'
    BY <1>1, <1>2 DEF TypeOK, world, data, file, disk, table, Running, Ended, Answers
  <1>5. InPlace'
    BY <1>1, <1>2 DEF InPlace, TypeOK, world, data, file, disk, table, Early, Running,
                      InTransaction, Reading
  <1>6. Results' /\ OwnFiles' /\ Written'
    <2>1. UNCHANGED <<files, head, body, bad, clashed, rows, doubted, stream, path, id, req>>
      BY <1>1 DEF data, file, disk, table
    <2>2. \A u \in Tasks \ {t} : /\ pc'[u] = pc[u]
                                 /\ outcome'[u] = outcome[u] /\ result'[u] = result[u]
      BY <1>2 DEF TypeOK
    <2>3. QED
      BY <1>2, <1>3, <2>1, <2>2, Unnoticed
  <1>7. Snapshots'
    BY <1>1, <1>2 DEF Snapshots, AsPrinted, TypeOK, world, data
  <1>8. QED
    BY <1>4, <1>5, <1>6, <1>7

LEMMA ReadWarehouseIInv == ASSUME IInv, NEW t \in Tasks, ReadWarehouse(t) PROVE IInv'
  <1> USE DEF IInv
  <1>1. /\ pc[t] = "warehouse" /\ seen' = [seen EXCEPT ![t] = booked]
        /\ UNCHANGED <<world, req, began, content, file, id, disk, table>>
    BY DEF ReadWarehouse
  <1>2. /\ pc' = [pc EXCEPT ![t] = pc'[t]] /\ pc'[t] \in {"select", "write", "answered"}
        /\ outcome' = [outcome EXCEPT ![t] = outcome'[t]]
        /\ outcome'[t] \in {outcome[t], "NOT_FOUND"}
        /\ result' = [result EXCEPT ![t] = result'[t]] /\ result'[t] \in {result[t], "NOT_FOUND"}
    BY Returns DEF ReadWarehouse, Answers, Go, answer, TypeOK
  <1>3. pc[t] \notin Past /\ outcome[t] # "SUCCESS" /\ result[t] # "SUCCESS"
    BY <1>1 DEF Results, Committed, Past, Ended
  <1>4. TypeOK'
    BY <1>1, <1>2 DEF TypeOK, world, file, disk, table, Running, InTransaction, Reading, Ended, Answers
  <1>5. InPlace'
    BY <1>1, <1>2 DEF InPlace, TypeOK, world, file, disk, table, Early, Running,
                      InTransaction, Reading
  <1>6. Results' /\ OwnFiles' /\ Written'
    <2>1. UNCHANGED <<files, head, body, bad, clashed, rows, doubted, stream, path, id, req>>
      BY <1>1 DEF file, disk, table
    <2>2. \A u \in Tasks \ {t} : /\ pc'[u] = pc[u]
                                 /\ outcome'[u] = outcome[u] /\ result'[u] = result[u]
      BY <1>2 DEF TypeOK
    <2>3. QED
      BY <1>2, <1>3, <2>1, <2>2, Unnoticed
  <1>7. Snapshots'
    BY <1>1, <1>2, <1>3 DEF Snapshots, AsPrinted, TypeOK, world
  <1>8. QED
    BY <1>4, <1>5, <1>6, <1>7

\* The report of a period shows what is printed within its bounds, whatever
\* fraction of a second the provider adds when it reads them.
LEMMA PeriodShown ==
  ASSUME IInv, NEW t \in Tasks, pc[t] = "select", req[t].kind = "period"
  PROVE  /\ \A o \in began[t] : (Since(req[t].from) < ToIso(o.at) /\ ToIso(o.at) < Since(req[t].to))
                                   => o \in InPeriod(seen[t], req[t])
         /\ \A o \in InPeriod(seen[t], req[t]) :
              o \in booked /\ Since(req[t].from) <= ToIso(o.at) /\ ToIso(o.at) <= Since(req[t].to)
  <1> USE DEF IInv
  <1> DEFINE from == Since(req[t].from)  to == Since(req[t].to)
  <1>1. TypeOK /\ from \in Nat /\ to \in Nat
    BY DEF InPlace, Since
  <1>2. began[t] \subseteq seen[t] /\ seen[t] \subseteq booked
    BY DEF Snapshots
  <1>3. \A o \in booked : o.at \in Nat
    BY DEF TypeOK
  <1>4. \A o \in booked :
          /\ from < ToIso(o.at) => o.at > FromIso(from)
          /\ ToIso(o.at) < to => o.at < FromIso(to)
          /\ o.at > FromIso(from) => from <= ToIso(o.at)
          /\ o.at < FromIso(to) => ToIso(o.at) <= to
    BY <1>1, <1>3, Rounding
  <1>5. QED
    BY <1>2, <1>4 DEF InPeriod

LEMMA SelectIInv == ASSUME IInv, NEW t \in Tasks, Select(t) PROVE IInv'
  <1> USE DEF IInv
  <1> DEFINE found == IF req[t].kind = "current" THEN Held(seen[t], req[t].warehouse)
                                                 ELSE InPeriod(seen[t], req[t])
  <1>1. /\ pc[t] = "select" /\ content' = [content EXCEPT ![t] = found]
        /\ UNCHANGED <<world, req, began, seen, file, id, disk, table>>
    BY DEF Select
  <1>2. /\ pc' = [pc EXCEPT ![t] = pc'[t]] /\ pc'[t] \in {"products", "write", "answered"}
        /\ outcome' = [outcome EXCEPT ![t] = outcome'[t]]
        /\ outcome'[t] \in {outcome[t], "NOT_FOUND"}
        /\ result' = [result EXCEPT ![t] = result'[t]] /\ result'[t] \in {result[t], "NOT_FOUND"}
    BY Returns DEF Select, Answers, Go, answer, TypeOK
  <1>3. pc[t] \notin Past /\ outcome[t] # "SUCCESS" /\ result[t] # "SUCCESS"
    BY <1>1 DEF Results, Committed, Past, Ended
  <1>4. found \subseteq seen[t]
    BY HeldIn DEF InPeriod
  <1>5. /\ req[t].kind = "period" =>
             /\ \A o \in began[t] : (Since(req[t].from) < ToIso(o.at) /\ ToIso(o.at) < Since(req[t].to))
                                       => o \in found
             /\ \A o \in found :
                  o \in booked /\ Since(req[t].from) <= ToIso(o.at) /\ ToIso(o.at) <= Since(req[t].to)
    BY <1>1, PeriodShown
  <1> HIDE DEF found
  <1>6. TypeOK'
    BY <1>1, <1>2, <1>4
       DEF TypeOK, world, file, disk, table, Running, InTransaction, Reading, Ended, Answers
  <1>7. InPlace'
    BY <1>1, <1>2 DEF InPlace, TypeOK, world, file, disk, table, Early, Running,
                      InTransaction, Reading
  <1>8. Results' /\ OwnFiles' /\ Written'
    <2>1. UNCHANGED <<files, head, body, bad, clashed, rows, doubted, stream, path, id, req>>
      BY <1>1 DEF file, disk, table
    <2>2. \A u \in Tasks \ {t} : /\ pc'[u] = pc[u]
                                 /\ outcome'[u] = outcome[u] /\ result'[u] = result[u]
      BY <1>2 DEF TypeOK
    <2>3. QED
      BY <1>2, <1>3, <2>1, <2>2, Unnoticed
  <1>9. Snapshots'
    <2>1. \A u \in Tasks \ {t} : /\ pc'[u] = pc[u] /\ outcome'[u] = outcome[u]
                                 /\ content'[u] = content[u]
      BY <1>1, <1>2 DEF TypeOK
    <2>2. content'[t] = found /\ UNCHANGED <<booked, req, began, seen>>
      BY <1>1 DEF TypeOK, world
    <2>3. req[t].kind = "period" => AsPrinted(t)'
      BY <1>5, <2>2 DEF AsPrinted, ToIso
    <2>4. \A u \in Tasks \ {t} : AsPrinted(u) => AsPrinted(u)'
      BY <2>1, <2>2 DEF AsPrinted, ToIso
    <2>5. pc'[t] # "select"
      BY <1>2
    <2>6. QED
      BY <2>1, <2>2, <2>3, <2>4, <2>5 DEF Snapshots
  <1>10. QED
    BY <1>6, <1>7, <1>8, <1>9

LEMMA ReadProductsIInv == ASSUME IInv, NEW t \in Tasks, ReadProducts(t) PROVE IInv'
  <1> USE DEF IInv
  <1>1. /\ pc[t] = "products"
        /\ UNCHANGED <<world, data, attempt, stream, id, disk, table>>
    BY DEF ReadProducts
  <1>2. /\ pc' = [pc EXCEPT ![t] = pc'[t]] /\ pc'[t] \in {"check", "write", "answered"}
        /\ outcome' = [outcome EXCEPT ![t] = outcome'[t]]
        /\ outcome'[t] \in {outcome[t], "NOT_FOUND"}
        /\ result' = [result EXCEPT ![t] = result'[t]] /\ result'[t] \in {result[t], "NOT_FOUND"}
    BY Returns DEF ReadProducts, Answers, Go, answer, TypeOK
  <1>3. /\ path' = [path EXCEPT ![t] = path'[t]]
        /\ path'[t] \in Paths \cup {NoPath} /\ (pc'[t] = "check" => path'[t] \in Paths)
    <2>1. req[t].kind \in Kinds
      BY <1>1 DEF InPlace, Kinds
    <2>2. \A n \in Names : <<req[t].kind, n, Untweaked>> \in Paths
      BY <2>1 DEF Paths
    <2>3. CASE content[t] = {}
      BY <2>3, Returns DEF ReadProducts, Answers, TypeOK
    <2>4. CASE content[t] # {}
      BY <2>2, <2>4 DEF ReadProducts, TypeOK
    <2>5. QED
      BY <2>3, <2>4
  <1>4. pc[t] \notin Past /\ outcome[t] # "SUCCESS" /\ result[t] # "SUCCESS" /\ stream[t] = NoPath
    BY <1>1 DEF Results, Committed, Past, Ended, InPlace, Early, Reading
  <1>5. TypeOK'
    BY <1>1, <1>2, <1>3
       DEF TypeOK, world, data, disk, table, Running, InTransaction, Reading, Ended, Answers
  <1>6. InPlace'
    BY <1>1, <1>2, <1>3 DEF InPlace, TypeOK, world, data, disk, table, Early, Running,
                            InTransaction, Reading
  <1>7. Results' /\ OwnFiles' /\ Written'
    <2>1. UNCHANGED <<files, head, body, bad, clashed, rows, doubted, stream, id, req>>
      BY <1>1 DEF data, disk, table
    <2>2. \A u \in Tasks \ {t} : /\ pc'[u] = pc[u] /\ path'[u] = path[u]
                                 /\ outcome'[u] = outcome[u] /\ result'[u] = result[u]
      BY <1>2, <1>3 DEF TypeOK
    <2>3. QED
      BY <1>2, <1>4, <2>1, <2>2, Unnoticed
  <1>8. Snapshots'
    BY <1>1, <1>2 DEF Snapshots, AsPrinted, TypeOK, world, data
  <1>9. QED
    BY <1>5, <1>6, <1>7, <1>8

\* Another try with a tweaked name, or no more: the task still has no file.
LEMMA Tweaking ==
  ASSUME IInv, NEW t \in Tasks, pc[t] \in {"check", "open"}, TryTweaked(t)
  PROVE  /\ pc' = [pc EXCEPT ![t] = pc'[t]] /\ pc'[t] \in {"check", "write", "answered"}
         /\ attempt' = [attempt EXCEPT ![t] = attempt'[t]] /\ attempt'[t] \in 0 .. Attempts
         /\ pc'[t] = "check" => attempt'[t] < Attempts
         /\ path' = [path EXCEPT ![t] = path'[t]] /\ path'[t] \in Paths
         /\ outcome' = [outcome EXCEPT ![t] = outcome'[t]]
         /\ outcome'[t] \in {outcome[t], "ERROR"}
         /\ result' = [result EXCEPT ![t] = result'[t]] /\ result'[t] \in {result[t], "ERROR"}
  <1> USE DEF IInv
  <1>1. /\ path[t] \in Paths /\ attempt[t] \in Nat /\ attempt[t] < Attempts
        /\ attempt' = [attempt EXCEPT ![t] = attempt[t] + 1]
    BY DEF InPlace, Early, TypeOK, TryTweaked
  <1>2. CASE attempt[t] + 1 < Attempts
    <2>1. PICK w \in Tweaks : path' = [path EXCEPT ![t][3] = w]
      BY <1>2 DEF TryTweaked
    <2>2. PICK k \in Kinds, n \in Names, v \in Tweaks \cup {Untweaked} : path[t] = <<k, n, v>>
      BY <1>1 DEF Paths
    <2>3. path'[t] = <<k, n, w>> /\ path' = [path EXCEPT ![t] = path'[t]]
      BY <2>1, <2>2 DEF TypeOK
    <2>4. path'[t] \in Paths
      BY <2>3 DEF Paths
    <2>5. pc' = [pc EXCEPT ![t] = "check"] /\ UNCHANGED answer
      BY <1>2 DEF TryTweaked, Go
    <2>6. QED
      BY <1>1, <1>2, <2>3, <2>4, <2>5 DEF TypeOK, answer
  <1>3. CASE ~(attempt[t] + 1 < Attempts)
    <2>1. Executed(t, "ERROR") /\ UNCHANGED path
      BY <1>3 DEF TryTweaked
    <2>2. /\ pc' = [pc EXCEPT ![t] = pc'[t]] /\ pc'[t] \in {"write", "answered"}
          /\ outcome' = [outcome EXCEPT ![t] = "ERROR"] /\ outcome'[t] = "ERROR"
          /\ result' = [result EXCEPT ![t] = result'[t]] /\ result'[t] \in {result[t], "ERROR"}
      BY <2>1, Returns DEF Answers
    <2>3. QED
      BY <1>1, <1>3, <2>1, <2>2 DEF TypeOK
  <1>4. QED
    BY <1>2, <1>3

LEMMA TweakingIInv ==
  ASSUME IInv, NEW t \in Tasks, pc[t] \in {"check", "open"}, TryTweaked(t),
         UNCHANGED <<world, data, stream, id, files, head, body, bad, clashed, table>>,
         foundFree' \in {foundFree, foundFree \ {t}}
  PROVE  IInv'
  <1> USE DEF IInv
  <1>1. /\ pc' = [pc EXCEPT ![t] = pc'[t]] /\ pc'[t] \in {"check", "write", "answered"}
        /\ attempt' = [attempt EXCEPT ![t] = attempt'[t]] /\ attempt'[t] \in 0 .. Attempts
        /\ pc'[t] = "check" => attempt'[t] < Attempts
        /\ path' = [path EXCEPT ![t] = path'[t]] /\ path'[t] \in Paths
        /\ outcome' = [outcome EXCEPT ![t] = outcome'[t]]
        /\ outcome'[t] \in {outcome[t], "ERROR"}
        /\ result' = [result EXCEPT ![t] = result'[t]] /\ result'[t] \in {result[t], "ERROR"}
    BY Tweaking
  <1>2. /\ pc[t] \notin Past /\ outcome[t] # "SUCCESS" /\ result[t] # "SUCCESS"
        /\ stream[t] = NoPath /\ id[t] = 0 /\ req[t] \in Requests
    BY DEF Results, Committed, Past, Ended, InPlace, Early
  <1>3. TypeOK'
    BY <1>1 DEF TypeOK, world, data, table, Running, InTransaction, Reading, Ended, Answers
  <1>4. InPlace'
    <2>1. \A u \in Tasks \ {t} : /\ pc'[u] = pc[u] /\ path'[u] = path[u]
                                 /\ attempt'[u] = attempt[u] /\ (u \in foundFree => u \in foundFree')
      BY <1>1 DEF TypeOK
    <2>2. UNCHANGED <<req, stream, id>>
      BY DEF data
    <2>3. QED
      BY <1>1, <1>2, <2>1, <2>2 DEF InPlace, Early, Reading, Running, InTransaction
  <1>5. Results' /\ OwnFiles' /\ Written'
    <2>1. UNCHANGED <<files, head, body, bad, clashed, rows, doubted, stream, id, req>>
      BY DEF data, table
    <2>2. \A u \in Tasks \ {t} : /\ pc'[u] = pc[u] /\ path'[u] = path[u]
                                 /\ outcome'[u] = outcome[u] /\ result'[u] = result[u]
      BY <1>1 DEF TypeOK
    <2>3. QED
      BY <1>1, <1>2, <2>1, <2>2, Unnoticed
  <1>6. Snapshots'
    BY <1>1, <1>2 DEF Snapshots, AsPrinted, TypeOK, world, data
  <1>7. QED
    BY <1>3, <1>4, <1>5, <1>6

LEMMA CheckIInv == ASSUME IInv, NEW t \in Tasks, Check(t) PROVE IInv'
  <1> USE DEF IInv
  <1>1. pc[t] = "check" /\ UNCHANGED <<world, data, stream, id, files, head, body, bad, clashed, table>>
    BY DEF Check
  <1>2. CASE path[t] \in files
    BY <1>1, <1>2, TweakingIInv DEF Check
  <1>3. CASE path[t] \notin files
    <2>1. /\ foundFree' = foundFree \cup {t} /\ pc' = [pc EXCEPT ![t] = "open"]
          /\ UNCHANGED <<attempt, path, answer>>
      BY <1>3 DEF Check, Go
    <2>2. pc[t] \notin Past /\ outcome[t] # "SUCCESS" /\ result[t] # "SUCCESS"
      BY <1>1 DEF Results, Committed, Past, Ended
    <2>3. TypeOK'
      BY <1>1, <2>1 DEF TypeOK, world, data, table, answer, Running, InTransaction
    <2>4. InPlace'
      BY <1>1, <2>1 DEF InPlace, TypeOK, data, Early, Running, InTransaction, Reading
    <2>5. Results' /\ OwnFiles' /\ Written'
      <3>1. UNCHANGED <<files, head, body, bad, clashed, rows, doubted, stream, id, req, path, outcome, result>>
        BY <1>1, <2>1 DEF data, table, answer
      <3>2. \A u \in Tasks \ {t} : pc'[u] = pc[u]
        BY <2>1 DEF TypeOK
      <3>3. QED
        BY <2>2, <3>1, <3>2, Unnoticed
    <2>6. Snapshots'
      BY <1>1, <2>1 DEF Snapshots, AsPrinted, TypeOK, world, data, answer
    <2>7. QED
      BY <2>3, <2>4, <2>5, <2>6
  <1>4. QED
    BY <1>2, <1>3

LEMMA OpenIInv == ASSUME IInv, NEW t \in Tasks, Open(t) PROVE IInv'
  <1> USE DEF IInv
  <1>1. pc[t] = "open" /\ foundFree' = foundFree \ {t} /\ UNCHANGED <<world, data, id, bad, table>>
    BY DEF Open
  <1>2. CASE TryTweaked(t) /\ UNCHANGED <<stream, files, head, body, clashed>>
    BY <1>1, <1>2, TweakingIInv
  <1> DEFINE p == path[t]
  <1>3. CASE /\ stream' = [stream EXCEPT ![t] = p] /\ files' = files \cup {p}
             /\ head' = [head EXCEPT ![p] = NoTask] /\ body' = [body EXCEPT ![p] = NoTask]
             /\ clashed' = IF p \in files /\ t \in foundFree THEN clashed \cup {p} ELSE clashed
             /\ Go(t, "insert") /\ UNCHANGED <<attempt, path, answer>>
    <2>1. /\ p \in Paths /\ p # NoPath /\ t \in foundFree /\ stream[t] = NoPath /\ id[t] = 0
          /\ req[t] \in Requests
      BY <1>1 DEF InPlace, Early
    <2> HIDE DEF p
    <2>2. \A r \in rows : r.of \in Tasks \ {t} /\ r.path = path[r.of]
      BY <1>1 DEF Results, Committed, TypeOK, Past, Ended
    <2>3. pc' = [pc EXCEPT ![t] = "insert"]
      BY <1>3 DEF Go
    <2>4. TypeOK'
      BY <1>1, <1>3, <2>1, <2>3 DEF TypeOK, world, data, table, answer, Running, InTransaction
    <2>5. InPlace'
      <3>1. \A u \in Tasks \ {t} : /\ pc'[u] = pc[u] /\ stream'[u] = stream[u]
                                   /\ (u \in foundFree => u \in foundFree')
        BY <1>1, <1>3, <2>3 DEF TypeOK
      <3>2. stream'[t] = path[t] /\ pc'[t] = "insert" /\ stream'[t] # NoPath
        BY <1>3, <2>1, <2>3 DEF TypeOK, p
      <3>3. UNCHANGED <<req, attempt, path, id>> /\ path[t] \in Paths
        BY <1>1, <1>3, <2>1 DEF data, p
      <3>4. QED
        BY <2>1, <3>1, <3>2, <3>3 DEF InPlace, Early, Reading, Running, InTransaction
    <2>6. Results'
      <3>1. UNCHANGED <<rows, doubted, id, path, outcome, result>>
        BY <1>1, <1>3 DEF table, answer
      <3>2. \A u \in Tasks \ {t} : pc'[u] = pc[u]
        BY <2>3 DEF TypeOK
      <3>3. \A u \in doubted : u # t
        BY <1>1 DEF Results, Past, Ended
      <3>4. outcome[t] # "SUCCESS" /\ result[t] # "SUCCESS"
        BY <1>1 DEF Results, Committed, Past, Ended
      <3>5. doubted \subseteq Tasks
        BY DEF TypeOK
      <3>6. QED
        BY <2>2, <3>1, <3>2, <3>3, <3>4, <3>5 DEF Results, Committed
    <2>7. OwnFiles'
      <3>1. Holders' = Holders \cup {t} /\ t \notin Holders
        BY <1>1, <1>3, <2>1, <2>2 DEF Holders, table, TypeOK
      <3>2. \A u \in Holders : path[u] \in files
        BY DEF OwnFiles
      <3>3. p \in files => p \in clashed'
        BY <1>3, <2>1
      <3>4. clashed \subseteq clashed' /\ files \subseteq files' /\ p \in files' /\ path' = path
        BY <1>3
      <3>5. \A u \in Holders : path[u] = p => p \in clashed'
        BY <3>2, <3>3
      <3>6. \A u \in Holders' : path'[u] \in files'
        BY <3>1, <3>2, <3>4 DEF p
      <3>7. \A u, v \in Holders' : path'[v] = path'[u] => v = u \/ path'[u] \in clashed'
        BY <3>1, <3>4, <3>5 DEF OwnFiles, p
      <3>8. QED
        BY <3>6, <3>7 DEF OwnFiles
    <2>8. Written'
      <3>1. \A r \in rows : r.path \notin clashed' => r.path # p
        <4>1. \A r \in rows : r.path \in files
          BY <2>2 DEF OwnFiles, Holders
        <4>2. QED
          BY <1>3, <2>1, <4>1
      <3>2. \A r \in rows : /\ pc'[r.of] = pc[r.of] /\ req'[r.of] = req[r.of]
                            /\ path'[r.of] = path[r.of]
        BY <1>1, <1>3, <2>2, <2>3 DEF TypeOK, data
      <3>3. \A r \in rows : r.path # p => head'[r.path] = head[r.path] /\ body'[r.path] = body[r.path]
        BY <1>3 DEF TypeOK
      <3>4. rows' = rows /\ doubted' = doubted /\ bad' = bad /\ clashed \subseteq clashed'
        BY <1>1, <1>3 DEF table
      <3>5. QED
        BY <2>2, <3>1, <3>2, <3>3, <3>4 DEF Written, Complete
    <2>9. Snapshots'
      BY <1>1, <1>3, <2>3 DEF Snapshots, AsPrinted, TypeOK, world, data, answer
    <2>10. QED
      BY <2>4, <2>5, <2>6, <2>7, <2>8, <2>9
  <1>4. QED
    BY <1>2, <1>3 DEF Open

LEMMA InsertIInv == ASSUME IInv, NEW t \in Tasks, Insert(t) PROVE IInv'
  <1> USE DEF IInv
  <1>1. /\ pc[t] = "insert" /\ lastId' = lastId + 1 /\ id' = [id EXCEPT ![t] = lastId + 1]
        /\ pc' = [pc EXCEPT ![t] = "commit"]
        /\ UNCHANGED <<world, data, file, disk, rows, doubted, answer>>
    BY DEF Insert, Go
  <1>2. pc[t] \notin Past /\ outcome[t] # "SUCCESS" /\ result[t] # "SUCCESS"
    BY <1>1 DEF Results, Committed, Past, Ended
  <1>3. TypeOK'
    BY <1>1 DEF TypeOK, world, data, file, disk, answer, Running, InTransaction
  <1>4. InPlace'
    BY <1>1 DEF InPlace, TypeOK, data, file, disk, Early, Running, InTransaction, Reading
  <1>5. Results' /\ OwnFiles' /\ Written'
    <2>1. UNCHANGED <<files, head, body, bad, clashed, rows, doubted, stream, req, path, outcome, result>>
      BY <1>1 DEF data, file, disk, answer
    <2>2. \A u \in Tasks \ {t} : pc'[u] = pc[u] /\ id'[u] = id[u]
      BY <1>1 DEF TypeOK
    <2>3. QED
      BY <1>2, <2>1, <2>2, Unnoticed
  <1>6. Snapshots'
    BY <1>1 DEF Snapshots, AsPrinted, TypeOK, world, data, answer
  <1>7. QED
    BY <1>3, <1>4, <1>5, <1>6

LEMMA CommitIInv == ASSUME IInv, NEW t \in Tasks, Commit(t) PROVE IInv'
  <1> USE DEF IInv
  <1>1. /\ pc[t] = "commit" /\ rows' = rows \cup {Committed(t)}
        /\ UNCHANGED <<world, data, file, id, disk, lastId>>
    BY DEF Commit, Committed
  <1>2. PICK answered \in {"SUCCESS", "ERROR"} :
          /\ Executed(t, answered)
          /\ doubted' = IF answered = "ERROR" THEN doubted \cup {t} ELSE doubted
    BY DEF Commit
  <1>3. /\ pc' = [pc EXCEPT ![t] = pc'[t]] /\ pc'[t] \in {"write", "answered"}
        /\ outcome' = [outcome EXCEPT ![t] = answered]
        /\ result' = [result EXCEPT ![t] = result'[t]]
        /\ \/ pc'[t] = "write" /\ result'[t] = result[t]
           \/ pc'[t] = "answered" /\ result'[t] = "ERROR" /\ answered = "ERROR"
                                  /\ req[t].kind # "current"
    BY <1>2, Returns DEF Answers
  <1>4. /\ id[t] # 0 /\ path[t] \in Paths /\ stream[t] # NoPath
        /\ req[t].kind \in {"current", "period"}
    BY <1>1 DEF InPlace, Running, InTransaction
  <1>5. /\ result[t] # "SUCCESS" /\ t \notin doubted
        /\ \A r \in rows : r.of \in Tasks \ {t} /\ r.path = path[r.of]
    <2>1. \A r \in rows : r.of \in Tasks \ {t} /\ r.path = path[r.of]
      BY <1>1 DEF Results, Committed, Past, Ended, TypeOK
    <2>2. result[t] # "SUCCESS" /\ t \notin doubted
      BY <1>1 DEF Results, Past, Ended
    <2>3. QED
      BY <2>1, <2>2
  <1>6. \A u \in Tasks \ {t} : /\ pc'[u] = pc[u] /\ outcome'[u] = outcome[u]
                               /\ result'[u] = result[u]
    BY <1>3 DEF TypeOK
  <1>7. TypeOK'
    <2>1. Committed(t) \in [id : Nat, path : Paths, of : Tasks]
      BY <1>4 DEF Committed, TypeOK
    <2>2. outcome' \in [Tasks -> Answers \cup {"none"}] /\ result' \in [Tasks -> Answers \cup {"none"}]
      BY <1>3 DEF TypeOK, Answers
    <2>3. pc' \in [Tasks -> {"idle"} \cup Running \cup Ended]
      BY <1>3 DEF TypeOK, Running, Ended
    <2>4. rows' \subseteq [id : Nat, path : Paths, of : Tasks] /\ doubted' \subseteq Tasks
      BY <1>1, <1>2, <2>1 DEF TypeOK
    <2>5. QED
      BY <1>1, <2>2, <2>3, <2>4 DEF TypeOK, world, data, file, disk
  <1>8. InPlace'
    BY <1>1, <1>3, <1>4, <1>6 DEF InPlace, data, file, disk, Early, Running, InTransaction, Reading
  <1>9. Results'
    <2>1. \A u \in Tasks : Committed(u)' = Committed(u)
      BY <1>1 DEF Committed, file
    <2>2. \A r \in rows' : r = Committed(r.of) /\ r.id # 0 /\ pc'[r.of] \in Past
      <3>1. /\ Committed(t).of = t /\ Committed(t).id # 0
        BY <1>4 DEF Committed
      <3>2. pc'[t] \in Past
        BY <1>3 DEF Past, Ended
      <3>3. QED
        BY <1>1, <1>5, <1>6, <3>1, <3>2 DEF Results
    <2>3. \A u \in doubted' : pc'[u] \in Past
      BY <1>2, <1>3, <1>5, <1>6 DEF Results, TypeOK, Past, Ended
    <2>4. outcome'[t] = answered
      BY <1>3 DEF TypeOK
    <2>5. /\ outcome'[t] = "SUCCESS" => Committed(t) \in rows' /\ t \notin doubted'
          /\ result'[t] # "SUCCESS"
      BY <1>1, <1>2, <1>3, <1>5, <2>4
    <2>6. \A u \in Tasks \ {t} :
            /\ outcome'[u] = "SUCCESS" => Committed(u) \in rows' /\ u \notin doubted'
            /\ result'[u] = "SUCCESS" => outcome'[u] = "SUCCESS" /\ pc'[u] = "answered"
      BY <1>1, <1>2, <1>6 DEF Results
    <2>7. \A r \in rows' : r.of \in Tasks
      BY <1>7 DEF TypeOK
    <2>8. QED
      BY <2>1, <2>2, <2>3, <2>5, <2>6, <2>7 DEF Results
  <1>10. OwnFiles'
    <2>1. Holders' = Holders
      BY <1>1, <1>4 DEF Holders, file, Committed
    <2>2. QED
      BY <1>1, <2>1 DEF OwnFiles, file, disk
  <1>11. Written'
    <2>1. \A r \in rows : /\ r.of \in doubted => r.of \in doubted'
                          /\ pc'[r.of] = pc[r.of]
      BY <1>2, <1>5, <1>6
    <2>2. UNCHANGED <<head, body, bad, path, req, clashed>>
      BY <1>1 DEF data, file, disk
    <2>3. Committed(t).of = t
      BY DEF Committed
    <2>4. pc'[t] # "rest" /\ (pc'[t] = "answered" => t \in doubted' /\ req[t].kind = "period")
      BY <1>2, <1>3, <1>4
    <2>5. QED
      BY <1>1, <2>1, <2>2, <2>3, <2>4 DEF Written, Complete
  <1>12. Snapshots'
    <2>1. UNCHANGED <<booked, req, began, seen, content>>
      BY <1>1 DEF world, data
    <2>2. \A u \in Tasks : AsPrinted(u)' <=> AsPrinted(u)
      BY <2>1 DEF AsPrinted, ToIso
    <2>3. pc'[t] # "select" /\ (req[t].kind = "period" => AsPrinted(t))
      BY <1>1, <1>3 DEF Snapshots
    <2>4. QED
      BY <1>6, <2>1, <2>2, <2>3 DEF Snapshots
  <1>13. QED
    BY <1>7, <1>8, <1>9, <1>10, <1>11, <1>12

\* The tasks whose stream is on t's path share it with t only in a clash.
LEMMA Private ==
  ASSUME IInv, NEW t \in Tasks, stream[t] # NoPath, NEW r \in rows, r.path = stream[t],
         r.path \notin clashed
  PROVE  r.of = t
  <1>1. t \in Holders /\ r.of \in Holders /\ r.path = path[r.of] /\ stream[t] = path[t]
    BY DEF IInv, Holders, Results, Committed, InPlace
  <1>2. QED
    BY <1>1 DEF IInv, OwnFiles

LEMMA WriteIInv == ASSUME IInv, NEW t \in Tasks, Write(t) PROVE IInv'
  <1> USE DEF IInv
  <1>1. /\ pc[t] = "write"
        /\ UNCHANGED <<world, data, attempt, path, id, files, body, foundFree, clashed, table, outcome>>
    BY DEF Write
  <1>2. \/ /\ id[t] # 0 /\ pc' = [pc EXCEPT ![t] = "rest"] /\ UNCHANGED <<stream, result>>
        \/ /\ id[t] = 0 /\ pc' = [pc EXCEPT ![t] = "answered"]
           /\ result' = [result EXCEPT ![t] = "ERROR"] /\ stream' = [stream EXCEPT ![t] = NoPath]
    BY DEF Write, Go
  <1>3. /\ stream[t] \in Paths \cup {NoPath} /\ stream[t] \in {NoPath, path[t]}
        /\ id[t] # 0 => stream[t] # NoPath
        /\ result[t] # "SUCCESS" /\ req[t] \in Requests
    BY <1>1 DEF InPlace, TypeOK, Results, Running
  <1>a. /\ head' \in {head, [head EXCEPT ![stream[t]] = t]} /\ bad' \in {bad, bad \cup {t}}
        /\ stream[t] = NoPath => head' = head
        /\ stream[t] # NoPath => head' = [head EXCEPT ![stream[t]] = t] \/ t \in bad'
    BY DEF Write, Prologue
  <1>4. TypeOK'
    <2>1. head' \in [Paths -> Tasks \cup {NoTask}] /\ bad' \subseteq Tasks
      BY <1>3, <1>a DEF TypeOK
    <2>2. QED
      BY <1>1, <1>2, <1>3, <2>1 DEF TypeOK, world, data, table, Running, Ended, Answers
  <1>5. \A u \in Tasks \ {t} : /\ pc'[u] = pc[u] /\ result'[u] = result[u]
                               /\ stream'[u] = stream[u]
    BY <1>2 DEF TypeOK
  <1>6. /\ pc'[t] = "rest" => id[t] # 0 /\ stream'[t] = stream[t]
        /\ pc'[t] \in {"rest", "answered"} /\ stream'[t] \in {NoPath, stream[t]}
        /\ result'[t] # "SUCCESS"
        /\ pc'[t] = "answered" => id[t] = 0
    BY <1>2, <1>3 DEF TypeOK
  <1>7. InPlace'
    BY <1>1, <1>3, <1>5, <1>6 DEF InPlace, data, Early, Running, InTransaction, Reading
  <1>8. \A r \in rows : r = Committed(r.of) /\ r.id # 0 /\ r.path = path[r.of] /\ r.id = id[r.of]
                        /\ r.of \in Tasks
    BY DEF Results, Committed, TypeOK
  <1>9. Results'
    <2>1. UNCHANGED <<rows, doubted, id, path, outcome>> /\ doubted \subseteq Tasks
      BY <1>1 DEF table, TypeOK
    <2>2. \A u \in Tasks : pc[u] \in Past => pc'[u] \in Past
      BY <1>5, <1>6 DEF Past, Ended
    <2>3. \A u \in Tasks : Committed(u)' = Committed(u)
      BY <2>1 DEF Committed
    <2>4. \A r \in rows' : r = Committed(r.of)' /\ r.id # 0 /\ pc'[r.of] \in Past
      BY <1>8, <2>1, <2>2, <2>3 DEF Results
    <2>5. \A u \in doubted' : pc'[u] \in Past
      BY <2>1, <2>2 DEF Results
    <2>6. \A u \in Tasks :
            /\ outcome'[u] = "SUCCESS" => Committed(u)' \in rows' /\ u \notin doubted'
            /\ result'[u] = "SUCCESS" => outcome'[u] = "SUCCESS" /\ pc'[u] = "answered"
      BY <1>5, <1>6, <2>1, <2>3 DEF Results
    <2>7. QED
      BY <2>4, <2>5, <2>6 DEF Results
  <1>10. OwnFiles'
    <2>1. Holders' \subseteq Holders
      BY <1>1, <1>5, <1>6 DEF Holders, table
    <2>2. QED
      BY <1>1, <2>1 DEF OwnFiles
  <1>11. Written'
    <2>1. UNCHANGED <<rows, body, path, req, clashed, doubted>>
      BY <1>1 DEF data, table
    <2>2. \A r \in rows : r.path \notin clashed /\ r.of # t => head'[r.path] = head[r.path]
      BY <1>3, <1>a, Private DEF TypeOK
    <2>3. ASSUME NEW r \in rows, r.path \notin clashed, r.of \notin bad', r.of # t
          PROVE  /\ pc'[r.of] = "rest" => head'[r.path] = r.of
                 /\ pc'[r.of] = "answered" =>
                      Complete(r.of)' \/ (r.of \in doubted /\ req[r.of].kind = "period")
      BY <1>5, <1>8, <1>a, <2>1, <2>2, <2>3 DEF Written, Complete
    <2>4. ASSUME NEW r \in rows, r.of \notin bad', r.of = t
          PROVE  /\ pc'[r.of] = "rest" => head'[r.path] = r.of
                 /\ pc'[r.of] # "answered"
      <3>1. id[t] # 0 /\ r.path = path[t]
        BY <1>8, <2>4
      <3>2. stream[t] = r.path /\ stream[t] \in Paths
        BY <1>3, <3>1
      <3>3. head'[r.path] = t
        BY <1>a, <2>4, <3>2 DEF TypeOK
      <3>4. QED
        BY <1>6, <2>4, <3>1, <3>3
    <2>5. QED
      BY <2>1, <2>3, <2>4 DEF Written
  <1>12. Snapshots'
    BY <1>1, <1>5, <1>6 DEF Snapshots, AsPrinted, ToIso, world, data
  <1>13. QED
    BY <1>4, <1>7, <1>9, <1>10, <1>11, <1>12

LEMMA RestIInv == ASSUME IInv, NEW t \in Tasks, Rest(t) PROVE IInv'
  <1> USE DEF IInv
  <1>1. /\ pc[t] = "rest"
        /\ pc' = [pc EXCEPT ![t] = "answered"] /\ result' = [result EXCEPT ![t] = outcome[t]]
        /\ stream' = [stream EXCEPT ![t] = NoPath]
        /\ UNCHANGED <<world, data, attempt, path, id, files, foundFree, clashed, table, outcome>>
    BY DEF Rest, AnswerFor, Go
  <1>2. /\ id[t] # 0 /\ stream[t] = path[t] /\ stream[t] # NoPath /\ stream[t] \in Paths
        /\ req[t] \in Requests
    BY <1>1 DEF InPlace, TypeOK, Running
  <1>3. \A u \in Tasks \ {t} : /\ pc'[u] = pc[u] /\ result'[u] = result[u]
                               /\ stream'[u] = stream[u]
    BY <1>1 DEF TypeOK
  <1>4. pc'[t] = "answered" /\ stream'[t] = NoPath /\ result'[t] = outcome[t]
    BY <1>1 DEF TypeOK
  <1>a. /\ bad' \in {bad, bad \cup {t}}
        /\ head' \in [Paths -> Tasks \cup {NoTask}] /\ body' \in [Paths -> Tasks \cup {NoTask}]
        /\ \A p \in Paths \ {stream[t]} : head'[p] = head[p] /\ body'[p] = body[p]
        /\ t \in bad' \/ (head' = head /\ body'[stream[t]] = t)
    <2>1. CASE t \notin bad /\ body' = [body EXCEPT ![stream[t]] = t] /\ UNCHANGED <<head, bad>>
      BY <1>2, <2>1 DEF TypeOK
    <2>2. CASE /\ bad' = bad \cup {t} /\ UNCHANGED body
               /\ head' \in {head, [head EXCEPT ![stream[t]] = IF @ = t THEN NoTask ELSE @]}
      BY <1>2, <2>2 DEF TypeOK
    <2>3. QED
      BY <2>1, <2>2 DEF Rest, Tables
  <1>5. TypeOK'
    BY <1>1, <1>2, <1>a DEF TypeOK, world, data, table, Ended
  <1>6. InPlace'
    BY <1>1, <1>2, <1>3, <1>4 DEF InPlace, data, Early, Running, InTransaction, Reading
  <1>7. \A r \in rows : r = Committed(r.of) /\ r.id # 0 /\ r.path = path[r.of] /\ r.of \in Tasks
    BY DEF Results, Committed, TypeOK
  <1>8. Results'
    <2>1. UNCHANGED <<rows, doubted, id, path, outcome>> /\ doubted \subseteq Tasks
      BY <1>1 DEF table, TypeOK
    <2>2. \A u \in Tasks : pc[u] \in Past => pc'[u] \in Past
      BY <1>3, <1>4 DEF Past, Ended
    <2>3. \A u \in Tasks : Committed(u)' = Committed(u)
      BY <2>1 DEF Committed
    <2>4. \A r \in rows' : r = Committed(r.of)' /\ r.id # 0 /\ pc'[r.of] \in Past
      BY <1>7, <2>1, <2>2, <2>3 DEF Results
    <2>5. \A u \in doubted' : pc'[u] \in Past
      BY <2>1, <2>2 DEF Results
    <2>6. \A u \in Tasks :
            /\ outcome'[u] = "SUCCESS" => Committed(u)' \in rows' /\ u \notin doubted'
            /\ result'[u] = "SUCCESS" => outcome'[u] = "SUCCESS" /\ pc'[u] = "answered"
      BY <1>3, <1>4, <2>1, <2>3 DEF Results
    <2>7. QED
      BY <2>4, <2>5, <2>6 DEF Results
  <1>9. OwnFiles'
    <2>1. Holders' \subseteq Holders
      BY <1>1, <1>3, <1>4 DEF Holders, table
    <2>2. QED
      BY <1>1, <2>1 DEF OwnFiles
  <1>10. Written'
    <2>1. UNCHANGED <<rows, path, req, clashed, doubted>> /\ bad \subseteq bad'
      BY <1>1, <1>a DEF data, table
    <2>2. \A r \in rows : r.path \notin clashed /\ r.of # t =>
             head'[r.path] = head[r.path] /\ body'[r.path] = body[r.path]
      BY <1>2, <1>a, Private DEF TypeOK
    <2>3. ASSUME NEW r \in rows, r.path \notin clashed, r.of \notin bad', r.of # t
          PROVE  /\ pc'[r.of] = "rest" => head'[r.path] = r.of
                 /\ pc'[r.of] = "answered" =>
                      Complete(r.of)' \/ (r.of \in doubted /\ req[r.of].kind = "period")
      BY <1>3, <1>7, <2>1, <2>2, <2>3 DEF Written, Complete
    <2>4. ASSUME NEW r \in rows, r.path \notin clashed, r.of \notin bad', r.of = t
          PROVE  Complete(t)'
      <3>1. r.path = path[t] /\ head[path[t]] = t
        BY <1>1, <1>7, <2>1, <2>4 DEF Written
      <3>2. head' = head /\ body'[path[t]] = t
        BY <1>2, <1>a, <2>4
      <3>3. QED
        BY <2>1, <3>1, <3>2 DEF Complete
    <2>5. QED
      BY <1>4, <2>1, <2>3, <2>4 DEF Written
  <1>11. Snapshots'
    BY <1>1, <1>3, <1>4 DEF Snapshots, AsPrinted, ToIso, world, data
  <1>12. QED
    BY <1>5, <1>6, <1>8, <1>9, <1>10, <1>11

LEMMA CrashIInv == ASSUME IInv, Crash PROVE IInv'
  <1> USE DEF IInv
  <1>1. /\ pc' = [t \in Tasks |-> IF pc[t] \in Running THEN "dead" ELSE pc[t]]
        /\ stream' = [t \in Tasks |-> NoPath] /\ fraction' \in 0 .. Unit - 1
        /\ UNCHANGED <<booked, data, attempt, path, id, files, body, bad, foundFree, clashed,
                       table, answer>>
        /\ head' \in [Paths -> Tasks \cup {NoTask}]
        /\ \A p \in Paths, t \in Tasks : head[p] = t /\ pc[t] # "rest" => head'[p] = t
    BY DEF Crash, TypeOK
  <1>2. \A t \in Tasks : /\ pc'[t] = pc[t] \/ pc'[t] = "dead"
                         /\ pc'[t] \in {"idle"} \cup Ended /\ stream'[t] = NoPath
                         /\ pc[t] \in Past => pc'[t] \in Past
                         /\ pc[t] = "answered" => pc'[t] = "answered"
                         /\ pc'[t] # "idle" => pc[t] # "idle"
    BY <1>1 DEF TypeOK, Running, InTransaction, Reading, Past, Ended
  <1>3. TypeOK'
    BY <1>1, <1>2 DEF TypeOK, data, table, answer, Ended
  <1>4. InPlace'
    BY <1>1, <1>2 DEF InPlace, data, Early, Reading, Running, InTransaction, Ended
  <1>5. Results'
    <2>1. UNCHANGED <<rows, doubted, id, path, outcome, result>>
      BY <1>1 DEF table, answer
    <2>2. \A t \in Tasks : Committed(t)' = Committed(t)
      BY <2>1 DEF Committed
    <2>3. /\ \A r \in rows : r.of \in Tasks
          /\ doubted \subseteq Tasks
      BY DEF TypeOK
    <2>4. QED
      BY <1>2, <2>1, <2>2, <2>3 DEF Results
  <1>6. OwnFiles'
    <2>1. Holders' \subseteq Holders
      BY <1>1, <1>2 DEF Holders, table
    <2>2. QED
      BY <1>1, <2>1 DEF OwnFiles
  <1>7. Written'
    <2>1. UNCHANGED <<rows, body, bad, path, req, clashed, doubted>>
      BY <1>1 DEF data, table
    <2>2. \A r \in rows : /\ r.of \in Tasks /\ pc'[r.of] # "rest"
                          /\ pc'[r.of] = "answered" => pc[r.of] = "answered"
      BY <1>2 DEF TypeOK, Ended
    <2>3. \A r \in rows : pc[r.of] = "answered" /\ Complete(r.of) => Complete(r.of)'
      <3>1. \A r \in rows : r.of \in Tasks /\ path[r.of] \in Paths
        BY DEF Results, Committed, TypeOK
      <3>2. QED
        BY <1>1, <2>1, <3>1 DEF Complete
    <2>4. QED
      BY <2>1, <2>2, <2>3 DEF Written
  <1>8. Snapshots'
    <2>1. UNCHANGED <<booked, req, began, seen, content, outcome>>
      BY <1>1 DEF data, answer
    <2>2. \A t \in Tasks : pc'[t] \notin {"select", "products", "check", "open", "insert", "commit"}
      BY <1>2 DEF Ended
    <2>3. QED
      BY <2>1, <2>2 DEF Snapshots, AsPrinted, ToIso
  <1>9. QED
    BY <1>3, <1>4, <1>5, <1>6, <1>7, <1>8

\* Every step keeps the invariant.
LEMMA NextIInv == IInv /\ [Next]_vars => IInv'
  <1> SUFFICES ASSUME IInv, [Next]_vars PROVE IInv'
    OBVIOUS
  <1>1. ASSUME NEW t \in Tasks,
               \/ ReadWarehouse(t) \/ Select(t) \/ ReadProducts(t) \/ Check(t) \/ Open(t)
               \/ Insert(t) \/ Commit(t) \/ Write(t) \/ Rest(t) \/ Fail(t)
        PROVE  IInv'
    BY <1>1, ReadWarehouseIInv, SelectIInv, ReadProductsIInv, CheckIInv, OpenIInv, InsertIInv,
       CommitIInv, WriteIInv, RestIInv, FailIInv
  <1>2. CASE UNCHANGED vars
    <2>1. UNCHANGED <<booked, fraction, pc, req, began, seen, content, attempt, path, stream, id,
                      files, head, body, bad, foundFree, clashed, rows, lastId, doubted, outcome, result>>
      BY <1>2 DEF vars, world, data, file, disk, table, answer
    <2>2. TypeOK' /\ InPlace' /\ Results'
      BY <2>1 DEF IInv, TypeOK, InPlace, Results, Committed
    <2>3. OwnFiles' /\ Written' /\ Snapshots'
      BY <2>1 DEF IInv, OwnFiles, Holders, Written, Complete, Snapshots, AsPrinted, ToIso
    <2>4. QED
      BY <2>2, <2>3 DEF IInv
  <1>3. QED
    BY <1>1, <1>2, BookIInv, BeginIInv, CrashIInv DEF Next

\* The inductive invariant of the reports holds in every state.
THEOREM Invariance == Spec => []IInv
  BY InitIInv, NextIInv, PTL DEF Spec

\* Every committed report has a file, and one of its own but for clashes.
THEOREM OwnFileEach == Spec => []RowsNameOwnFiles
  <1>1. IInv => RowsNameOwnFiles
    <2> SUFFICES ASSUME IInv, NEW r \in rows
                 PROVE  /\ r.path \in files
                        /\ \A q \in rows : q.path = r.path => q = r \/ r.path \in clashed
      BY DEF RowsNameOwnFiles
    <2>1. \A q \in rows : q = Committed(q.of) /\ q.path = path[q.of] /\ q.of \in Holders
      BY DEF IInv, Results, Committed, Holders
    <2>2. QED
      BY <2>1 DEF IInv, OwnFiles
  <1>2. QED
    BY <1>1, Invariance, PTL

\* A success is answered only for a report that is committed, and written but for
\* a clash or a write that failed without notice.
THEOREM SuccessIsWritten == Spec => []AnsweredIsWritten
  <1>1. IInv => AnsweredIsWritten
    <2> SUFFICES ASSUME IInv, NEW t \in Tasks, result[t] = "SUCCESS"
                 PROVE  /\ Committed(t) \in rows
                        /\ path[t] \in clashed \/ t \in bad \/ Complete(t)
      BY DEF AnsweredIsWritten, Committed
    <2>1. Committed(t) \in rows /\ t \notin doubted /\ pc[t] = "answered"
      BY DEF IInv, Results
    <2>2. Committed(t).of = t /\ Committed(t).path = path[t]
      BY DEF Committed
    <2>3. QED
      BY <2>1, <2>2 DEF IInv, Written
  <1>2. QED
    BY <1>1, Invariance, PTL

\* A committed report without its content, whose task has answered, has one of
\* three reasons: a clash, a write that failed, a commit in doubt.
THEOREM ReasonedLack == Spec => []UnwrittenForAReason
  <1>1. IInv => UnwrittenForAReason
    BY DEF IInv, Written, UnwrittenForAReason
  <1>2. QED
    BY <1>1, Invariance, PTL

\* A report by period shows the period as it is printed, whatever the clock's
\* fraction of a second when the server started.
THEOREM PrintedPeriod == Spec => []PeriodAsPrinted
  <1>1. IInv => PeriodAsPrinted
    BY DEF IInv, Results, Snapshots, PeriodAsPrinted
  <1>2. QED
    BY <1>1, Invariance, PTL
=============================================================================
