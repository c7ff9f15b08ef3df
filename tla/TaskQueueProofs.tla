-------------------------- MODULE TaskQueueProofs --------------------------
(***************************************************************************)
(* The safety of the task queue, for any number of requests, workers and   *)
(* io threads: IInv is inductive and implies the properties that TLC       *)
(* checks on small instances.                                              *)
(***************************************************************************)
EXTENDS TaskQueue, TLAPS

USE TaskQueueAssumption

\* What push and pop do to the queue, element by element.
LEMMA AppendElements ==
  ASSUME NEW S, NEW q \in Seq(S), NEW e \in S
  PROVE  /\ Append(q, e) \in Seq(S)
         /\ DOMAIN Append(q, e) = DOMAIN q \cup {Len(q) + 1}
         /\ Len(q) + 1 \notin DOMAIN q
         /\ \A i \in DOMAIN q : Append(q, e)[i] = q[i]
         /\ Append(q, e)[Len(q) + 1] = e
  OBVIOUS

LEMMA TailElements ==
  ASSUME NEW S, NEW q \in Seq(S), q # <<>>
  PROVE  /\ Tail(q) \in Seq(S)
         /\ 1 \in DOMAIN q /\ Head(q) = q[1] /\ Head(q) \in S
         /\ \A i \in DOMAIN Tail(q) : i + 1 \in DOMAIN q /\ Tail(q)[i] = q[i + 1]
         /\ \A i \in DOMAIN q \ {1} : i - 1 \in DOMAIN Tail(q) /\ i = (i - 1) + 1
         /\ \A i \in DOMAIN Tail(q) : i \in Nat /\ i + 1 # 1
  OBVIOUS

LEMMA NoneQueued ==
  ASSUME queue \in Seq(Requests)
  PROVE  /\ queue = <<>> => DOMAIN queue = {}
         /\ queue # <<>> => 1 \in DOMAIN queue
  OBVIOUS

\* The threads of the program are its workers and main, which is none of them.
LEMMA MainApart == Main \notin Workers /\ Main \in Threads /\ Workers \subseteq Threads
  BY DEF Main, Workers, Threads

\* The invariant holds initially.
LEMMA InitIInv == Init => IInv
  <1> SUFFICES ASSUME Init PROVE IInv
    OBVIOUS
  <1>1. TypeOK
    <2>1. queue \in Seq(Requests)
      BY DEF Init
    <2>2. pc \in [Threads -> Loop \cup {"serving"}]
      BY DEF Init, Loop
    <2>3. QED
      BY <2>1, <2>2 DEF Init, TypeOK
  <1>2. Places /\ Holding /\ BlockedOnEmpty
    BY MainApart DEF Init, Places, Holding, BlockedOnEmpty, Locked, Loop, Destroying, Over
  <1>3. InOrder /\ IdleMeansNothingToDo
    BY MainApart DEF Init, InOrder, IdleMeansNothingToDo, Arriving, Destroying
  <1>4. ExactlyOnce
    <2>1. \A r \in Requests : ~Queued(r) /\ ~Handled(r) /\ req[r] = "new" /\ answers[r] = 0
      BY NoneQueued, <1>1 DEF Init, Queued, Handled, TypeOK
    <2>2. DOMAIN queue = {} /\ \A w \in Workers : task[w] \notin Requests
      BY NoneQueued, <1>1 DEF Init, TypeOK
    <2>3. QED
      BY <2>1, <2>2 DEF ExactlyOnce
  <1>5. QED
    BY <1>1, <1>2, <1>3, <1>4 DEF IInv

\* A step that leaves requests, queue, tasks and answers alone, and neither
\* puts a worker to sleep nor to work, keeps what is said of them.
LEMMA PcStep ==
  ASSUME IInv, UNCHANGED queueVars, TypeOK', Places',
         \A w \in Workers : pc'[w] \notin Over =>
            /\ pc[w] \notin Over
            /\ pc'[w] = "handle" <=> pc[w] = "handle"
            /\ pc'[w] = "release" <=> pc[w] = "release",
         pc[Main] \in Over => pc'[Main] \in Over,
         Locked' => queue = <<>>,
         (\E w \in Workers : pc'[w] = "asleep") =>
            (\E w \in Workers : pc[w] = "asleep") \/ queue = <<>>,
         InOrder'
  PROVE  IInv'
  <1>1. Holding'
    BY DEF IInv, Holding, queueVars, Over
  <1>2. BlockedOnEmpty'
    BY DEF BlockedOnEmpty, queueVars
  <1>3. IdleMeansNothingToDo'
    BY NoneQueued DEF IInv, TypeOK, IdleMeansNothingToDo, queueVars
  <1>4. ExactlyOnce'
    <2>1. \A r \in Requests : (Queued(r)' <=> Queued(r)) /\ (Handled(r)' => Handled(r))
      BY DEF Queued, Handled, queueVars, Over
    <2>2. pc'[Main] \notin Over => \A r \in Requests : Handled(r) => Handled(r)'
      BY DEF Queued, Handled, queueVars, Over, Places
    <2>3. QED
      BY <2>1, <2>2 DEF IInv, ExactlyOnce, queueVars
  <1>5. QED
    BY <1>1, <1>2, <1>3, <1>4 DEF IInv

LEMMA LoopSteps ==
  ASSUME IInv, NEW w \in Workers, CheckStop(w) \/ FindNothing(w) \/ Block(w) \/ WakeSpuriously(w)
  PROVE  IInv'
  <1>1. PICK l \in {"done", "test", "loop", "block", "asleep"} : pc' = [pc EXCEPT ![w] = l]
    BY DEF CheckStop, FindNothing, Block, WakeSpuriously, Goto
  <1>2. /\ UNCHANGED <<queueVars, stop>>
        /\ pc[w] \in {"loop", "test", "block", "asleep"}
    BY DEF CheckStop, FindNothing, Block, WakeSpuriously
  <1>3. pc \in [Threads -> Loop \cup Destroying \cup {"serving", "stopped", "leaving"} \cup Over]
    BY DEF IInv, TypeOK
  <1>4. /\ pc'[w] = l
        /\ \A x \in Threads \ {w} : pc'[x] = pc[x]
        /\ pc'[Main] = pc[Main]
    BY <1>1, <1>3, MainApart
  <1>5. TypeOK'
    BY <1>1, <1>2 DEF IInv, TypeOK, Loop, queueVars
  <1>6. Places'
    BY <1>2, <1>4, MainApart DEF IInv, Places, Loop, Over
  <1>7. Locked' => queue = <<>>
    <2>1. pc'[w] = "block" => queue = <<>>
      BY <1>3, MainApart DEF IInv, BlockedOnEmpty, Locked, CheckStop, FindNothing, Block, WakeSpuriously, Goto
    <2>2. QED
      BY <2>1, <1>4, MainApart DEF IInv, BlockedOnEmpty, Locked
  <1>8. (\E u \in Workers : pc'[u] = "asleep") =>
          (\E u \in Workers : pc[u] = "asleep") \/ queue = <<>>
    <2>1. pc'[w] = "asleep" => pc[w] = "block"
      BY <1>3, MainApart DEF CheckStop, FindNothing, Block, WakeSpuriously, Goto
    <2>2. pc[w] = "block" => queue = <<>>
      BY DEF IInv, BlockedOnEmpty, Locked
    <2>3. QED
      BY <2>1, <2>2, <1>4, MainApart
  <1>9. InOrder'
    <2>1. (\E x \in Threads : pc'[x] \in Destroying) => (\E x \in Threads : pc[x] \in Destroying)
      BY <1>4, MainApart DEF Destroying
    <2>2. LiveTasks' = LiveTasks /\ \A r \in Requests : Arriving(r)' = Arriving(r)
      BY <1>2 DEF LiveTasks, Arriving, queueVars
    <2>3. QED
      BY <2>1, <2>2, <1>2, <1>4 DEF IInv, InOrder
  <1>10. QED
    <2>1. \A u \in Workers : pc'[u] \notin Over =>
            /\ pc[u] \notin Over
            /\ pc'[u] = "handle" <=> pc[u] = "handle"
            /\ pc'[u] = "release" <=> pc[u] = "release"
      BY <1>2, <1>4, MainApart DEF Over
    <2>2. QED
      BY <2>1, <1>2, <1>4, <1>5, <1>6, <1>7, <1>8, <1>9, PcStep

\* Nothing is queued or held when the manager has no task left.
LEMMA NoLiveTask ==
  ASSUME TypeOK
  PROVE  LiveTasks = {} <=> queue = <<>> /\ \A w \in Workers : task[w] = NoTask
  <1>1. queue \in Seq(Requests) /\ task \in [Workers -> Requests \cup {NoTask}]
    BY DEF TypeOK
  <1>2. queue = <<>> <=> DOMAIN queue = {}
    BY <1>1
  <1>3. ASSUME LiveTasks = {} PROVE DOMAIN queue = {}
    BY <1>3 DEF LiveTasks
  <1>4. ASSUME LiveTasks = {}, NEW w \in Workers PROVE task[w] = NoTask
    BY <1>4 DEF LiveTasks
  <1>5. ASSUME DOMAIN queue = {}, \A w \in Workers : task[w] = NoTask PROVE LiveTasks = {}
    BY <1>5 DEF LiveTasks
  <1>6. QED
    BY <1>2, <1>3, <1>4, <1>5

\* AddTask up to the mutex: the request leaves "new" and nothing else moves.
LEMMA EnterSteps ==
  ASSUME IInv, NEW r \in Requests, Refuse(r) \/ Accept(r)
  PROVE  IInv'
  <1>1. /\ req[r] = "new" /\ pc[Main] = "serving"
        /\ UNCHANGED <<queue, stop, pc, task>>
    BY DEF Refuse, Accept, Enter
  <1>2. answers[r] = 0 /\ ~Queued(r) /\ ~Handled(r)
    BY <1>1 DEF IInv, TypeOK, ExactlyOnce, Over
  <1>3. /\ \/ req'[r] = "refused" /\ answers'[r] = 1
           \/ req'[r] = "locking" /\ answers'[r] = 0
        /\ \A q \in Requests \ {r} : req'[q] = req[q] /\ answers'[q] = answers[q]
        /\ req' \in [Requests -> {"new", "refused", "locking", "notify", "handed"}]
        /\ answers' \in [Requests -> {0, 1}]
    <2>1. /\ req \in [Requests -> {"new", "refused", "locking", "notify", "handed"}]
          /\ answers \in [Requests -> {0, 1}]
      BY DEF IInv, TypeOK
    <2>2. CASE Refuse(r)
      <3>1. /\ req' = [req EXCEPT ![r] = "refused"]
            /\ answers' = [answers EXCEPT ![r] = 1]
        BY <2>2, <1>2 DEF Refuse
      <3>2. QED
        BY <2>1, <3>1
    <2>3. CASE Accept(r)
      <3>1. req' = [req EXCEPT ![r] = "locking"] /\ answers' = answers
        BY <2>3 DEF Accept
      <3>2. QED
        BY <2>1, <3>1, <1>2
    <2>4. QED
      BY <2>2, <2>3
  <1>4. \A w \in Workers : pc[w] = "release" => task[w] # r
    BY <1>2 DEF IInv, Holding
  <1>5. TypeOK' /\ Places' /\ BlockedOnEmpty'
    BY <1>1, <1>3 DEF IInv, TypeOK, Places, BlockedOnEmpty, Locked
  <1>6. Holding'
    <2>1. \A w \in Workers : pc[w] = "release" => task[w] \in Requests
      BY DEF IInv, TypeOK, Holding, Over
    <2>2. QED
      BY <1>1, <1>3, <1>4, <2>1 DEF IInv, Holding
  <1>7. InOrder'
    BY <1>1 DEF IInv, InOrder, LiveTasks, Destroying
  <1>8. ExactlyOnce'
    <2>1. \A q \in Requests : (Queued(q)' <=> Queued(q)) /\ (Handled(q)' <=> Handled(q))
      BY <1>1 DEF Queued, Handled
    <2>2. QED
      BY <1>1, <1>2, <1>3, <2>1 DEF IInv, ExactlyOnce
  <1>9. IdleMeansNothingToDo'
    BY <1>1, <1>2, <1>3 DEF IInv, IdleMeansNothingToDo, Queued, TypeOK
  <1>10. QED
    BY <1>5, <1>6, <1>7, <1>8, <1>9 DEF IInv

\* A new element is queued under the mutex; its notification is still to come.
LEMMA EmplaceStep ==
  ASSUME IInv, NEW r \in Requests, Emplace(r)
  PROVE  IInv'
  <1>1. /\ req[r] = "locking" /\ ~Locked /\ queue' = Append(queue, r)
        /\ UNCHANGED <<stop, pc, task, answers>>
    BY DEF Emplace
  <1>2. pc[Main] = "serving" /\ ~stop /\ ~\E x \in Threads : pc[x] \in Destroying
    BY <1>1 DEF IInv, InOrder, Arriving
  <1>3. answers[r] = 0 /\ ~Queued(r) /\ ~Handled(r)
    BY <1>1, <1>2 DEF IInv, TypeOK, ExactlyOnce, Over
  <1>4. /\ req'[r] = "notify"
        /\ \A q \in Requests \ {r} : req'[q] = req[q]
        /\ req' \in [Requests -> {"new", "refused", "locking", "notify", "handed"}]
    BY DEF IInv, TypeOK, Emplace
  <1>5. queue \in Seq(Requests)
    BY DEF IInv, TypeOK
  <1>6. /\ queue' \in Seq(Requests)
        /\ DOMAIN queue' = DOMAIN queue \cup {Len(queue) + 1}
        /\ Len(queue) + 1 \notin DOMAIN queue
        /\ \A i \in DOMAIN queue : queue'[i] = queue[i]
        /\ queue'[Len(queue) + 1] = r
    BY <1>1, <1>5, AppendElements
  <1>7. TypeOK' /\ Places' /\ BlockedOnEmpty'
    BY <1>1, <1>4, <1>6 DEF IInv, TypeOK, Places, BlockedOnEmpty, Locked
  <1>8. Holding' /\ InOrder'
    BY <1>1, <1>2 DEF IInv, Holding, InOrder
  <1>9. IdleMeansNothingToDo'
    BY <1>1, <1>4, <1>5, <1>6 DEF IInv, IdleMeansNothingToDo, TypeOK
  <1>10. ExactlyOnce'
    <2>1. \A q \in Requests \ {r} : Queued(q)' <=> Queued(q)
      BY <1>6 DEF Queued
    <2>2. Queued(r)'
      BY <1>6 DEF Queued
    <2>3. \A q \in Requests : Handled(q)' <=> Handled(q)
      BY <1>1 DEF Handled
    <2>4. \A q \in Requests : \A i, j \in DOMAIN queue' : queue'[i] = q /\ queue'[j] = q => i = j
      BY <1>3, <1>6 DEF IInv, ExactlyOnce, Queued
    <2>5. QED
      BY <1>1, <1>3, <1>4, <2>1, <2>2, <2>3, <2>4 DEF IInv, ExactlyOnce
  <1>11. QED
    BY <1>7, <1>8, <1>9, <1>10 DEF IInv

\* What notify_all does: sleepers test again, every other thread stays.
LEMMA WokenThreads ==
  ASSUME IInv
  PROVE  /\ Woken \in [Threads -> Loop \cup Destroying \cup {"serving", "stopped", "leaving"} \cup Over]
         /\ \A x \in Threads : /\ Woken[x] # "asleep"
                               /\ pc[x] = "asleep" => Woken[x] = "test"
                               /\ pc[x] # "asleep" => Woken[x] = pc[x]
         /\ pc[Main] # "asleep"
  <1>1. pc \in [Threads -> Loop \cup Destroying \cup {"serving", "stopped", "leaving"} \cup Over]
    BY DEF IInv, TypeOK
  <1>2. pc[Main] # "asleep"
    BY DEF IInv, Places, Destroying, Over
  <1>3. QED
    BY <1>1, <1>2 DEF Woken, Loop

\* Once all have been notified nobody sleeps.
LEMMA NotifyStep ==
  ASSUME IInv, NEW r \in Requests, Notify(r)
  PROVE  IInv'
  <1>1. /\ req[r] = "notify" /\ pc' = Woken
        /\ UNCHANGED <<queue, stop, task, answers>>
    BY DEF Notify
  <1>2. /\ req'[r] = "handed"
        /\ \A q \in Requests \ {r} : req'[q] = req[q]
        /\ req' \in [Requests -> {"new", "refused", "locking", "notify", "handed"}]
    BY DEF IInv, TypeOK, Notify
  <1>3. \A x \in Threads : /\ pc'[x] # "asleep"
                           /\ pc[x] = "asleep" => pc'[x] = "test"
                           /\ pc[x] # "asleep" => pc'[x] = pc[x]
    BY <1>1, WokenThreads
  <1>4. pc'[Main] = pc[Main]
    BY <1>3, WokenThreads, MainApart
  <1>5. TypeOK'
    BY <1>1, <1>2, WokenThreads DEF IInv, TypeOK
  <1>6. Places' /\ BlockedOnEmpty'
    BY <1>1, <1>3, <1>4, MainApart DEF IInv, Places, BlockedOnEmpty, Locked, Loop, Over
  <1>7. Holding' /\ InOrder'
    <2>1. Holding'
      BY <1>1, <1>3, MainApart DEF IInv, Holding, Over
    <2>2. (\E x \in Threads : pc'[x] \in Destroying) => (\E x \in Threads : pc[x] \in Destroying)
      BY <1>3 DEF Destroying
    <2>3. \A q \in Requests : Arriving(q)' => Arriving(q)
      BY <1>2 DEF Arriving
    <2>4. LiveTasks' = LiveTasks
      BY <1>1 DEF LiveTasks
    <2>5. QED
      BY <1>1, <1>4, <2>1, <2>2, <2>3, <2>4 DEF IInv, InOrder
  <1>8. IdleMeansNothingToDo'
    BY <1>3, MainApart DEF IdleMeansNothingToDo
  <1>9. ExactlyOnce'
    <2>1. \A q \in Requests : (Queued(q)' <=> Queued(q)) /\ (Handled(q)' <=> Handled(q))
      BY <1>1, <1>3, MainApart DEF Queued, Handled
    <2>2. QED
      BY <1>1, <1>2, <1>4, <2>1 DEF IInv, ExactlyOnce
  <1>10. QED
    BY <1>5, <1>6, <1>7, <1>8, <1>9 DEF IInv

\* The head of the queue moves to the worker that takes it.
LEMMA TakeStep ==
  ASSUME IInv, NEW w \in Workers, Take(w)
  PROVE  IInv'
  <1>1. /\ pc[w] = "test" /\ ~Locked /\ queue # <<>> /\ queue' = Tail(queue)
        /\ UNCHANGED <<req, stop, answers>>
    BY DEF Take
  <1>2. /\ queue \in Seq(Requests)
        /\ pc \in [Threads -> Loop \cup Destroying \cup {"serving", "stopped", "leaving"} \cup Over]
        /\ task \in [Workers -> Requests \cup {NoTask}]
    BY DEF IInv, TypeOK
  <1>0. PICK r \in Requests : r = Head(queue)
    BY <1>1, <1>2, TailElements
  <1>3. /\ queue' \in Seq(Requests)
        /\ 1 \in DOMAIN queue /\ r = queue[1] /\ r \in Requests
        /\ \A i \in DOMAIN queue' : i + 1 \in DOMAIN queue /\ queue'[i] = queue[i + 1]
        /\ \A i \in DOMAIN queue \ {1} : i - 1 \in DOMAIN queue' /\ i = (i - 1) + 1
        /\ \A i \in DOMAIN queue' : i \in Nat /\ i + 1 # 1
    BY <1>0, <1>1, <1>2, TailElements
  <1>4. /\ pc'[w] = "handle" /\ task'[w] = r
        /\ \A x \in Threads \ {w} : pc'[x] = pc[x]
        /\ \A u \in Workers \ {w} : task'[u] = task[u]
        /\ pc'[Main] = pc[Main]
        /\ task' \in [Workers -> Requests \cup {NoTask}]
        /\ pc' \in [Threads -> Loop \cup Destroying \cup {"serving", "stopped", "leaving"} \cup Over]
    BY <1>0, <1>2, <1>3, MainApart DEF Take, Goto, Loop
  <1>5. Queued(r) /\ answers[r] = 0 /\ ~Handled(r)
    BY <1>3 DEF IInv, ExactlyOnce, Queued
  <1>6. \A u \in Workers : task[u] # r
    <2>1. SUFFICES ASSUME NEW u \in Workers, task[u] = r PROVE FALSE
      OBVIOUS
    <2>2. task[u] # NoTask
      BY <1>3, <2>1
    <2>3. pc[u] \in Over
      BY <2>1, <2>2, <1>5 DEF IInv, Holding, Handled
    <2>4. QED
      BY <2>3, <1>1, MainApart DEF IInv, Places, Over, Destroying, Loop
  <1>7. TypeOK' /\ Places' /\ BlockedOnEmpty'
    BY <1>1, <1>3, <1>4, MainApart DEF IInv, TypeOK, Places, BlockedOnEmpty, Locked, Loop, Over
  <1>8. Holding'
    BY <1>1, <1>3, <1>4, MainApart DEF IInv, Holding, Over
  <1>9. InOrder'
    <2>0. 1 \in DOMAIN queue /\ r = queue[1]
      BY <1>3
    <2>1. r \in LiveTasks
      BY <2>0, Zenon DEF LiveTasks
    <2>2. ~stop /\ ~\E x \in Threads : pc[x] \in Destroying
      BY <2>1 DEF IInv, InOrder
    <2>3. ~stop' /\ ~\E x \in Threads : pc'[x] \in Destroying
      BY <2>2, <1>1, <1>4 DEF Destroying
    <2>4. QED
      BY <1>1, <1>4, <2>3 DEF IInv, InOrder, Arriving
  <1>10. IdleMeansNothingToDo'
    <2>1. (\E u \in Workers : pc'[u] = "asleep") => \E u \in Workers : pc[u] = "asleep"
      BY <1>4, MainApart
    <2>2. QED
      BY <1>1, <1>3, <2>1 DEF IInv, IdleMeansNothingToDo
  <1>11. ExactlyOnce'
    <2>1. Handled(r)'
      BY <1>4 DEF Handled
    <2>2. ~Queued(r)'
      BY <1>3 DEF Queued, IInv, ExactlyOnce
    <2>3. \A q \in Requests \ {r} : Queued(q)' <=> Queued(q)
      BY <1>3 DEF Queued
    <2>4. \A q \in Requests \ {r} : Handled(q)' <=> Handled(q)
      <3>1. task[w] = NoTask
        BY <1>1 DEF IInv, Holding, Over
      <3>2. QED
        BY <1>1, <1>4, MainApart DEF Handled
    <2>5. \A q \in Requests : \A i, j \in DOMAIN queue' : queue'[i] = q /\ queue'[j] = q => i = j
      <3>1. \A q \in Requests : \A i, j \in DOMAIN queue' :
               queue'[i] = q /\ queue'[j] = q => i + 1 = j + 1
        BY <1>3 DEF IInv, ExactlyOnce
      <3>2. QED
        BY <1>3, <3>1
    <2>6. \A q \in Requests : \A u, v \in Workers : task'[u] = q /\ task'[v] = q => u = v
      BY <1>4, <1>6 DEF IInv, ExactlyOnce
    <2>7. QED
      BY <1>1, <1>3, <1>4, <1>5, <2>1, <2>2, <2>3, <2>4, <2>5, <2>6 DEF IInv, ExactlyOnce
  <1>12. QED
    BY <1>7, <1>8, <1>9, <1>10, <1>11 DEF IInv

\* A worker answers the request of its task.
LEMMA HandleStep ==
  ASSUME IInv, NEW w \in Workers, Handle(w)
  PROVE  IInv'
  <1>1. /\ pc[w] = "handle"
        /\ UNCHANGED <<req, queue, stop, task>>
    BY DEF Handle
  <1>2. /\ pc \in [Threads -> Loop \cup Destroying \cup {"serving", "stopped", "leaving"} \cup Over]
        /\ task \in [Workers -> Requests \cup {NoTask}]
        /\ answers \in [Requests -> {0, 1}]
    BY DEF IInv, TypeOK
  <1>3. task[w] # NoTask
    BY <1>1 DEF IInv, Holding, Over
  <1>4. PICK r \in Requests : r = task[w]
    BY <1>2, <1>3
  <1>5. Handled(r) /\ answers[r] = 0 /\ ~Queued(r)
    BY <1>1, <1>4 DEF IInv, ExactlyOnce, Handled
  <1>6. answers' = [answers EXCEPT ![r] = 1]
    BY <1>4, <1>5 DEF Handle
  <1>7. /\ answers'[r] = 1 /\ answers' \in [Requests -> {0, 1}]
        /\ \A q \in Requests \ {r} : answers'[q] = answers[q]
    BY <1>2, <1>6
  <1>8. /\ pc'[w] = "release"
        /\ \A x \in Threads \ {w} : pc'[x] = pc[x]
        /\ pc'[Main] = pc[Main]
        /\ pc' \in [Threads -> Loop \cup Destroying \cup {"serving", "stopped", "leaving"} \cup Over]
    BY <1>2, MainApart DEF Handle, Goto, Loop
  <1>9. TypeOK' /\ Places' /\ BlockedOnEmpty'
    BY <1>1, <1>7, <1>8, MainApart DEF IInv, TypeOK, Places, BlockedOnEmpty, Locked, Loop, Over
  <1>10. Holding'
    <2>1. \A u \in Workers \ {w} : pc[u] = "release" => task[u] # r /\ task[u] \in Requests
      BY <1>2, <1>5 DEF IInv, Holding, Over
    <2>2. QED
      BY <1>1, <1>3, <1>4, <1>7, <1>8, <2>1, MainApart DEF IInv, Holding, Over
  <1>11. InOrder'
    <2>1. LiveTasks' = LiveTasks /\ \A q \in Requests : Arriving(q)' = Arriving(q)
      BY <1>1 DEF LiveTasks, Arriving
    <2>2. (\E x \in Threads : pc'[x] \in Destroying) => (\E x \in Threads : pc[x] \in Destroying)
      BY <1>8 DEF Destroying
    <2>3. QED
      BY <1>1, <1>8, <2>1, <2>2 DEF IInv, InOrder
  <1>12. IdleMeansNothingToDo'
    <2>1. (\E u \in Workers : pc'[u] = "asleep") => \E u \in Workers : pc[u] = "asleep"
      BY <1>8, MainApart
    <2>2. QED
      BY <1>1, <2>1 DEF IInv, IdleMeansNothingToDo
  <1>13. ExactlyOnce'
    <2>1. \A q \in Requests : Queued(q)' <=> Queued(q)
      BY <1>1 DEF Queued
    <2>2. \A q \in Requests \ {r} : Handled(q)' <=> Handled(q)
      BY <1>1, <1>4, <1>8, MainApart DEF Handled
    <2>3. ~Handled(r)'
      BY <1>1, <1>4, <1>8, MainApart DEF Handled, IInv, ExactlyOnce
    <2>4. QED
      BY <1>1, <1>5, <1>7, <1>8, <2>1, <2>2, <2>3 DEF IInv, ExactlyOnce
  <1>14. QED
    BY <1>9, <1>10, <1>11, <1>12, <1>13 DEF IInv

\* A worker lets go of an answered task, perhaps the manager's last owner.
LEMMA ReleaseStep ==
  ASSUME IInv, NEW w \in Workers, Release(w)
  PROVE  IInv'
  <1>1. /\ pc[w] = "release"
        /\ UNCHANGED <<req, queue, stop, answers>>
    BY DEF Release
  <1>2. /\ pc \in [Threads -> Loop \cup Destroying \cup {"serving", "stopped", "leaving"} \cup Over]
        /\ task \in [Workers -> Requests \cup {NoTask}]
    BY DEF IInv, TypeOK
  <1>3. /\ task'[w] = NoTask
        /\ \A u \in Workers \ {w} : task'[u] = task[u]
        /\ task' \in [Workers -> Requests \cup {NoTask}]
    BY <1>2 DEF Release
  <1>4. PICK l \in {"stopping", "loop"} :
           /\ pc' = [pc EXCEPT ![w] = l]
           /\ l = "stopping" => pc[Main] = "leaving" /\ LiveTasks' = {}
    BY DEF Release, Goto
  <1>5. /\ pc'[w] = l
        /\ \A x \in Threads \ {w} : pc'[x] = pc[x]
        /\ pc'[Main] = pc[Main]
        /\ pc' \in [Threads -> Loop \cup Destroying \cup {"serving", "stopped", "leaving"} \cup Over]
    BY <1>2, <1>4, MainApart DEF Loop, Destroying
  <1>6. task[w] # NoTask
    BY <1>1 DEF IInv, Holding, Over
  <1>7. TypeOK' /\ Places' /\ BlockedOnEmpty'
    BY <1>1, <1>3, <1>5, MainApart
       DEF IInv, TypeOK, Places, BlockedOnEmpty, Locked, Loop, Over, Destroying
  <1>8. Holding'
    BY <1>1, <1>3, <1>5, MainApart DEF IInv, Holding, Over
  <1>9. InOrder'
    <2>1. LiveTasks # {}
      BY <1>2, <1>6 DEF LiveTasks
    <2>2. ~stop /\ ~\E x \in Threads : pc[x] \in Destroying
      BY <2>1 DEF IInv, InOrder
    <2>3. (\E x \in Threads : pc'[x] \in Destroying) => l = "stopping"
      BY <2>2, <1>5 DEF Destroying
    <2>4. \A q \in Requests : Arriving(q)' = Arriving(q)
      BY <1>1 DEF Arriving
    <2>5. QED
      BY <1>1, <1>4, <1>5, <2>2, <2>3, <2>4 DEF IInv, InOrder
  <1>10. IdleMeansNothingToDo'
    <2>1. (\E u \in Workers : pc'[u] = "asleep") => \E u \in Workers : pc[u] = "asleep"
      BY <1>5, MainApart
    <2>2. QED
      BY <1>1, <2>1 DEF IInv, IdleMeansNothingToDo
  <1>11. ExactlyOnce'
    <2>1. \A q \in Requests : (Queued(q)' <=> Queued(q)) /\ (Handled(q)' <=> Handled(q))
      BY <1>1, <1>3, <1>5, MainApart DEF Queued, Handled
    <2>2. \A q \in Requests : \A u, v \in Workers : task'[u] = q /\ task'[v] = q => u = v
      BY <1>3, TaskQueueAssumption DEF IInv, ExactlyOnce
    <2>3. QED
      BY <1>1, <1>5, <2>1, <2>2 DEF IInv, ExactlyOnce
  <1>12. QED
    BY <1>7, <1>8, <1>9, <1>10, <1>11 DEF IInv

\* Main on its way out, and the end of the process.
LEMMA MainSteps ==
  ASSUME IInv, StopServer \/ DropManager \/ Exit
  PROVE  IInv'
  <1>1. /\ UNCHANGED <<queueVars, stop>> /\ pc[Main] \in {"serving", "stopped", "leaving"}
        /\ pc \in [Threads -> Loop \cup Destroying \cup {"serving", "stopped", "leaving"} \cup Over]
    BY DEF IInv, TypeOK, StopServer, DropManager, Exit
  <1>2. \A w \in Workers : pc[w] \notin Over
    BY <1>1 DEF IInv, Places, Over, Destroying
  <1>3. \A r \in Requests : ~Arriving(r)
    BY DEF IInv, InOrder, StopServer, DropManager, Exit
  <1>4. /\ \A r \in Requests : ~Arriving(r)'
        /\ LiveTasks' = LiveTasks
    BY <1>1, <1>3 DEF Arriving, LiveTasks, queueVars
  <1>5. CASE Exit
    <2>1. pc' = [x \in Threads |-> "ended"]
      BY <1>5 DEF Exit
    <2>2. \A x \in Threads : pc'[x] = "ended"
      BY <2>1
    <2>3. TypeOK' /\ Places'
      BY <1>1, <2>1, <2>2, MainApart DEF IInv, TypeOK, Places, Over, queueVars
    <2>4. InOrder'
      BY <1>1, <1>4, <2>2, MainApart DEF IInv, InOrder, Destroying
    <2>5. QED
      BY <1>1, <2>2, <2>3, <2>4, MainApart, PcStep DEF Over, Locked
  <1>6. CASE StopServer \/ DropManager
    <2>1. PICK l \in {"stopped", "stopping", "leaving"} :
             /\ pc' = [pc EXCEPT ![Main] = l]
             /\ l = "stopped" => pc[Main] = "serving"
             /\ l = "stopping" => LiveTasks = {}
      BY <1>6 DEF StopServer, DropManager, Goto
    <2>2. pc'[Main] = l /\ \A w \in Workers : pc'[w] = pc[w]
      BY <1>1, <2>1, MainApart
    <2>3. TypeOK' /\ Places'
      BY <1>1, <1>2, <2>1, <2>2, MainApart DEF IInv, TypeOK, Places, Over, Destroying, queueVars
    <2>4. InOrder'
      <3>1. ~stop /\ \A x \in Threads : pc[x] \notin Destroying
        BY <1>6 DEF IInv, InOrder, StopServer, DropManager
      <3>2. (\E x \in Threads : pc'[x] \in Destroying) => l = "stopping"
        BY <2>1, <3>1, <1>1 DEF Destroying
      <3>3. QED
        BY <1>1, <1>4, <2>1, <2>2, <3>1, <3>2 DEF InOrder
    <2>5. QED
      BY <1>1, <1>2, <2>2, <2>3, <2>4, PcStep DEF IInv, BlockedOnEmpty, Locked, Over
  <1>7. QED
    BY <1>5, <1>6

\* The destructor, on whichever thread: no task is left to disturb.
LEMMA DestroySteps ==
  ASSUME IInv, NEW x \in Threads, Destroy(x)
  PROVE  IInv'
  <1>1. /\ UNCHANGED queueVars /\ pc[x] \in Destroying
        /\ pc \in [Threads -> Loop \cup Destroying \cup {"serving", "stopped", "leaving"} \cup Over]
    BY DEF IInv, TypeOK, Destroy, SetStop, NotifyStop, Join, Destroying
  <1>2. /\ LiveTasks' = {} /\ pc[Main] \notin {"serving", "stopped"}
        /\ \A r \in Requests : ~Arriving(r)'
    BY <1>1 DEF IInv, InOrder, LiveTasks, Arriving, queueVars
  <1>3. pc[x] \notin Over /\ pc[Main] \notin Over /\ \A w \in Workers : pc[w] \notin Over
    BY <1>1, MainApart DEF IInv, Places, Over, Destroying, Threads
  <1>4. CASE x # Main /\ Join(x)
    <2>1. pc' = [y \in Threads |-> "aborted"] /\ UNCHANGED stop
      BY <1>4 DEF Join
    <2>2. \A y \in Threads : pc'[y] = "aborted"
      BY <2>1
    <2>3. TypeOK' /\ Places' /\ InOrder'
      BY <1>1, <1>2, <2>1, <2>2, MainApart
         DEF IInv, TypeOK, Places, InOrder, Over, queueVars
    <2>4. QED
      BY <1>1, <1>3, <2>2, <2>3, MainApart, PcStep DEF Over, Locked
  <1>5. CASE SetStop(x) \/ NotifyStop(x) \/ (x = Main /\ Join(x))
    <2>1. PICK l \in {"notifying", "joining", "leaving"} :
             /\ pc' = [pc EXCEPT ![x] = l] \/ pc' = [Woken EXCEPT ![x] = l]
             /\ l = "leaving" => x = Main
             /\ stop' \in BOOLEAN
      BY <1>5 DEF SetStop, NotifyStop, Join, Goto, IInv, TypeOK
    <2>2. /\ pc'[x] = l
          /\ \A y \in Threads \ {x} : pc'[y] = pc[y] \/ (pc[y] = "asleep" /\ pc'[y] = "test")
          /\ pc' \in [Threads -> Loop \cup Destroying \cup {"serving", "stopped", "leaving"} \cup Over]
      BY <1>1, <2>1, WokenThreads DEF Destroying
    <2>3. pc'[Main] \in {"leaving"} \cup Destroying
      <3>1. pc[Main] \in {"leaving"} \cup Destroying
        BY <1>2, <1>3 DEF IInv, Places
      <3>2. QED
        BY <2>1, <2>2, <3>1, MainApart DEF Destroying
    <2>4. TypeOK'
      BY <1>1, <2>1, <2>2 DEF IInv, TypeOK, queueVars
    <2>5. \A w \in Workers : /\ pc'[w] \in Loop \cup Destroying
                             /\ pc'[w] = pc[w] \/ (pc[w] = "asleep" /\ pc'[w] = "test")
                                \/ (w = x /\ pc'[w] \in Destroying)
      <3>1. ASSUME NEW w \in Workers PROVE pc[w] \in Loop \cup Destroying
        <4>1. pc[w] \in Loop \cup Destroying \cup Over
          BY DEF IInv, Places
        <4>2. pc[w] \notin Over
          BY <1>3
        <4>3. QED
          BY <4>1, <4>2
      <3>2. \A w \in Workers : w = x => pc'[w] \in Destroying
        BY <2>1, <2>2, MainApart DEF Destroying
      <3>3. QED
        BY <2>2, <3>1, <3>2, MainApart DEF Loop
    <2>6. Places'
      BY <2>3, <2>5 DEF Places, Over, Destroying, Loop
    <2>7. InOrder'
      BY <1>2, <2>3 DEF InOrder, Destroying
    <2>8. /\ Locked' => queue = <<>>
          /\ \A w \in Workers : pc'[w] = "asleep" => pc[w] = "asleep"
      BY <2>5 DEF IInv, BlockedOnEmpty, Locked, Destroying
    <2>9. \A w \in Workers : /\ pc'[w] = "handle" <=> pc[w] = "handle"
                             /\ pc'[w] = "release" <=> pc[w] = "release"
      BY <1>1, <2>5 DEF Destroying
    <2>10. QED
      BY <1>1, <1>3, <2>4, <2>6, <2>7, <2>8, <2>9, PcStep
  <1>6. QED
    BY <1>4, <1>5 DEF Destroy

LEMMA NextIInv == IInv /\ [Next]_vars => IInv'
  <1> SUFFICES ASSUME IInv, [Next]_vars PROVE IInv'
    OBVIOUS
  <1>1. CASE \E r \in Requests : Refuse(r) \/ Accept(r) \/ Emplace(r) \/ Notify(r)
    BY <1>1, EnterSteps, EmplaceStep, NotifyStep
  <1>2. CASE \E w \in Workers : RunLoop(w) \/ WakeSpuriously(w)
    BY <1>2, LoopSteps, TakeStep, HandleStep, ReleaseStep DEF RunLoop
  <1>3. CASE StopServer \/ DropManager \/ Exit
    BY <1>3, MainSteps
  <1>4. CASE \E x \in Threads : Destroy(x)
    BY <1>4, DestroySteps
  <1>5. CASE UNCHANGED vars
    <2>1. UNCHANGED <<queueVars, stop, pc>>
      BY <1>5 DEF vars, queueVars
    <2>2. TypeOK' /\ Places' /\ Holding' /\ BlockedOnEmpty'
      BY <2>1 DEF queueVars, IInv, TypeOK, Places, Holding, BlockedOnEmpty, Locked
    <2>3. InOrder' /\ IdleMeansNothingToDo'
      BY <2>1 DEF queueVars, IInv, InOrder, Arriving, LiveTasks, IdleMeansNothingToDo
    <2>4. ExactlyOnce'
      BY <2>1 DEF queueVars, IInv, ExactlyOnce, Queued, Handled
    <2>5. QED
      BY <2>2, <2>3, <2>4 DEF IInv
  <1>6. QED
    BY <1>1, <1>2, <1>3, <1>4, <1>5 DEF Next

\* The invariant holds in every reachable state, for any number of requests,
\* workers and io threads.
THEOREM Invariance == Spec => []IInv
  BY InitIInv, NextIInv, PTL DEF Spec

\* No request that AddTask queued is lost, taken twice or answered twice.
THEOREM EachOnce == Spec => []ExactlyOnce
  <1>1. IInv => ExactlyOnce
    BY DEF IInv
  <1>2. QED
    BY <1>1, Invariance, PTL

\* No worker sleeps while the queue holds a task whose AddTask has notified.
THEOREM NoSleepThroughWork == Spec => []IdleMeansNothingToDo
  <1>1. IInv => IdleMeansNothingToDo
    BY DEF IInv
  <1>2. QED
    BY <1>1, Invariance, PTL

\* The destructor finds nothing queued, nothing held and nothing arriving.
THEOREM StopsIdle == Spec => []StopFindsNoWork
  <1>1. IInv => StopFindsNoWork
    BY NoLiveTask DEF IInv, InOrder, StopFindsNoWork
  <1>2. QED
    BY <1>1, Invariance, PTL
=============================================================================
