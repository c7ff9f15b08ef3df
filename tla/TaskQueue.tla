----------------------------- MODULE TaskQueue -----------------------------
(***************************************************************************)
(* The task queue of the server: WorkersManager (workers_manager.cpp), the *)
(* io threads that put tasks in it (TaskManager::AddTask, called by        *)
(* BaseSession::HandleApi), the callback by which a task answers its       *)
(* request (BaseTask::Execute), and the end of the process (main.cpp), in  *)
(* which the manager's destructor stops the workers.                       *)
(*                                                                         *)
(* The callback of a task owns the session of its request, and the session *)
(* owns the manager (base_session.cpp:302, base_session.cpp:227).  So the  *)
(* last owner of the manager is main or a task, and ~WorkersManager runs   *)
(* on whichever thread drops that last reference.                          *)
(*                                                                         *)
(* A step that holds m_queueMtx from its first to its last access is one   *)
(* action, enabled when the mutex is free.  The one place where another    *)
(* thread can act while a worker holds the mutex is between the test of    *)
(* the predicate and the call that puts the worker to sleep (pc "block"):  *)
(* m_stop is atomic and is set, and the condition variable notified,       *)
(* without the mutex.                                                      *)
(***************************************************************************)
EXTENDS Naturals, Sequences, FiniteSets

CONSTANTS Requests,     \* the requests that reach HandleApi
          NoTask,       \* the null unique_ptr
          NumWorkers,   \* DEFAULT_NUM_WORKERS
          IoThreads     \* worker threads of the web server

ASSUME TaskQueueAssumption ==
  /\ NoTask \notin Requests
  /\ NumWorkers \in Nat \ {0}
  /\ IoThreads \in Nat \ {0}

Workers == 1 .. NumWorkers   \* m_workers, in the order they are joined
Main == 0                    \* the thread of main()
Threads == Workers \cup {Main}

VARIABLES req,      \* how far AddTask has come with a request
          queue,    \* m_queue
          stop,     \* m_stop
          pc,       \* where each thread is
          task,     \* the task a worker has taken from the queue
          answers   \* how many times a request has been answered

queueVars == <<req, queue, task, answers>>
vars == <<req, queue, stop, pc, task, answers>>

Loop == {"loop", "test", "block", "asleep", "handle", "release", "done"}
Destroying == {"stopping", "notifying", "joining"}
Over == {"ended", "aborted"}   \* the process has returned from main, or aborted

\* Every variable has its type (the members of WorkersManager).
TypeOK ==
  /\ req \in [Requests -> {"new", "refused", "locking", "notify", "handed"}]
  /\ queue \in Seq(Requests)
  /\ stop \in BOOLEAN
  /\ pc \in [Threads -> Loop \cup Destroying
                         \cup {"serving", "stopped", "leaving"} \cup Over]
  /\ task \in [Workers -> Requests \cup {NoTask}]
  /\ answers \in [Requests -> {0, 1}]

Init ==
  /\ req = [r \in Requests |-> "new"]
  /\ queue = <<>>
  /\ stop = FALSE
  /\ pc = [x \in Threads |-> IF x = Main THEN "serving" ELSE "loop"]
  /\ task = [w \in Workers |-> NoTask]
  /\ answers = [r \in Requests |-> 0]

-----------------------------------------------------------------------------
\* m_queueMtx is held between two steps only by a worker about to sleep.
Locked == \E w \in Workers : pc[w] = "block"

\* Mistaken: notify_one() in place of notify_all().
WrongWoken ==
  [x \in Threads |->
     IF pc[x] = "asleep" /\ \A y \in Workers : pc[y] = "asleep" => x <= y
     THEN "test" ELSE pc[x]]

\* m_queueCv.notify_all(): a woken worker tests the predicate again.
Woken == [x \in Threads |-> IF pc[x] = "asleep" THEN "test" ELSE pc[x]]

\* Mistaken: the callback keeps a bare pointer to its session, which owns
\* nothing.
WrongLiveTasks == {}

\* The tasks that still own a session, and with it the manager.
LiveTasks ==
  {queue[i] : i \in DOMAIN queue}
    \cup {task[w] : w \in {u \in Workers : task[u] # NoTask}}

Arriving(r) == req[r] \in {"locking", "notify"}

-----------------------------------------------------------------------------
\* An io thread runs the handler of a request (BaseSession::HandleApi).
Enter(r) ==
  /\ req[r] = "new" /\ pc[Main] = "serving"
  /\ Cardinality({q \in Requests : Arriving(q)}) < IoThreads

\* Mistaken: AddTask queues a task whatever GenerateTask returned.
WrongRefuse(r) ==
  /\ Enter(r)
  /\ req' = [req EXCEPT ![r] = "locking"]
  /\ answers' = [answers EXCEPT ![r] = @ + 1]
  /\ UNCHANGED <<queue, stop, pc, task>>

\* GenerateTask finds no such task or a malformed body: nothing is queued
\* and the session itself answers.
Refuse(r) ==
  /\ Enter(r)
  /\ req' = [req EXCEPT ![r] = "refused"]
  /\ answers' = [answers EXCEPT ![r] = @ + 1]
  /\ UNCHANGED <<queue, stop, pc, task>>

\* GenerateTask has built the task; the thread goes for the mutex.
Accept(r) ==
  /\ Enter(r)
  /\ req' = [req EXCEPT ![r] = "locking"]
  /\ UNCHANGED <<queue, stop, pc, task, answers>>

\* Mistaken: AddTask does not notify.
WrongEmplace(r) ==
  /\ req[r] = "locking" /\ ~Locked
  /\ queue' = Append(queue, r)
  /\ req' = [req EXCEPT ![r] = "handed"]
  /\ UNCHANGED <<stop, pc, task, answers>>

Emplace(r) ==
  /\ req[r] = "locking" /\ ~Locked
  /\ queue' = Append(queue, r)
  /\ req' = [req EXCEPT ![r] = "notify"]
  /\ UNCHANGED <<stop, pc, task, answers>>

\* The notification follows the release of the mutex.
Notify(r) ==
  /\ req[r] = "notify"
  /\ pc' = Woken
  /\ req' = [req EXCEPT ![r] = "handed"]
  /\ UNCHANGED <<queue, stop, task, answers>>

-----------------------------------------------------------------------------
Goto(x, l) == pc' = [pc EXCEPT ![x] = l]

\* while (!m_stop)
CheckStop(w) ==
  /\ pc[w] = "loop"
  /\ Goto(w, IF stop THEN "done" ELSE "test")
  /\ UNCHANGED <<queueVars, stop>>

\* The predicate holds for a task: take it and release the mutex.
Take(w) ==
  /\ pc[w] = "test" /\ ~Locked /\ queue # <<>>
  /\ task' = [task EXCEPT ![w] = Head(queue)]
  /\ queue' = Tail(queue)
  /\ Goto(w, "handle")
  /\ UNCHANGED <<req, stop, answers>>

\* The queue is empty: leave the wait if the manager stops, else sleep.
FindNothing(w) ==
  /\ pc[w] = "test" /\ ~Locked /\ queue = <<>>
  /\ Goto(w, IF stop THEN "loop" ELSE "block")
  /\ UNCHANGED <<queueVars, stop>>

\* The wait releases the mutex and puts the worker among the sleepers.
Block(w) ==
  /\ pc[w] = "block"
  /\ Goto(w, "asleep")
  /\ UNCHANGED <<queueVars, stop>>

\* A condition variable may wake a thread that nobody notified.
WakeSpuriously(w) ==
  /\ pc[w] = "asleep"
  /\ Goto(w, "test")
  /\ UNCHANGED <<queueVars, stop>>

\* The task runs and calls its callback; an exception becomes an answer.
Handle(w) ==
  /\ pc[w] = "handle"
  /\ answers' = [answers EXCEPT ![task[w]] = @ + 1]
  /\ Goto(w, "release")
  /\ UNCHANGED <<req, queue, stop, task>>

\* The task dies at the end of its block.  If it was the last owner of the
\* manager, the worker runs the destructor.
Release(w) ==
  /\ pc[w] = "release"
  /\ task' = [task EXCEPT ![w] = NoTask]
  /\ UNCHANGED <<req, queue, stop, answers>>
  /\ Goto(w, IF pc[Main] = "leaving" /\ LiveTasks' = {} THEN "stopping"
                                                       ELSE "loop")

-----------------------------------------------------------------------------
\* ~Server stops the io context and joins its threads.
StopServer ==
  /\ pc[Main] = "serving"
  /\ \A r \in Requests : ~Arriving(r)
  /\ Goto(Main, "stopped")
  /\ UNCHANGED <<queueVars, stop>>

\* main drops its reference to the manager.
DropManager ==
  /\ pc[Main] = "stopped"
  /\ Goto(Main, IF LiveTasks = {} THEN "stopping" ELSE "leaving")
  /\ UNCHANGED <<queueVars, stop>>

\* main returns, which ends the threads that still run.
Exit ==
  /\ pc[Main] = "leaving"
  /\ pc' = [x \in Threads |-> "ended"]
  /\ UNCHANGED <<queueVars, stop>>

\* ~WorkersManager, on thread x: m_stop = true ...
SetStop(x) ==
  /\ pc[x] = "stopping"
  /\ stop' = TRUE
  /\ Goto(x, "notifying")
  /\ UNCHANGED <<queueVars>>

\* ... m_queueCv.notify_all() ...
NotifyStop(x) ==
  /\ pc[x] = "notifying"
  /\ pc' = [Woken EXCEPT ![x] = "joining"]
  /\ UNCHANGED <<queueVars, stop>>

\* ... and join each worker, in order.  A worker that comes to itself gets a
\* std::system_error, which a noexcept destructor turns into std::terminate.
Join(x) ==
  /\ pc[x] = "joining"
  /\ \A w \in Workers : x = Main \/ w < x => pc[w] = "done"
  /\ IF x = Main THEN Goto(Main, "leaving")
                 ELSE pc' = [y \in Threads |-> "aborted"]
  /\ UNCHANGED <<queueVars, stop>>

-----------------------------------------------------------------------------
RunLoop(w) ==
  \/ CheckStop(w) \/ Take(w) \/ FindNothing(w) \/ Block(w)
  \/ Handle(w) \/ Release(w)

Destroy(x) == SetStop(x) \/ NotifyStop(x) \/ Join(x)

Next ==
  \/ \E r \in Requests : Refuse(r) \/ Accept(r) \/ Emplace(r) \/ Notify(r)
  \/ \E w \in Workers : RunLoop(w) \/ WakeSpuriously(w)
  \/ StopServer \/ DropManager \/ Exit
  \/ \E x \in Threads : Destroy(x)

\* Every thread that can run is scheduled, and the mutex is granted in the
\* end to a thread that finds it free again and again.  Nothing forces
\* requests to come, the operator to end the server, or a spurious wakeup.
Fairness ==
  /\ \A r \in Requests : /\ SF_vars(Emplace(r))
                         /\ WF_vars(Notify(r))
  /\ \A w \in Workers : WF_vars(RunLoop(w))
  /\ WF_vars(DropManager) /\ WF_vars(Exit)
  /\ \A x \in Threads : WF_vars(Destroy(x))

Spec == Init /\ [][Next]_vars
FairSpec == Spec /\ Fairness

-----------------------------------------------------------------------------
Queued(r) == \E i \in DOMAIN queue : queue[i] = r
Handled(r) == \E w \in Workers : task[w] = r /\ pc[w] = "handle"

\* Every request that was refused or queued is, until the process ends, in
\* one place: once in the queue, with one worker that has not yet answered it, or
\* answered.  So no task is lost between AddTask and Run, none is taken
\* twice, and HandleApi and the callback never both answer one request.
ExactlyOnce ==
  \A r \in Requests :
    /\ Queued(r) => ~Handled(r) /\ answers[r] = 0
    /\ Handled(r) => answers[r] = 0
    /\ \A i, j \in DOMAIN queue : queue[i] = r /\ queue[j] = r => i = j
    /\ \A u, w \in Workers : task[u] = r /\ task[w] = r => u = w
    /\ pc[Main] \notin Over =>
         (Queued(r) \/ Handled(r) \/ answers[r] = 1
            <=> req[r] \in {"refused", "notify", "handed"})

\* A worker never sleeps through work: while one is asleep, every task in
\* the queue is one whose AddTask has yet to notify.  (AddTask notifies after
\* it has released the mutex; the wait of Run tests the queue under it.)
IdleMeansNothingToDo ==
  (\E w \in Workers : pc[w] = "asleep")
    => \A i \in DOMAIN queue : req[queue[i]] = "notify"

\* The workers are told to stop only when no task is queued or held, and
\* none can come any more: the destructor never drops a task unanswered.
StopFindsNoWork ==
  stop => /\ queue = <<>> /\ \A w \in Workers : task[w] = NoTask
          /\ \A r \in Requests : ~Arriving(r)

\* A request AddTask has accepted is answered, as long as main serves.
EveryTaskIsAnswered ==
  \A r \in Requests :
    req[r] = "locking" ~> answers[r] = 1 \/ pc[Main] # "serving"

\* The destructor main runs comes to an end: every worker is told to stop and
\* does (workers_manager.cpp:57 makes m_stop end the wait).
ShutdownCompletes == pc[Main] = "stopping" ~> pc[Main] = "ended"

-----------------------------------------------------------------------------
\* The inductive invariant behind the safety properties.

\* Each thread runs its own part of the program.
Places ==
  /\ \A w \in Workers : /\ pc[w] \in Loop \cup Destroying \cup Over
                        /\ pc[w] \in Over <=> pc[Main] \in Over
  /\ pc[Main] \in {"serving", "stopped", "leaving"} \cup Destroying \cup Over

\* A worker holds a task from Take to Release, and answers it in between.
Holding ==
  \A w \in Workers :
    /\ pc[w] \notin Over => (task[w] # NoTask <=> pc[w] \in {"handle", "release"})
    /\ pc[w] = "release" => answers[task[w]] = 1

\* A worker about to sleep holds the mutex, so the queue it found empty is.
BlockedOnEmpty == Locked => queue = <<>>

\* Requests stop before main does, and tasks before the destructor begins.
InOrder ==
  /\ pc[Main] # "serving" => \A r \in Requests : ~Arriving(r)
  /\ stop \/ (\E x \in Threads : pc[x] \in Destroying)
       => LiveTasks = {} /\ pc[Main] \notin {"serving", "stopped"}

\* The whole of it: what TLC checks on small instances and the proofs use.
IInv ==
  /\ TypeOK /\ Places /\ Holding /\ BlockedOnEmpty /\ InOrder
  /\ ExactlyOnce /\ IdleMeansNothingToDo
=============================================================================
