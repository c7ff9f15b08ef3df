----------------------------- MODULE TraceWriter -----------------------------
(***************************************************************************)
(* Tracing (tracer.cpp, trace_collector.cpp, trace_writer.cpp).  A trace   *)
(* statement takes an index, collects its message and queues it when the   *)
(* statement ends; what it prints may trace in its turn.  One thread       *)
(* writes the queued messages, in batches, once there are enough of them   *)
(* or a timeout is over.  Its destructor waits until all is written.       *)
(*                                                                         *)
(* The wait of the condition variable is several steps: the writer holds   *)
(* m_messagesMutex while it tests the predicate and until it sleeps, but   *)
(* the destructor sets m_stop and notifies without the mutex.              *)
(***************************************************************************)
EXTENDS Naturals, SequencesExt

CONSTANTS Producers,   \* threads that trace
          MaxIndex,    \* bound: messages in all
          MaxDepth,    \* bound: trace statements within one another
          MinMessages, \* m_minMessagesToProcess of the settings
          Garbage      \* what m_minMessagesToProcess may hold uninitialized

ASSUME TraceAssumption ==
  MaxIndex \in Nat /\ MaxDepth \in Nat /\ MinMessages \in Nat /\ Garbage \subseteq Nat

VARIABLES configured,  \* the constructor has reached SetSettings
          index,       \* m_index
          open,        \* the messages each thread collects, innermost last
          notifying,   \* threads that have queued and not yet notified
          queue,       \* m_messagesQueue
          stop,        \* m_stop
          writer,      \* where Run is
          least,       \* its minMessagesToProcess
          batch,       \* its messageQueue
          good,        \* whether its fileStream is good
          out,         \* messages written, in order
          lost,        \* the ones of them that a bad stream has swallowed
          sent,        \* messages queued, in order (history)
          owner        \* ~TraceWriter: "none", "stopping", "joining", "gone"

tracing == <<index, open, notifying>>
writing == <<least, batch, good, out, lost>>
vars == <<configured, tracing, queue, stop, writer, writing, sent, owner>>

Indices == 1 .. MaxIndex

\* Every variable has its type (trace_writer.h:46-70, tracer.h:29-36).
TypeOK ==
  /\ configured \in BOOLEAN /\ stop \in BOOLEAN /\ good \in BOOLEAN
  /\ index \in 0 .. MaxIndex
  /\ open \in [Producers -> Seq(Indices)] /\ notifying \subseteq Producers
  /\ queue \in Seq(Indices) /\ batch \in Seq(Indices)
  /\ out \in Seq(Indices) /\ sent \in Seq(Indices) /\ lost \subseteq Indices
  /\ writer \in {"top", "block", "asleep", "awake", "writing", "ended"}
  /\ least \in Nat
  /\ owner \in {"none", "stopping", "joining", "gone"}

Init ==
  /\ configured = FALSE /\ index = 0
  /\ open = [p \in Producers |-> <<>>] /\ notifying = {}
  /\ queue = <<>> /\ stop = FALSE /\ writer = "top" /\ least = 0
  /\ batch = <<>> /\ good = TRUE /\ out = <<>> /\ lost = {} /\ sent = <<>>
  /\ owner = "none"

-----------------------------------------------------------------------------
\* The thread is started before the members after it are initialized; then
\* SetSettings sets them.  The tracer is used only once the writer is made.
SetSettings ==
  /\ ~configured /\ configured' = TRUE
  /\ UNCHANGED <<tracing, queue, stop, writer, writing, sent, owner>>

\* StartCollecting: a trace statement begins, perhaps within another one.
StartCollecting(p) ==
  /\ configured /\ owner = "none" /\ p \notin notifying
  /\ index < MaxIndex /\ Len(open[p]) < MaxDepth
  /\ index' = index + 1 /\ open' = [open EXCEPT ![p] = Append(@, index + 1)]
  /\ UNCHANGED <<configured, notifying, queue, stop, writer, writing, sent, owner>>

\* m_messagesMutex is free: the writer holds it from its test to its sleep.
MutexFree == writer # "block"

\* The message of the statement that is about to end: the innermost one.
Collected(p) == Last(open[p])

\* ~TraceCollector: the innermost statement ends, its message is queued ...
Queue(p) ==
  /\ open[p] # <<>> /\ p \notin notifying /\ MutexFree
  /\ queue' = Append(queue, Collected(p)) /\ sent' = Append(sent, Collected(p))
  /\ open' = [open EXCEPT ![p] = Front(@)] /\ notifying' = notifying \cup {p}
  /\ UNCHANGED <<configured, index, stop, writer, writing, owner>>

\* notify_all wakes the writer if it sleeps.
Woken == writer' = IF writer = "asleep" THEN "awake" ELSE writer

\* ... and the writer is notified, after the mutex was given back.
Notify(p) ==
  /\ p \in notifying /\ notifying' = notifying \ {p} /\ Woken
  /\ UNCHANGED <<configured, index, open, queue, stop, writing, sent, owner>>

-----------------------------------------------------------------------------
\* Mistaken: the writer keeps what it takes.
WrongTake ==
  /\ batch' = queue /\ good' \in BOOLEAN /\ writer' = "writing"
  /\ UNCHANGED queue

\* The file is opened, or else one of its name in the current folder; if that
\* fails too the stream swallows what is written.
Opened == good' \in BOOLEAN

\* The wait is over: take all that is queued, and open the file for it.
TakeAll ==
  /\ batch' = queue /\ queue' = <<>> /\ Opened
  /\ writer' = IF queue = <<>> THEN "top" ELSE "writing"

\* The predicate of the wait.
Enough(n) == Len(queue) >= n \/ stop

\* The settings the writer reads, which may not be there yet.
LeastNow == IF configured THEN {MinMessages} ELSE Garbage \cup {MinMessages}

\* Mistaken: the loop is left without a look at the queue.
WrongTop ==
  /\ writer = "top"
  /\ \E n \in LeastNow :
       /\ least' = n
       /\ IF stop THEN writer' = "ended" /\ UNCHANGED <<queue, batch, good>>
          ELSE IF Enough(n) THEN TakeAll
          ELSE writer' = "block" /\ UNCHANGED <<queue, batch, good>>
  /\ UNCHANGED <<configured, tracing, stop, out, lost, sent, owner>>

\* The top of the loop: leave it, or read the settings and test the predicate.
Top ==
  /\ writer = "top"
  /\ \E n \in LeastNow :
       /\ least' = n
       /\ IF stop /\ queue = <<>> THEN writer' = "ended" /\ UNCHANGED <<queue, batch, good>>
          ELSE IF Enough(n) THEN TakeAll
          ELSE writer' = "block" /\ UNCHANGED <<queue, batch, good>>
  /\ UNCHANGED <<configured, tracing, stop, out, lost, sent, owner>>

\* Sleep, which gives the mutex back.
Sleep ==
  /\ writer = "block" /\ writer' = "asleep"
  /\ UNCHANGED <<configured, tracing, queue, stop, writing, sent, owner>>

\* Woken, by a notification or without a cause, the writer tests again.
Wake ==
  /\ writer \in {"awake", "asleep"}
  /\ IF Enough(least) THEN TakeAll ELSE writer' = "block" /\ UNCHANGED <<queue, batch, good>>
  /\ UNCHANGED <<configured, tracing, stop, least, out, lost, sent, owner>>

\* Mistaken: after the timeout the writer waits again for enough messages.
WrongTimeout ==
  /\ writer = "asleep"
  /\ IF Enough(least) THEN TakeAll ELSE UNCHANGED <<writer, queue, batch, good>>
  /\ UNCHANGED <<configured, tracing, stop, least, out, lost, sent, owner>>

\* The timeout is over, and the writer takes what there is.
Timeout ==
  /\ writer \in {"asleep", "awake"} /\ TakeAll
  /\ UNCHANGED <<configured, tracing, stop, least, out, lost, sent, owner>>

\* ProcessMessages: one message after the other.
Process ==
  /\ writer = "writing" /\ batch # <<>>
  /\ out' = Append(out, Head(batch)) /\ batch' = Tail(batch)
  /\ lost' = IF good THEN lost ELSE lost \cup {Head(batch)}
  /\ writer' = IF Len(batch) = 1 THEN "top" ELSE "writing"
  /\ UNCHANGED <<configured, tracing, queue, stop, least, good, sent, owner>>

-----------------------------------------------------------------------------
\* The last owner of the tracer lets go of it.  Every message that is being
\* collected owns it too.
Destroy ==
  /\ configured /\ owner = "none" /\ notifying = {}
  /\ \A p \in Producers : open[p] = <<>>
  /\ stop' = TRUE /\ owner' = "stopping"
  /\ UNCHANGED <<configured, tracing, queue, writer, writing, sent>>

NotifyStop ==
  /\ owner = "stopping" /\ owner' = "joining" /\ Woken
  /\ UNCHANGED <<configured, tracing, queue, stop, writing, sent>>

Join ==
  /\ owner = "joining" /\ writer = "ended" /\ owner' = "gone"
  /\ UNCHANGED <<configured, tracing, queue, stop, writer, writing, sent>>

Run == Top \/ Sleep \/ Wake \/ Timeout \/ Process

Next ==
  \/ SetSettings \/ Run \/ Destroy \/ NotifyStop \/ Join
  \/ \E p \in Producers : StartCollecting(p) \/ Queue(p) \/ Notify(p)

Spec == Init /\ [][Next]_vars

\* Threads run and get the mutex in the end.  The timeout is a point in time,
\* which passes however often the writer is woken before (SF), also when it was
\* read uninitialized.  Nothing makes a thread trace, or the program end.
Fairness ==
  /\ WF_vars(Top) /\ WF_vars(Sleep) /\ WF_vars(Process) /\ SF_vars(Timeout)
  /\ WF_vars(SetSettings) /\ WF_vars(NotifyStop) /\ WF_vars(Join)
  /\ \A p \in Producers : SF_vars(Queue(p)) /\ WF_vars(Notify(p))

FairSpec == Spec /\ Fairness

-----------------------------------------------------------------------------
\* No message is dropped, doubled or overtaken between the thread that traces
\* and the file, however the batches fall.
OnceInOrder == out \o batch \o queue = sent

\* When the thread has ended, every message that was traced has been written,
\* also the ones queued between the last look at the queue and the stop.
EndedMeansWritten == writer = "ended" => out = sent /\ \A p \in Producers : open[p] = <<>>

\* What holds besides: the writer has a batch just while it writes, and once
\* the tracer's last owner is gone nobody collects a message any more.
Ending ==
  /\ (writer = "writing") <=> (batch # <<>>)
  /\ stop <=> (owner # "none")
  /\ owner # "none" => notifying = {} /\ \A p \in Producers : open[p] = <<>>
  /\ writer = "ended" => stop /\ queue = <<>>

\* The inductive invariant.
IInv == TypeOK /\ OnceInOrder /\ Ending

\* Every trace statement's message comes out, also when it is the last one and
\* too few are queued to be worth a batch.
EveryMessageComesOut == \A i \in Indices : (i \in ToSet(sent)) ~> (i \in ToSet(out))

\* The destructor returns, although its notification may come between the
\* writer's test and its sleep, and be lost.
DestructorReturns == (owner = "stopping") ~> (owner = "gone")
=============================================================================
