------------------------------ MODULE Session ------------------------------
(***************************************************************************)
(* The sessions of the web server (plain_session.cpp, secured_session.cpp, *)
(* base_session.cpp).  A session is one connection: a chain of asynchronous*)
(* operations on its stream, whose handlers run on the session's strand.   *)
(* A request for the api becomes a task; its callback runs on a thread of  *)
(* the task manager, outside the strand, and starts the write itself.      *)
(*                                                                         *)
(* Requests are numbered in the order in which a session reads them.  What *)
(* a request asks for is left out: HandleRequest may come to any of its    *)
(* ends.  An operation can fail at any moment: the client is gone, or the  *)
(* timer set by DoRead has run out, however much of it the task has used.  *)
(***************************************************************************)
EXTENDS Naturals, SequencesExt

CONSTANTS Sessions, Secured,  \* the sessions, and those over TLS
          MaxRequests         \* bound: requests a client sends on one session

ASSUME SessionAssumption == Secured \subseteq Sessions /\ MaxRequests \in Nat

VARIABLES started,   \* Run was called
          pending,   \* the operations in progress on the stream
          strand,    \* what the strand executes
          request,   \* the request in m_request, 0 when it is cleared
          last,      \* the last request read
          queued,    \* the requests whose task has not called back
          answered   \* the requests whose response was written, in order

vars == <<started, pending, strand, request, last, queued, answered>>

Plain(op) == [op |-> op, answers |-> 0, head |-> 0, keep |-> FALSE]
\* A response: which request it answers, from which request its head is made
\* (version, keep_alive), and whether the connection is kept.
Write(r, head, keep) == [op |-> "write", answers |-> r, head |-> head, keep |-> keep]

Numbers == 0 .. MaxRequests
Operations == {Plain(op) : op \in {"handshake", "read", "shutdown"}}
              \cup {Write(r, h, k) : r \in Numbers, h \in Numbers, k \in BOOLEAN}

\* Every variable has its type (base_session.h:53-60).
TypeOK ==
  /\ started \in [Sessions -> BOOLEAN]
  /\ pending \in [Sessions -> Seq(Operations)]
  /\ strand \in [Sessions -> {"free", "handling", "leaving"}]
  /\ request \in [Sessions -> Numbers] /\ last \in [Sessions -> Numbers]
  /\ queued \in [Sessions -> SUBSET Numbers]
  /\ answered \in [Sessions -> Seq(Numbers)]

Init ==
  /\ started = [s \in Sessions |-> FALSE]
  /\ pending = [s \in Sessions |-> <<>>]
  /\ strand = [s \in Sessions |-> "free"]
  /\ request = [s \in Sessions |-> 0] /\ last = [s \in Sessions |-> 0]
  /\ queued = [s \in Sessions |-> {}]
  /\ answered = [s \in Sessions |-> <<>>]

-----------------------------------------------------------------------------
\* The operation at the front is over, which its handler on the strand sees,
\* and ops follow it.
Completes(s, op) == strand[s] = "free" /\ pending[s] # <<>> /\ Head(pending[s]).op = op
Then(s, ops) == pending' = [pending EXCEPT ![s] = Tail(@) \o ops]

\* Starts an operation in a handler that completes none.
Start(s, op) == pending' = [pending EXCEPT ![s] = Append(@, op)]

\* DoClose: over TLS a shutdown is awaited, else there is nothing to await.
Closing(s) == IF s \in Secured THEN <<Plain("shutdown")>> ELSE <<>>

Run(s) ==
  /\ ~started[s] /\ started' = [started EXCEPT ![s] = TRUE]
  /\ Start(s, Plain(IF s \in Secured THEN "handshake" ELSE "read"))
  /\ UNCHANGED <<strand, request, last, queued, answered>>

\* OnHandshake: DoRead clears m_request and reads.
OnHandshake(s) ==
  /\ Completes(s, "handshake") /\ Then(s, <<Plain("read")>>)
  /\ request' = [request EXCEPT ![s] = 0]
  /\ UNCHANGED <<started, strand, last, queued, answered>>

\* OnRead: the next request is in m_request ...
OnRead(s) ==
  /\ Completes(s, "read") /\ Then(s, <<>>) /\ last[s] < MaxRequests
  /\ last' = [last EXCEPT ![s] = @ + 1]
  /\ request' = [request EXCEPT ![s] = last[s] + 1]
  /\ strand' = [strand EXCEPT ![s] = "handling"]
  /\ UNCHANGED <<started, queued, answered>>

\* ... or the client closed the connection.
OnReadEnd(s) ==
  /\ Completes(s, "read") /\ Then(s, Closing(s))
  /\ UNCHANGED <<started, strand, request, last, queued, answered>>

\* The handler of a failed operation throws, which ends the chain.
OnError(s) ==
  /\ strand[s] = "free" /\ pending[s] # <<>> /\ Then(s, <<>>)
  /\ UNCHANGED <<started, strand, request, last, queued, answered>>

-----------------------------------------------------------------------------
\* Mistaken: a HEAD request gets its response and then the one of a GET
\* request, for want of a return in HandleFile.
WrongReply(s) ==
  /\ strand[s] = "handling" /\ strand' = [strand EXCEPT ![s] = "free"]
  /\ \E keep \in BOOLEAN, twice \in BOOLEAN :
       LET w == Write(request[s], request[s], keep)
       IN  pending' = [pending EXCEPT ![s] = @ \o IF twice THEN <<w, w>> ELSE <<w>>]
  /\ UNCHANGED <<started, request, last, queued, answered>>

\* HandleRequest answers at once: a file, an error (which closes), or the
\* "Server Error" of OnRead for an exception.
Reply(s) ==
  /\ strand[s] = "handling" /\ strand' = [strand EXCEPT ![s] = "free"]
  /\ \E keep \in BOOLEAN : Start(s, Write(request[s], request[s], keep))
  /\ UNCHANGED <<started, request, last, queued, answered>>

\* HandleApi queues the task; its callback may run before OnRead returns.
AddTask(s) ==
  /\ strand[s] = "handling" /\ strand' = [strand EXCEPT ![s] = "leaving"]
  /\ queued' = [queued EXCEPT ![s] = @ \cup {request[s]}]
  /\ UNCHANGED <<started, pending, request, last, answered>>

\* Mistaken: HandleApi goes on to read once the task is queued.
WrongLeave(s) ==
  /\ strand[s] = "leaving" /\ strand' = [strand EXCEPT ![s] = "free"]
  /\ IF queued[s] # {}
     THEN Start(s, Plain("read")) /\ request' = [request EXCEPT ![s] = 0]
     ELSE UNCHANGED <<pending, request>>
  /\ UNCHANGED <<started, last, queued, answered>>

Leave(s) ==
  /\ strand[s] = "leaving" /\ strand' = [strand EXCEPT ![s] = "free"]
  /\ UNCHANGED <<started, pending, request, last, queued, answered>>

\* Mistaken: the callback waits for the operation in progress to end, and
\* there is none.
WrongCallback(s) ==
  /\ pending[s] # <<>>
  /\ \E r \in queued[s], keep \in BOOLEAN :
       /\ queued' = [queued EXCEPT ![s] = @ \ {r}]
       /\ Start(s, Write(r, request[s], keep))
  /\ UNCHANGED <<started, strand, request, last, answered>>

\* The task calls back, on a thread of the task manager.
Callback(s) ==
  /\ \E r \in queued[s], keep \in BOOLEAN :
       /\ queued' = [queued EXCEPT ![s] = @ \ {r}]
       /\ Start(s, Write(r, request[s], keep))
  /\ UNCHANGED <<started, strand, request, last, answered>>

\* Mistaken: OnWrite handles the request again when the connection is kept.
WrongOnWrite(s) ==
  /\ Completes(s, "write")
  /\ answered' = [answered EXCEPT ![s] = Append(@, Head(pending[s]).answers)]
  /\ IF Head(pending[s]).keep
     THEN Then(s, <<>>) /\ strand' = [strand EXCEPT ![s] = "handling"]
     ELSE Then(s, Closing(s)) /\ UNCHANGED strand
  /\ UNCHANGED <<started, request, last, queued>>

\* OnWrite: read the next request, or close.
OnWrite(s) ==
  /\ Completes(s, "write")
  /\ answered' = [answered EXCEPT ![s] = Append(@, Head(pending[s]).answers)]
  /\ IF Head(pending[s]).keep
     THEN Then(s, <<Plain("read")>>) /\ request' = [request EXCEPT ![s] = 0]
     ELSE Then(s, Closing(s)) /\ UNCHANGED request
  /\ UNCHANGED <<started, strand, last, queued>>

OnClose(s) ==
  /\ Completes(s, "shutdown") /\ Then(s, <<>>)
  /\ UNCHANGED <<started, strand, request, last, queued, answered>>

Handle(s) == Reply(s) \/ AddTask(s) \/ Leave(s)
Next == \E s \in Sessions :
          \/ Run(s) \/ OnHandshake(s) \/ OnRead(s) \/ OnReadEnd(s) \/ OnError(s)
          \/ Handle(s) \/ Callback(s) \/ OnWrite(s) \/ OnClose(s)

\* A handler returns, a task calls back (EveryTaskIsAnswered of TaskQueue),
\* and every operation ends, if only by its timer.
Fairness ==
  \A s \in Sessions : WF_vars(Handle(s)) /\ WF_vars(Callback(s))
                      /\ WF_vars(OnError(s) \/ OnWrite(s))

Spec == Init /\ [][Next]_vars
FairSpec == Spec /\ Fairness

-----------------------------------------------------------------------------
\* A request that was read has not been answered yet.
Awaiting(s) ==
  \/ strand[s] = "handling" \/ queued[s] # {}
  \/ \E i \in 1 .. Len(pending[s]) : pending[s][i].op = "write"

\* The session can still take a request or answer one.
Up(s) ==
  \/ ~started[s] \/ strand[s] = "handling" \/ queued[s] # {}
  \/ \E i \in 1 .. Len(pending[s]) : pending[s][i].op # "shutdown"

\* The stream and m_request are used by one thing at a time, without a lock:
\* an operation in progress, the handler that has yet to decide, or a task.
OneAtATime ==
  \A s \in Sessions :
    /\ Len(pending[s]) <= 1
    /\ strand[s] = "handling" => pending[s] = <<>> /\ queued[s] = {}
    /\ queued[s] # {} => pending[s] = <<>>

\* The head of a response is made from the request it answers, though the
\* thread that makes it is not the one that clears m_request (DoRead).
HeadOfItsRequest ==
  \A s \in Sessions : \A i \in 1 .. Len(pending[s]) :
    pending[s][i].op = "write" => /\ pending[s][i].answers = pending[s][i].head
                                  /\ pending[s][i].head = last[s]

\* A client that waits for a response gets it or sees the connection end.
EveryRequestEnds == \A s \in Sessions : Awaiting(s) ~> ~Awaiting(s)

\* The sessions implement the exchange of requests and responses: taken one
\* at a time, answered once and in order.
Promise == INSTANCE Exchange WITH Connections <- Sessions, got <- last,
             gave <- answered, up <- [s \in Sessions |-> Up(s)]
ImplementsExchange == Promise!Spec

-----------------------------------------------------------------------------
\* What makes it so: where a session can be, how far its answers are behind
\* its requests there, and that m_request holds the request to answer.
Quiet(s) == strand[s] = "free" /\ queued[s] = {}

Fresh(s) == ~started[s] /\ pending[s] = <<>> /\ Quiet(s) /\ Len(answered[s]) = last[s]

Reading(s) == /\ started[s] /\ Quiet(s) /\ Len(answered[s]) = last[s]
              /\ \E op \in {"handshake", "read"} : pending[s] = <<Plain(op)>>

Owing(s) == started[s] /\ request[s] = last[s] /\ Len(answered[s]) + 1 = last[s]

Handling(s) == Owing(s) /\ pending[s] = <<>> /\ queued[s] = {} /\ strand[s] = "handling"

Tasked(s) == Owing(s) /\ pending[s] = <<>> /\ queued[s] = {last[s]} /\ strand[s] # "handling"

Writing(s) == /\ Owing(s) /\ queued[s] = {} /\ strand[s] # "handling"
              /\ \E keep \in BOOLEAN : pending[s] = <<Write(last[s], last[s], keep)>>

Over(s) == started[s] /\ Quiet(s) /\ pending[s] \in {<<>>, <<Plain("shutdown")>>}

IInv == TypeOK /\ \A s \in Sessions : Fresh(s) \/ Reading(s) \/ Handling(s) \/ Tasked(s)
                                      \/ Writing(s) \/ Over(s)
=============================================================================
