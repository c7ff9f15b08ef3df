--------------------------- MODULE SessionProofs ---------------------------
(***************************************************************************)
(* The safety of the sessions and that they implement Exchange, for any    *)
(* sessions, plain or over TLS, and any number of requests: by themselves, *)
(* and in the web server, for any number of loops, whose counter stops     *)
(* none of them.                                                           *)
(***************************************************************************)
EXTENDS WebServer, FiniteSetTheorems, TLAPS

USE SessionAssumption

Phase(s) == Fresh(s) \/ Reading(s) \/ Handling(s) \/ Tasked(s) \/ Writing(s) \/ Over(s)

\* Every other session stays where it is.
Alone(s) ==
  \A t \in Sessions \ {s} :
    /\ started'[t] = started[t] /\ pending'[t] = pending[t] /\ strand'[t] = strand[t]
    /\ request'[t] = request[t] /\ last'[t] = last[t]
    /\ queued'[t] = queued[t] /\ answered'[t] = answered[t]

\* Sequences of one operation.
LEMMA One ==
  ASSUME NEW x
  PROVE  /\ <<x>> # <<>> /\ Head(<<x>>) = x /\ Tail(<<x>>) = <<>> /\ Len(<<x>>) = 1
         /\ <<x>>[1] = x /\ <<>> \o <<x>> = <<x>> /\ <<>> \o <<>> = <<>>
         /\ Append(<<>>, x) = <<x>> /\ Len(<<>>) = 0
  OBVIOUS

LEMMA OpTypes ==
  /\ \A op \in {"handshake", "read", "shutdown"} :
        Plain(op) \in Operations /\ Plain(op).op = op /\ <<Plain(op)>> \in Seq(Operations)
  /\ \A r, h \in Numbers, k \in BOOLEAN :
        /\ Write(r, h, k) \in Operations /\ <<Write(r, h, k)>> \in Seq(Operations)
        /\ Write(r, h, k).op = "write" /\ Write(r, h, k).answers = r
        /\ Write(r, h, k).head = h /\ Write(r, h, k).keep = k
  /\ <<>> \in Seq(Operations)
  <1>1. \A x \in Operations : <<x>> \in Seq(Operations)
    OBVIOUS
  <1>2. \A op \in {"handshake", "read", "shutdown"} :
          Plain(op) \in Operations /\ Plain(op).op = op
    <2>1. \A op \in {"handshake", "read", "shutdown"} : Plain(op) \in Operations
      BY DEF Operations
    <2>2. QED
      BY <2>1 DEF Plain
  <1>3. \A r, h \in Numbers, k \in BOOLEAN :
          /\ Write(r, h, k) \in Operations
          /\ Write(r, h, k).op = "write" /\ Write(r, h, k).answers = r
          /\ Write(r, h, k).head = h /\ Write(r, h, k).keep = k
    <2>1. \A r, h \in Numbers, k \in BOOLEAN : Write(r, h, k) \in Operations
      BY DEF Operations
    <2>2. QED
      BY <2>1 DEF Write
  <1>4. <<>> \in Seq(Operations)
    OBVIOUS
  <1>5. QED
    BY <1>1, <1>2, <1>3, <1>4

\* In which phases a session is up.
LEMMA PhaseUp ==
  \A s \in Sessions :
    /\ Fresh(s) \/ Reading(s) \/ Handling(s) \/ Tasked(s) \/ Writing(s) => Up(s)
    /\ Over(s) => ~Up(s)
  <1> SUFFICES ASSUME NEW s \in Sessions
               PROVE  /\ Fresh(s) \/ Reading(s) \/ Handling(s) \/ Tasked(s) \/ Writing(s) => Up(s)
                      /\ Over(s) => ~Up(s)
    OBVIOUS
  <1>1. Fresh(s) \/ Handling(s) \/ Tasked(s) => Up(s)
    BY DEF Fresh, Handling, Tasked, Up
  <1>2. ASSUME NEW x, pending[s] = <<x>>, x.op # "shutdown" PROVE Up(s)
    BY <1>2, One DEF Up
  <1>3. Reading(s) => Up(s)
    BY <1>2 DEF Reading, Plain
  <1>4. Writing(s) => Up(s)
    BY <1>2 DEF Writing, Write
  <1>5. ASSUME Over(s) PROVE ~Up(s)
    <2>1. CASE pending[s] = <<>>
      BY <1>5, <2>1, One DEF Over, Up, Quiet
    <2>2. CASE pending[s] = <<Plain("shutdown")>>
      BY <1>5, <2>2, One DEF Over, Up, Quiet, Plain
    <2>3. QED
      BY <1>5, <2>1, <2>2 DEF Over
  <1>6. QED
    BY <1>1, <1>3, <1>4, <1>5

LEMMA PhaseUpNext ==
  (\A s \in Sessions :
    /\ Fresh(s) \/ Reading(s) \/ Handling(s) \/ Tasked(s) \/ Writing(s) => Up(s)
    /\ Over(s) => ~Up(s))'
  BY PhaseUp, PTL

\* The phases of the sessions that stay where they are.
LEMMA Frame ==
  ASSUME IInv, NEW s \in Sessions, Alone(s), TypeOK', Phase(s)'
  PROVE  /\ IInv'
         /\ \A t \in Sessions \ {s} : Up(t) <=> Up(t)'
  <1>1. ASSUME NEW t \in Sessions \ {s} PROVE Phase(t)'
    <2>1. Phase(t)
      BY DEF IInv, Phase
    <2>2. /\ started'[t] = started[t] /\ pending'[t] = pending[t] /\ strand'[t] = strand[t]
          /\ request'[t] = request[t] /\ last'[t] = last[t]
          /\ queued'[t] = queued[t] /\ answered'[t] = answered[t]
      BY DEF Alone
    <2>3. QED
      BY <2>1, <2>2 DEF Phase, Fresh, Reading, Handling, Tasked, Writing, Over, Owing, Quiet
  <1>2. \A t \in Sessions \ {s} : Up(t) <=> Up(t)'
    BY DEF Alone, Up
  <1>3. QED
    BY <1>1, <1>2 DEF IInv, Phase

-----------------------------------------------------------------------------
\* One lemma per action: where it leads, and which step of Exchange it is.
Stays(s) == (Up(s) <=> Up(s)') /\ last' = last /\ answered' = answered
Receives(s) == /\ Up(s) /\ Up(s)' /\ Len(answered[s]) = last[s]
               /\ last' = [last EXCEPT ![s] = @ + 1] /\ answered' = answered
Responds(s) == /\ Up(s) /\ Len(answered[s]) < last[s] /\ last' = last
               /\ answered' = [answered EXCEPT ![s] = Append(@, last[s])]
Drops(s) == Up(s) /\ ~Up(s)' /\ last' = last /\ answered' = answered
Follows(s) == /\ TypeOK' /\ Phase(s)' /\ Alone(s)
              /\ Stays(s) \/ Receives(s) \/ Responds(s) \/ Drops(s)

LEMMA RunFollows == ASSUME IInv, NEW s \in Sessions, Run(s) PROVE Follows(s)
  <1>1. Fresh(s)
    BY DEF IInv, Run, Reading, Handling, Tasked, Writing, Over, Owing
  <1>2. PICK op \in {"handshake", "read"} : pending' = [pending EXCEPT ![s] = <<Plain(op)>>]
    BY <1>1, One DEF Run, Start, Fresh, IInv, TypeOK
  <1>3. /\ started' = [started EXCEPT ![s] = TRUE]
        /\ UNCHANGED <<strand, request, last, queued, answered>>
    BY DEF Run
  <1>4. TypeOK'
    BY <1>2, <1>3, OpTypes DEF IInv, TypeOK
  <1>5. Alone(s)
    BY <1>2, <1>3 DEF Alone, IInv, TypeOK
  <1>6. Reading(s)'
    BY <1>1, <1>2, <1>3 DEF Reading, Fresh, Quiet, IInv, TypeOK
  <1>7. QED
    BY <1>1, <1>3, <1>4, <1>5, <1>6, PhaseUp, PhaseUpNext DEF Follows, Phase, Stays

\* The handler of a completed operation: which one it was, by phase.
LEMMA ReadingOf ==
  ASSUME IInv, NEW s \in Sessions, NEW op \in {"handshake", "read"}, Completes(s, op)
  PROVE  Reading(s) /\ Tail(pending[s]) = <<>>
  <1>1. pending[s] # <<>> /\ Head(pending[s]).op = op /\ strand[s] = "free"
    BY DEF Completes
  <1>2. ~Writing(s) /\ ~Over(s)
    <2>1. \A x : pending[s] = <<x>> => x.op = op
      BY <1>1, One
    <2>2. ASSUME Writing(s) PROVE FALSE
      <3>1. PICK keep \in BOOLEAN : pending[s] = <<Write(last[s], last[s], keep)>>
        BY <2>2 DEF Writing
      <3>2. Write(last[s], last[s], keep).op = op
        BY <2>1, <3>1
      <3>3. Write(last[s], last[s], keep).op = "write"
        BY DEF Write
      <3>4. QED
        BY <3>2, <3>3
    <2>3. ~Over(s)
      BY <1>1, <2>1 DEF Over, Plain
    <2>4. QED
      BY <2>2, <2>3
  <1>3. Reading(s)
    BY <1>1, <1>2 DEF IInv, Fresh, Handling, Tasked
  <1>4. QED
    BY <1>3, One DEF Reading

LEMMA OnHandshakeFollows ==
  ASSUME IInv, NEW s \in Sessions, OnHandshake(s) PROVE Follows(s)
  <1>1. Reading(s) /\ Tail(pending[s]) = <<>>
    BY ReadingOf DEF OnHandshake
  <1>2. pending' = [pending EXCEPT ![s] = <<Plain("read")>>]
    BY <1>1, One DEF OnHandshake, Then, IInv, TypeOK
  <1>3. /\ request' = [request EXCEPT ![s] = 0]
        /\ UNCHANGED <<started, strand, last, queued, answered>>
    BY DEF OnHandshake
  <1>4. TypeOK'
    BY <1>2, <1>3, OpTypes DEF IInv, TypeOK, Numbers
  <1>5. Alone(s)
    BY <1>2, <1>3 DEF Alone, IInv, TypeOK
  <1>6. Reading(s)'
    BY <1>1, <1>2, <1>3 DEF Reading, Quiet, IInv, TypeOK
  <1>7. QED
    BY <1>1, <1>3, <1>4, <1>5, <1>6, PhaseUp, PhaseUpNext DEF Follows, Phase, Stays

LEMMA OnReadFollows == ASSUME IInv, NEW s \in Sessions, OnRead(s) PROVE Follows(s)
  <1>1. Reading(s) /\ Tail(pending[s]) = <<>>
    BY ReadingOf DEF OnRead
  <1>2. pending' = [pending EXCEPT ![s] = <<>>]
    BY <1>1, One DEF OnRead, Then, IInv, TypeOK
  <1>3. /\ last' = [last EXCEPT ![s] = @ + 1] /\ last[s] + 1 \in Numbers
        /\ request' = [request EXCEPT ![s] = last[s] + 1]
        /\ strand' = [strand EXCEPT ![s] = "handling"]
        /\ UNCHANGED <<started, queued, answered>>
    BY DEF OnRead, IInv, TypeOK, Numbers
  <1>4. TypeOK'
    BY <1>2, <1>3, OpTypes DEF IInv, TypeOK
  <1>5. Alone(s)
    BY <1>2, <1>3 DEF Alone, IInv, TypeOK
  <1>6. Handling(s)'
    BY <1>1, <1>2, <1>3 DEF Reading, Handling, Owing, Quiet, IInv, TypeOK
  <1>7. Len(answered[s]) = last[s]
    BY <1>1 DEF Reading
  <1>8. QED
    BY <1>1, <1>3, <1>4, <1>5, <1>6, <1>7, PhaseUp, PhaseUpNext DEF Follows, Phase, Receives

\* A session whose stream falls silent is over.
LEMMA Ends ==
  ASSUME IInv, NEW s \in Sessions, started[s], Quiet(s),
         NEW ops \in {<<>>, <<Plain("shutdown")>>}, pending' = [pending EXCEPT ![s] = ops],
         UNCHANGED <<started, strand, request, last, queued, answered>>
  PROVE  Follows(s)
  <1>1. ops \in Seq(Operations)
    BY OpTypes
  <1>2. TypeOK'
    BY <1>1 DEF IInv, TypeOK
  <1>3. Alone(s)
    BY DEF Alone, IInv, TypeOK
  <1>4. Over(s)'
    BY DEF Over, Quiet, IInv, TypeOK
  <1>5. Up(s) \/ ~Up(s)
    OBVIOUS
  <1>6. QED
    BY <1>2, <1>3, <1>4, <1>5, PhaseUpNext DEF Follows, Phase, Stays, Drops

LEMMA ClosingOps ==
  ASSUME NEW s \in Sessions
  PROVE  Closing(s) \in {<<>>, <<Plain("shutdown")>>} /\ <<>> \o Closing(s) = Closing(s)
  BY One DEF Closing

LEMMA OnReadEndFollows ==
  ASSUME IInv, NEW s \in Sessions, OnReadEnd(s) PROVE Follows(s)
  <1>1. Reading(s) /\ Tail(pending[s]) = <<>>
    BY ReadingOf DEF OnReadEnd
  <1>2. pending' = [pending EXCEPT ![s] = Closing(s)]
    BY <1>1, ClosingOps DEF OnReadEnd, Then, IInv, TypeOK
  <1>3. started[s] /\ Quiet(s)
    BY <1>1 DEF Reading
  <1>4. QED
    BY <1>2, <1>3, ClosingOps, Ends DEF OnReadEnd

\* An operation is in progress in three phases.
LEMMA OneInProgress ==
  ASSUME IInv, NEW s \in Sessions, strand[s] = "free", pending[s] # <<>>
  PROVE  /\ Reading(s) \/ Writing(s) \/ Over(s)
         /\ started[s] /\ Quiet(s) /\ Tail(pending[s]) = <<>>
  <1>1. Reading(s) \/ Writing(s) \/ Over(s)
    BY DEF IInv, Fresh, Handling, Tasked
  <1>2. started[s] /\ Quiet(s)
    BY <1>1 DEF Reading, Writing, Over, Owing, Quiet
  <1>3. Tail(pending[s]) = <<>>
    BY <1>1, One DEF Reading, Writing, Over
  <1>4. QED
    BY <1>1, <1>2, <1>3

LEMMA OnErrorFollows == ASSUME IInv, NEW s \in Sessions, OnError(s) PROVE Follows(s)
  <1>1. started[s] /\ Quiet(s) /\ Tail(pending[s]) = <<>>
    BY OneInProgress DEF OnError
  <1>2. pending' = [pending EXCEPT ![s] = <<>>]
    BY <1>1, One DEF OnError, Then, IInv, TypeOK
  <1>3. QED
    BY <1>1, <1>2, Ends DEF OnError

LEMMA OnCloseFollows == ASSUME IInv, NEW s \in Sessions, OnClose(s) PROVE Follows(s)
  <1>1. started[s] /\ Quiet(s) /\ Tail(pending[s]) = <<>>
    BY OneInProgress DEF OnClose, Completes
  <1>2. pending' = [pending EXCEPT ![s] = <<>>]
    BY <1>1, One DEF OnClose, Then, IInv, TypeOK
  <1>3. QED
    BY <1>1, <1>2, Ends DEF OnClose

LEMMA ReplyFollows == ASSUME IInv, NEW s \in Sessions, Reply(s) PROVE Follows(s)
  <1>1. Handling(s)
    BY DEF IInv, Reply, Fresh, Reading, Tasked, Writing, Over, Quiet
  <1>2. PICK keep \in BOOLEAN :
          pending' = [pending EXCEPT ![s] = <<Write(last[s], last[s], keep)>>]
    <2>1. PICK keep \in BOOLEAN : Start(s, Write(request[s], request[s], keep))
      BY DEF Reply
    <2>2. pending[s] = <<>> /\ request[s] = last[s]
      BY <1>1 DEF Handling, Owing
    <2>3. Append(pending[s], Write(last[s], last[s], keep)) = <<Write(last[s], last[s], keep)>>
      BY <2>2, One
    <2>4. QED
      BY <2>1, <2>2, <2>3 DEF Start
  <1>3. /\ strand' = [strand EXCEPT ![s] = "free"]
        /\ UNCHANGED <<started, request, last, queued, answered>>
    BY DEF Reply
  <1>4. TypeOK'
    BY <1>2, <1>3, OpTypes DEF IInv, TypeOK
  <1>5. Alone(s)
    BY <1>2, <1>3 DEF Alone, IInv, TypeOK
  <1>6. Writing(s)'
    BY <1>1, <1>2, <1>3 DEF Writing, Handling, Owing, IInv, TypeOK
  <1>7. QED
    BY <1>1, <1>3, <1>4, <1>5, <1>6, PhaseUp, PhaseUpNext DEF Follows, Phase, Stays

LEMMA AddTaskFollows == ASSUME IInv, NEW s \in Sessions, AddTask(s) PROVE Follows(s)
  <1>1. Handling(s)
    BY DEF IInv, AddTask, Fresh, Reading, Tasked, Writing, Over, Quiet
  <1>2. queued' = [queued EXCEPT ![s] = {last[s]}] /\ last[s] \in Numbers
    BY <1>1 DEF AddTask, Handling, Owing, IInv, TypeOK
  <1>3. /\ strand' = [strand EXCEPT ![s] = "leaving"]
        /\ UNCHANGED <<started, pending, request, last, answered>>
    BY DEF AddTask
  <1>4. TypeOK'
    BY <1>2, <1>3 DEF IInv, TypeOK
  <1>5. Alone(s)
    BY <1>2, <1>3 DEF Alone, IInv, TypeOK
  <1>6. Tasked(s)'
    BY <1>1, <1>2, <1>3 DEF Tasked, Handling, Owing, IInv, TypeOK
  <1>7. QED
    BY <1>1, <1>3, <1>4, <1>5, <1>6, PhaseUp, PhaseUpNext DEF Follows, Phase, Stays

LEMMA LeaveFollows == ASSUME IInv, NEW s \in Sessions, Leave(s) PROVE Follows(s)
  <1>1. Tasked(s) \/ Writing(s)
    BY DEF IInv, Leave, Fresh, Reading, Handling, Over, Quiet
  <1>2. /\ strand' = [strand EXCEPT ![s] = "free"]
        /\ UNCHANGED <<started, pending, request, last, queued, answered>>
    BY DEF Leave
  <1>3. TypeOK' /\ Alone(s)
    BY <1>2 DEF Alone, IInv, TypeOK
  <1>4. Tasked(s)' \/ Writing(s)'
    BY <1>1, <1>2 DEF Tasked, Writing, Owing, IInv, TypeOK
  <1>5. QED
    BY <1>1, <1>2, <1>3, <1>4, PhaseUp, PhaseUpNext DEF Follows, Phase, Stays

LEMMA CallbackFollows == ASSUME IInv, NEW s \in Sessions, Callback(s) PROVE Follows(s)
  <1>1. PICK r \in queued[s], keep \in BOOLEAN :
          /\ queued' = [queued EXCEPT ![s] = @ \ {r}]
          /\ pending' = [pending EXCEPT ![s] = Append(@, Write(r, request[s], keep))]
    BY DEF Callback, Start
  <1>2. Tasked(s)
    BY <1>1 DEF IInv, Fresh, Reading, Handling, Writing, Over, Quiet
  <1>3. r = last[s] /\ request[s] = last[s] /\ last[s] \in Numbers
    BY <1>1, <1>2 DEF Tasked, Owing, IInv, TypeOK
  <1>4. /\ queued' = [queued EXCEPT ![s] = {}]
        /\ pending' = [pending EXCEPT ![s] = <<Write(last[s], last[s], keep)>>]
    BY <1>1, <1>2, <1>3, One DEF Tasked, IInv, TypeOK
  <1>5. UNCHANGED <<started, strand, request, last, answered>>
    BY DEF Callback
  <1>6. TypeOK'
    BY <1>3, <1>4, <1>5, OpTypes DEF IInv, TypeOK
  <1>7. Alone(s)
    BY <1>4, <1>5 DEF Alone, IInv, TypeOK
  <1>8. Writing(s)'
    BY <1>2, <1>4, <1>5 DEF Writing, Tasked, Owing, IInv, TypeOK
  <1>9. QED
    BY <1>2, <1>5, <1>6, <1>7, <1>8, PhaseUp, PhaseUpNext DEF Follows, Phase, Stays

LEMMA OnWriteFollows == ASSUME IInv, NEW s \in Sessions, OnWrite(s) PROVE Follows(s)
  <1>1. /\ pending[s] # <<>> /\ Head(pending[s]).op = "write" /\ strand[s] = "free"
        /\ Quiet(s) /\ Tail(pending[s]) = <<>>
    BY OneInProgress DEF OnWrite, Completes
  <1>2. Writing(s)
    <2>1. ~Reading(s) /\ ~Over(s)
      BY <1>1, One DEF Reading, Over, Plain
    <2>2. QED
      BY <1>1, <2>1, OneInProgress
  <1>3. Head(pending[s]).answers = last[s] /\ last[s] \in Numbers
    BY <1>2, One, OpTypes DEF Writing, IInv, TypeOK
  <1>4. /\ answered' = [answered EXCEPT ![s] = Append(@, last[s])]
        /\ UNCHANGED <<started, strand, last, queued>>
    BY <1>3 DEF OnWrite
  <1>5. PICK ops \in {<<>>, <<Plain("read")>>, <<Plain("shutdown")>>}, q \in Numbers :
          /\ pending' = [pending EXCEPT ![s] = ops]
          /\ request' = [request EXCEPT ![s] = q]
    <2>1. CASE Head(pending[s]).keep
      <3>1. pending' = [pending EXCEPT ![s] = <<Plain("read")>>]
            /\ request' = [request EXCEPT ![s] = 0]
        <4>1. Then(s, <<Plain("read")>>) /\ request' = [request EXCEPT ![s] = 0]
          BY <2>1 DEF OnWrite
        <4>2. Tail(pending[s]) \o <<Plain("read")>> = <<Plain("read")>>
          BY <1>1, One
        <4>3. QED
          BY <4>1, <4>2 DEF Then
      <3>2. 0 \in Numbers
        BY DEF Numbers
      <3>3. QED
        BY <3>1, <3>2
    <2>2. CASE ~Head(pending[s]).keep
      <3>1. pending' = [pending EXCEPT ![s] = Closing(s)] /\ request' = request
        BY <1>1, <2>2, ClosingOps DEF OnWrite, Then, IInv, TypeOK
      <3>2. request' = [request EXCEPT ![s] = request[s]] /\ request[s] \in Numbers
        BY <3>1 DEF IInv, TypeOK
      <3>3. QED
        BY <3>1, <3>2, ClosingOps
    <2>3. QED
      BY <2>1, <2>2
  <1>6. /\ Len(answered[s]) + 1 = last[s] /\ Len(answered[s]) \in Nat
        /\ Append(answered[s], last[s]) \in Seq(Numbers)
        /\ Len(Append(answered[s], last[s])) = last[s]
    BY <1>2, <1>3 DEF Writing, Owing, IInv, TypeOK, Numbers
  <1>7. TypeOK'
    <2>1. ops \in Seq(Operations)
      BY OpTypes
    <2>2. QED
      BY <1>4, <1>5, <1>6, <2>1 DEF IInv, TypeOK
  <1>8. Alone(s)
    BY <1>4, <1>5 DEF Alone, IInv, TypeOK
  <1>9. started[s]' /\ Quiet(s)' /\ Len(answered[s])' = last[s]' /\ pending'[s] = ops
    BY <1>1, <1>2, <1>4, <1>5, <1>6 DEF Quiet, Writing, Owing, IInv, TypeOK
  <1>10. Reading(s)' \/ Over(s)'
    BY <1>5, <1>9 DEF Reading, Over
  <1>11. Responds(s)
    BY <1>2, <1>4, <1>6, PhaseUp DEF Responds
  <1>12. QED
    BY <1>7, <1>8, <1>10, <1>11 DEF Follows, Phase

-----------------------------------------------------------------------------
LEMMA InitIInv == Init => IInv
  BY OpTypes DEF Init, IInv, TypeOK, Numbers, Fresh, Quiet

\* Every step is a step of one session that Follows describes.
LEMMA NextFollows == ASSUME IInv, Next PROVE \E s \in Sessions : Follows(s)
  BY RunFollows, OnHandshakeFollows, OnReadFollows, OnReadEndFollows, OnErrorFollows,
     ReplyFollows, AddTaskFollows, LeaveFollows, CallbackFollows, OnWriteFollows,
     OnCloseFollows DEF Next, Handle

LEMMA NextIInv == IInv /\ [Next]_vars => IInv'
  <1>1. ASSUME IInv, Next PROVE IInv'
    <2>1. PICK s \in Sessions : Follows(s)
      BY <1>1, NextFollows
    <2>2. QED
      BY <1>1, <2>1, Frame DEF Follows
  <1>2. ASSUME IInv, UNCHANGED vars PROVE IInv'
    BY <1>2 DEF vars, IInv, TypeOK, Fresh, Reading, Handling, Tasked, Writing, Over,
                Owing, Quiet
  <1>3. QED
    BY <1>1, <1>2

\* The inductive invariant of the sessions holds in every state.
THEOREM Invariance == Spec => []IInv
  BY InitIInv, NextIInv, PTL DEF Spec

\* One operation, one undecided handler or one task at a time.
THEOREM NeverTwoAtATime == Spec => []OneAtATime
  <1>1. ASSUME IInv PROVE OneAtATime
    <2> SUFFICES ASSUME NEW s \in Sessions
                 PROVE  /\ Len(pending[s]) <= 1
                        /\ strand[s] = "handling" => pending[s] = <<>> /\ queued[s] = {}
                        /\ queued[s] # {} => pending[s] = <<>>
      BY DEF OneAtATime
    <2>1. Phase(s)
      BY <1>1 DEF IInv, Phase
    <2>2. pending[s] = <<>> \/ \E x : pending[s] = <<x>>
      BY <2>1 DEF Phase, Fresh, Reading, Handling, Tasked, Writing, Over
    <2>3. Len(pending[s]) <= 1
      <3>1. CASE pending[s] = <<>>
        BY <3>1, One
      <3>2. ASSUME NEW x, pending[s] = <<x>> PROVE Len(pending[s]) <= 1
        <4>1. Len(<<x>>) = 1
          BY One
        <4>2. QED
          BY <3>2, <4>1
      <3>3. QED
        BY <2>2, <3>1, <3>2
    <2>4. QED
      BY <2>1, <2>3 DEF Phase, Fresh, Reading, Handling, Tasked, Writing, Over, Owing, Quiet
  <1>2. QED
    BY <1>1, Invariance, PTL

\* The head of a response comes from the request that it answers.
THEOREM RightHead == Spec => []HeadOfItsRequest
  <1>1. ASSUME IInv PROVE HeadOfItsRequest
    <2> SUFFICES ASSUME NEW s \in Sessions, NEW i \in 1 .. Len(pending[s]),
                        pending[s][i].op = "write"
                 PROVE  /\ pending[s][i].answers = pending[s][i].head
                        /\ pending[s][i].head = last[s]
      BY DEF HeadOfItsRequest
    <2>1. Phase(s) /\ last[s] \in Numbers
      BY <1>1 DEF IInv, TypeOK, Phase
    <2>2. \A x : pending[s] = <<x>> => i = 1 /\ pending[s][i] = x
      BY One
    <2>3. pending[s] # <<>>
      BY One
    <2>4. Writing(s)
      BY <2>1, <2>2, <2>3 DEF Phase, Fresh, Reading, Handling, Tasked, Over, Plain
    <2>5. QED
      BY <2>1, <2>2, <2>4, OpTypes DEF Writing
  <1>2. QED
    BY <1>1, Invariance, PTL

\* The sessions implement the exchange: requests are taken one at a time,
\* and answered once and in order.
THEOREM Implements == Spec => ImplementsExchange
  <1> DEFINE up == [s \in Sessions |-> Up(s)]
  <1>1. Init => Promise!Init
    <2> SUFFICES ASSUME Init PROVE Promise!Init
      OBVIOUS
    <2>1. \A s \in Sessions : Up(s) = TRUE
      BY DEF Init, Up
    <2>2. QED
      BY <2>1 DEF Init, Promise!Init
  <1>2. IInv /\ [Next]_vars => [Promise!Next]_(Promise!xvars)
    <2>1. ASSUME IInv, Next PROVE [Promise!Next]_(Promise!xvars)
      <3>1. PICK s \in Sessions : Follows(s)
        BY <2>1, NextFollows
      <3>2. \A t \in Sessions \ {s} : Up(t) <=> Up(t)'
        BY <2>1, <3>1, Frame DEF Follows
      <3>3. \A t \in Sessions : Up(t) \in BOOLEAN /\ Up(t)' \in BOOLEAN
        BY DEF Up
      <3>4. CASE Stays(s)
        <4>1. up' = up
          BY <3>2, <3>3, <3>4 DEF Stays
        <4>2. QED
          BY <3>4, <4>1 DEF Stays, Promise!xvars
      <3>5. CASE Receives(s)
        <4>1. up' = up
          BY <3>2, <3>3, <3>5 DEF Receives
        <4>2. Promise!Receive(s)
          BY <3>5, <4>1 DEF Receives, Promise!Receive
        <4>3. QED
          BY <4>2 DEF Promise!Next
      <3>6. CASE Responds(s)
        <4>1. up' = [up EXCEPT ![s] = Up(s)']
          BY <3>2, <3>3
        <4>2. Promise!Respond(s)
          BY <3>3, <3>6, <4>1 DEF Responds, Promise!Respond
        <4>3. QED
          BY <4>2 DEF Promise!Next
      <3>7. CASE Drops(s)
        <4>1. up' = [up EXCEPT ![s] = FALSE]
          BY <3>2, <3>3, <3>7 DEF Drops
        <4>2. Promise!Drop(s)
          BY <3>7, <4>1 DEF Drops, Promise!Drop
        <4>3. QED
          BY <4>2 DEF Promise!Next
      <3>8. QED
        BY <3>1, <3>4, <3>5, <3>6, <3>7 DEF Follows
    <2>2. ASSUME UNCHANGED vars PROVE UNCHANGED Promise!xvars
      BY <2>2 DEF vars, Promise!xvars, Up
    <2>3. QED
      BY <2>1, <2>2
  <1>3. QED
    BY <1>1, <1>2, Invariance, PTL DEF Spec, ImplementsExchange, Promise!Spec

-----------------------------------------------------------------------------
(* The web server.  First its loops: the counter that is there to stop      *)
(* them is below zero by the loops that have taken it down and not yet put  *)
(* it back, so that each of them finds that it may go on.                   *)

LEMMA InitLoops == ServerInit => LoopsIInv
  <1> SUFFICES ASSUME ServerInit PROVE LoopsIInv
    OBVIOUS
  <1>1. Between = {}
    BY DEF ServerInit, Between
  <1>2. toStop = -Cardinality(Between)
    BY <1>1, FS_EmptySet DEF ServerInit
  <1>3. QED
    BY <1>2 DEF ServerInit, LoopsIInv, Places, OnlyFailuresEnd

\* How many loops are in between, however they move.
LEMMA CountBetween ==
  /\ Cardinality(Between) \in Nat
  /\ \A l \in Loops : /\ l \notin Between => Cardinality(Between \cup {l}) = Cardinality(Between) + 1
                      /\ l \in Between => Cardinality(Between \ {l}) = Cardinality(Between) - 1
  <1>1. IsFiniteSet(Between)
    BY LoopsAssumption, FS_Subset DEF Between
  <1>2. QED
    BY <1>1, FS_CardinalityType, FS_AddElement, FS_RemoveElement

\* A loop that goes from one place to another, neither in between.
LEMMA Passes ==
  ASSUME LoopsIInv, NEW l \in Loops, NEW from \in Places \ {"counted"},
         NEW to \in Places \ {"counted"}, Goto(l, from, to), UNCHANGED toStop,
         failed \subseteq failed', to = "over" => l \in failed', backlog' \in Seq(Sessions)
  PROVE  LoopsIInv'
  <1>1. loop' \in [Loops -> Places]
    BY DEF LoopsIInv, Goto
  <1>2. Between' = Between
    BY DEF LoopsIInv, Goto, Between
  <1>3. toStop' = -Cardinality(Between')
    BY <1>2 DEF LoopsIInv
  <1>4. OnlyFailuresEnd'
    BY DEF LoopsIInv, Goto, OnlyFailuresEnd
  <1>5. QED
    BY <1>1, <1>3, <1>4 DEF LoopsIInv

LEMMA CountKeeps == ASSUME LoopsIInv, NEW l \in Loops, Count(l) PROVE LoopsIInv'
  <1>1. toStop <= 0 /\ toStop = -Cardinality(Between) /\ Cardinality(Between) \in Nat
    BY CountBetween DEF LoopsIInv
  <1>2. loop[l] = "accepted" /\ loop' = [loop EXCEPT ![l] = "counted"] /\ toStop' = toStop - 1
        /\ UNCHANGED <<backlog, failed>>
    BY <1>1 DEF Count, Goto, clients
  <1>3. l \notin Between /\ Between' = Between \cup {l}
    BY <1>2 DEF LoopsIInv, Between
  <1>4. toStop' = -Cardinality(Between')
    BY <1>1, <1>2, <1>3, CountBetween
  <1>5. loop' \in [Loops -> Places] /\ OnlyFailuresEnd'
    BY <1>2 DEF LoopsIInv, Places, OnlyFailuresEnd
  <1>6. QED
    BY <1>2, <1>4, <1>5 DEF LoopsIInv

LEMMA RestoreKeeps == ASSUME LoopsIInv, NEW l \in Loops, Restore(l) PROVE LoopsIInv'
  <1>1. toStop = -Cardinality(Between) /\ Cardinality(Between) \in Nat
    BY CountBetween DEF LoopsIInv
  <1>2. loop[l] = "counted" /\ loop' = [loop EXCEPT ![l] = "again"] /\ toStop' = toStop + 1
        /\ UNCHANGED <<backlog, failed>>
    BY DEF Restore, Goto, clients
  <1>3. l \in Between /\ Between' = Between \ {l}
    BY <1>2 DEF LoopsIInv, Between
  <1>4. toStop' = -Cardinality(Between')
    BY <1>1, <1>2, <1>3, CountBetween
  <1>5. loop' \in [Loops -> Places] /\ OnlyFailuresEnd'
    BY <1>2 DEF LoopsIInv, Places, OnlyFailuresEnd
  <1>6. QED
    BY <1>2, <1>4, <1>5 DEF LoopsIInv

LEMMA StepLoops == LoopsIInv /\ [ServerNext]_serverVars => LoopsIInv'
  <1> SUFFICES ASSUME LoopsIInv, [ServerNext]_serverVars PROVE LoopsIInv'
    OBVIOUS
  <1>1. ASSUME UNCHANGED loops, backlog' \in Seq(Sessions) PROVE LoopsIInv'
    BY <1>1 DEF loops, LoopsIInv, Between, OnlyFailuresEnd
  <1>2. ASSUME NEW s \in Sessions, Connect(s) PROVE LoopsIInv'
    BY <1>1, <1>2 DEF Connect, LoopsIInv
  <1>3. ASSUME NEW s \in Sessions, Serve(s) PROVE LoopsIInv'
    BY <1>1, <1>3 DEF Serve, clients, LoopsIInv
  <1>4. ASSUME NEW l \in Loops, AddTasks(l) PROVE LoopsIInv'
    BY <1>4, Passes DEF AddTasks, clients, Places, LoopsIInv
  <1>5. ASSUME NEW l \in Loops, OnAccept(l) PROVE LoopsIInv'
    <2>1. backlog' \in Seq(Sessions)
      BY <1>5 DEF OnAccept, LoopsIInv
    <2>2. QED
      BY <1>5, <2>1, Passes DEF OnAccept, Places
  <1>6. ASSUME NEW l \in Loops, AcceptFails(l) PROVE LoopsIInv'
    <2>1. backlog' \in Seq(Sessions)
      BY <1>6 DEF AcceptFails, LoopsIInv
    <2>2. failed \subseteq failed' /\ l \in failed'
      BY <1>6 DEF AcceptFails
    <2>3. QED
      BY <1>6, <2>1, <2>2, Passes DEF AcceptFails, Places
  <1>7. ASSUME NEW l \in Loops, DoAccept(l) PROVE LoopsIInv'
    BY <1>7, Passes DEF DoAccept, clients, Places, LoopsIInv
  <1>8. ASSUME UNCHANGED serverVars PROVE LoopsIInv'
    BY <1>1, <1>8 DEF serverVars, loops, clients, LoopsIInv
  <1>9. QED
    BY <1>2, <1>3, <1>4, <1>5, <1>6, <1>7, <1>8, CountKeeps, RestoreKeeps
       DEF ServerNext, Accept

THEOREM LoopsInvariance == ServerSpec => []LoopsIInv
  BY InitLoops, StepLoops, PTL DEF ServerSpec

\* A loop ends by a failure of its own, never by the counter, however many
\* loops take it down at a time.
THEOREM CounterStopsNone == ServerSpec => []OnlyFailuresEnd
  BY LoopsInvariance, PTL DEF LoopsIInv

\* The web server makes the sessions run and leaves them to themselves
\* otherwise: what they guarantee alone they guarantee in it.
THEOREM ServerRunsSessions == ServerSpec => Spec
  <1>1. ServerInit => Init
    BY DEF ServerInit
  <1>2. LoopsIInv /\ [ServerNext]_serverVars => [Next]_vars
    <2> SUFFICES ASSUME LoopsIInv, [ServerNext]_serverVars PROVE [Next]_vars
      OBVIOUS
    <2>1. ASSUME NEW s \in Sessions, Connect(s) PROVE UNCHANGED vars
      BY <2>1 DEF Connect
    <2>2. ASSUME NEW s \in Sessions, Serve(s) PROVE Next
      BY <2>2 DEF Serve, Next
    <2>3. ASSUME NEW l \in Loops, OnAccept(l) PROVE Next
      <3>1. Head(backlog) \in Sessions
        BY <2>3 DEF OnAccept, LoopsIInv
      <3>2. QED
        BY <2>3, <3>1 DEF OnAccept, Next
    <2>4. ASSUME NEW l \in Loops, AddTasks(l) \/ Count(l) \/ Restore(l) \/ DoAccept(l)
          PROVE  UNCHANGED vars
      BY <2>4 DEF AddTasks, Count, Restore, DoAccept
    <2>5. ASSUME NEW l \in Loops, AcceptFails(l) PROVE UNCHANGED vars
      BY <2>5 DEF AcceptFails
    <2>6. ASSUME UNCHANGED serverVars PROVE UNCHANGED vars
      BY <2>6 DEF serverVars
    <2>7. QED
      BY <2>1, <2>2, <2>3, <2>4, <2>5, <2>6 DEF ServerNext, Accept
  <1>3. QED
    BY <1>1, <1>2, LoopsInvariance, PTL DEF ServerSpec, Spec

\* In the server too a session does one thing at a time, heads a response
\* from its own request, and answers once and in order.
THEOREM ServedInOrder ==
  ServerSpec => [](OneAtATime /\ HeadOfItsRequest) /\ ImplementsExchange
  BY ServerRunsSessions, NeverTwoAtATime, RightHead, Implements, PTL
=============================================================================
