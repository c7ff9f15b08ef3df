----------------------------- MODULE WebServer -----------------------------
(***************************************************************************)
(* The web server: the loops that accept connections (listener.cpp), which *)
(* its constructor starts (server.cpp), composed with the sessions that    *)
(* they make (Session).                                                    *)
(*                                                                         *)
(* A loop is one async_accept after another.  Its handlers run on any of   *)
(* the io threads, so that those of several loops run at a time; they      *)
(* share the counter of the loops to stop.  A handler that throws ends its *)
(* loop: the io thread catches it and nothing accepts in its place.        *)
(*                                                                         *)
(* The settings are given once, to the constructor: loops are added and    *)
(* never taken away.                                                       *)
(***************************************************************************)
EXTENDS Session, Integers, FiniteSets

CONSTANT Loops  \* as many as the settings give workers

ASSUME LoopsAssumption == IsFiniteSet(Loops)

VARIABLES loop,     \* where each loop is
          toStop,   \* m_tasksToStopCount
          backlog,  \* the clients that wait to be accepted, in order
          came,     \* the clients that have come (history)
          failed    \* the loops that a failure has ended (history)

loops == <<loop, toStop, failed>>
clients == <<backlog, came>>

ServerInit ==
  /\ Init
  /\ loop = [l \in Loops |-> "new"] /\ toStop = 0
  /\ backlog = <<>> /\ came = {} /\ failed = {}

-----------------------------------------------------------------------------
Goto(l, from, to) == loop[l] = from /\ loop' = [loop EXCEPT ![l] = to]

\* A client connects to the listening socket.
Connect(s) ==
  /\ s \notin came /\ came' = came \cup {s}
  /\ backlog' = Append(backlog, s)
  /\ UNCHANGED <<vars, loops>>

\* AddTasks, after the io threads were started.
AddTasks(l) ==
  /\ Goto(l, "new", "accepting")
  /\ UNCHANGED <<vars, clients, toStop, failed>>

\* OnAccept: the session is made and runs ...
OnAccept(l) ==
  /\ backlog # <<>> /\ Goto(l, "accepting", "accepted")
  /\ backlog' = Tail(backlog)
  /\ Run(Head(backlog))
  /\ UNCHANGED <<came, toStop, failed>>

\* ... or the accept fails, or the session throws and its client is lost.
AcceptFails(l) ==
  /\ Goto(l, "accepting", "over") /\ failed' = failed \cup {l}
  /\ \/ UNCHANGED backlog
     \/ backlog # <<>> /\ backlog' = Tail(backlog)
  /\ UNCHANGED <<vars, came, toStop>>

\* Mistaken: the loop goes on only if the counter is zero.
WrongCount(l) ==
  /\ Goto(l, "accepted", IF toStop = 0 THEN "counted" ELSE "over")
  /\ toStop' = toStop - 1
  /\ UNCHANGED <<vars, clients, failed>>

\* The counter is taken down to see whether it was positive ...
Count(l) ==
  /\ Goto(l, "accepted", IF toStop <= 0 THEN "counted" ELSE "over")
  /\ toStop' = toStop - 1
  /\ UNCHANGED <<vars, clients, failed>>

\* ... and put back if it was not, ...
Restore(l) ==
  /\ Goto(l, "counted", "again") /\ toStop' = toStop + 1
  /\ UNCHANGED <<vars, clients, failed>>

\* ... before the loop accepts again.
DoAccept(l) ==
  /\ Goto(l, "again", "accepting")
  /\ UNCHANGED <<vars, clients, toStop, failed>>

Accept(l) == AddTasks(l) \/ OnAccept(l) \/ Count(l) \/ Restore(l) \/ DoAccept(l)

\* What the sessions do once they run.
Serve(s) ==
  /\ started[s]
  /\ \/ OnHandshake(s) \/ OnRead(s) \/ OnReadEnd(s) \/ OnError(s)
     \/ Handle(s) \/ Callback(s) \/ OnWrite(s) \/ OnClose(s)
  /\ UNCHANGED <<loops, clients>>

ServerNext ==
  \/ \E s \in Sessions : Connect(s) \/ Serve(s)
  \/ \E l \in Loops : Accept(l) \/ AcceptFails(l)

serverVars == <<vars, loops, clients>>

\* A loop whose accept can complete, or whose handler runs, goes on.
ServerSpec == /\ ServerInit /\ [][ServerNext]_serverVars
              /\ Fairness /\ \A l \in Loops : WF_serverVars(Accept(l))

-----------------------------------------------------------------------------
\* However the handlers share the counter, a loop stops only by a failure of
\* its own, and a client that has connected is served or refused as long as
\* there is a loop.
EveryClientIsTaken ==
  /\ \A l \in Loops : loop[l] # "accepting" ~> loop[l] = "accepting" \/ l \in failed
  /\ \A s \in Sessions :
       (\E i \in DOMAIN backlog : backlog[i] = s)
         ~> \/ \A i \in DOMAIN backlog : backlog[i] # s
            \/ failed = Loops

\* The counter that is there to stop loops stops none: it is taken down and
\* put back in two steps, but whatever loops do so at a time, each of them
\* finds that it may go on.
OnlyFailuresEnd == \A l \in Loops : loop[l] = "over" => l \in failed

-----------------------------------------------------------------------------
\* What makes it so: the counter is below zero by the loops in between.
Between == {l \in Loops : loop[l] = "counted"}
Places == {"new", "accepting", "accepted", "counted", "again", "over"}

LoopsIInv == /\ loop \in [Loops -> Places]
             /\ toStop = -Cardinality(Between)
             /\ backlog \in Seq(Sessions)
             /\ OnlyFailuresEnd
=============================================================================
