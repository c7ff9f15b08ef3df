-------------------------- MODULE TraceWriterProofs --------------------------
(***************************************************************************)
(* Proofs about TraceWriter, for any threads, settings and bounds.         *)
(***************************************************************************)
EXTENDS TraceWriter, SequenceTheorems, TLAPS

\* Appending at the end of the last of three sequences appends to the whole.
LEMMA ConcatAppend ==
  ASSUME NEW S, NEW a \in Seq(S), NEW b \in Seq(S), NEW c \in Seq(S), NEW x \in S
  PROVE  a \o b \o Append(c, x) = Append(a \o b \o c, x)
  OBVIOUS

\* An element may move from the head of one sequence to the end of another.
LEMMA ConcatShift ==
  ASSUME NEW S, NEW a \in Seq(S), NEW b \in Seq(S), NEW c \in Seq(S), b # <<>>
  PROVE  Append(a, Head(b)) \o Tail(b) \o c = a \o b \o c
<1>1. Append(a, Head(b)) \o Tail(b) = a \o b
  OBVIOUS
<1> QED  BY <1>1

\* Whatever is queued moves to an empty batch.
LEMMA ConcatMove ==
  ASSUME NEW S, NEW a \in Seq(S), NEW c \in Seq(S)
  PROVE  a \o c \o << >> = a \o << >> \o c
  OBVIOUS

\* Nothing follows the only element.
LEMMA TailEmpty ==
  ASSUME NEW S, NEW b \in Seq(S), b # <<>>
  PROVE  Tail(b) = <<>> <=> Len(b) = 1
<1>1. Len(b) \in Nat \ {0} /\ Len(Tail(b)) = Len(b) - 1
  OBVIOUS
<1>2. Tail(b) \in Seq(S)
  OBVIOUS
<1>3. Tail(b) = <<>> <=> Len(Tail(b)) = 0
  BY <1>2, EmptySeq
<1> QED  BY <1>1, <1>3

\* The front and the last element of a nonempty sequence.
LEMMA FrontLast ==
  ASSUME NEW S, NEW s \in Seq(S), s # <<>>
  PROVE  Front(s) \in Seq(S) /\ Last(s) \in S
<1>1. Len(s) \in Nat \ {0}
  OBVIOUS
<1>2. \A i \in 1 .. Len(s) : s[i] \in S
  OBVIOUS
<1>3. Front(s) \in Seq(S)
  BY <1>1, <1>2 DEF Front
<1>4. Last(s) \in S
  BY <1>1, <1>2 DEF Last
<1> QED  BY <1>3, <1>4

\* The initial state satisfies the invariant.
LEMMA InitInv == Init => IInv
<1> SUFFICES ASSUME Init PROVE IInv
  OBVIOUS
<1>1. <<>> \in Seq(Indices) /\ 0 \in 0 .. MaxIndex
  BY TraceAssumption
<1>2. open \in [Producers -> Seq(Indices)]
  BY <1>1 DEF Init
<1>3. TypeOK
  BY <1>1, <1>2 DEF Init, TypeOK
<1>4. OnceInOrder
  BY DEF Init, OnceInOrder
<1>5. Ending
  BY DEF Init, Ending
<1> QED  BY <1>3, <1>4, <1>5 DEF IInv

\* A step of a thread that traces.
LEMMA TracingInv ==
  ASSUME IInv, NEW p \in Producers, StartCollecting(p) \/ Queue(p) \/ Notify(p)
  PROVE  IInv'
<1> USE TraceAssumption DEF IInv, writing, tracing
<1>1. CASE StartCollecting(p)
  <2>1. index + 1 \in Indices /\ index + 1 \in 0 .. MaxIndex
    BY <1>1 DEF StartCollecting, TypeOK, Indices
  <2>2. open' \in [Producers -> Seq(Indices)]
    BY <1>1, <2>1 DEF StartCollecting, TypeOK
  <2>3. TypeOK'
    BY <1>1, <2>1, <2>2 DEF StartCollecting, TypeOK
  <2>4. OnceInOrder'
    BY <1>1 DEF StartCollecting, OnceInOrder
  <2>5. Ending'
    BY <1>1 DEF StartCollecting, Ending
  <2> QED  BY <2>3, <2>4, <2>5
<1>2. CASE Queue(p)
  <2>1. open[p] \in Seq(Indices) /\ open[p] # <<>>
    BY <1>2 DEF Queue, TypeOK
  <2>2. Collected(p) \in Indices /\ Front(open[p]) \in Seq(Indices)
    BY <2>1, FrontLast DEF Collected
  <2>3. TypeOK'
    BY <1>2, <2>2 DEF Queue, TypeOK
  <2>4. out \in Seq(Indices) /\ batch \in Seq(Indices) /\ queue \in Seq(Indices)
    BY DEF TypeOK
  <2>5. OnceInOrder'
    <3>1. /\ out' = out /\ batch' = batch
          /\ queue' = Append(queue, Collected(p)) /\ sent' = Append(sent, Collected(p))
      BY <1>2 DEF Queue
    <3>2. out \o batch \o Append(queue, Collected(p)) = Append(out \o batch \o queue, Collected(p))
      BY <2>2, <2>4, ConcatAppend
    <3> QED  BY <3>1, <3>2 DEF OnceInOrder
  <2>6. owner = "none" /\ ~stop
    BY <1>2 DEF Queue, Ending
  <2>7. Ending'
    BY <1>2, <2>6 DEF Queue, Ending
  <2> QED  BY <2>3, <2>5, <2>7
<1>3. CASE Notify(p)
  <2>1. TypeOK'
    BY <1>3 DEF Notify, Woken, TypeOK
  <2>2. OnceInOrder'
    BY <1>3 DEF Notify, OnceInOrder
  <2>3. Ending'
    BY <1>3 DEF Notify, Woken, Ending
  <2> QED  BY <2>1, <2>2, <2>3
<1> QED  BY <1>1, <1>2, <1>3

\* Taking the whole queue keeps the order, when the batch is written.
LEMMA TakeAllInv ==
  ASSUME IInv, TakeAll, writer \in {"top", "asleep", "awake"},
         UNCHANGED <<configured, tracing, stop, out, lost, sent, owner>>, least' \in Nat
  PROVE  IInv'
<1> USE DEF IInv, TakeAll, Opened, tracing
<1>1. batch = <<>>
  BY DEF Ending
<1>2. out \in Seq(Indices) /\ queue \in Seq(Indices)
  BY DEF TypeOK
<1>3. OnceInOrder'
  BY <1>1, <1>2, ConcatMove DEF OnceInOrder
<1>4. TypeOK'
  BY DEF TypeOK
<1>5. Ending'
  BY <1>2 DEF Ending
<1> QED  BY <1>3, <1>4, <1>5

\* A step of the writer's thread.
LEMMA RunInv ==
  ASSUME IInv, Run
  PROVE  IInv'
<1> USE TraceAssumption DEF IInv
<1>1. CASE Top
  <2> PICK n \in LeastNow :
        /\ least' = n
        /\ IF stop /\ queue = <<>> THEN writer' = "ended" /\ UNCHANGED <<queue, batch, good>>
           ELSE IF Enough(n) THEN TakeAll
           ELSE writer' = "block" /\ UNCHANGED <<queue, batch, good>>
    BY <1>1 DEF Top
  <2>1. n \in Nat
    BY DEF LeastNow
  <2>2. writer = "top" /\ UNCHANGED <<configured, tracing, stop, out, lost, sent, owner>>
    BY <1>1 DEF Top
  <2>3. CASE TakeAll
    BY <2>1, <2>2, <2>3, TakeAllInv
  <2>4. CASE ~TakeAll
    <3>1. /\ UNCHANGED <<queue, batch, good>>
          /\ writer' = "block" \/ (writer' = "ended" /\ stop /\ queue = <<>>)
      BY <2>4
    <3>2. TypeOK'
      BY <2>1, <2>2, <3>1 DEF TypeOK, tracing
    <3>3. OnceInOrder'
      BY <2>2, <3>1 DEF OnceInOrder
    <3>4. Ending'
      BY <2>2, <3>1 DEF Ending, tracing
    <3> QED  BY <3>2, <3>3, <3>4
  <2> QED  BY <2>3, <2>4
<1>2. CASE Sleep
  BY <1>2 DEF Sleep, TypeOK, OnceInOrder, Ending, tracing, writing
<1>3. CASE Wake
  <2>1. /\ writer \in {"top", "asleep", "awake"} /\ least' \in Nat
        /\ UNCHANGED <<configured, tracing, stop, out, lost, sent, owner>>
    BY <1>3 DEF Wake, TypeOK
  <2>2. CASE TakeAll
    BY <2>1, <2>2, TakeAllInv
  <2>3. CASE writer' = "block" /\ UNCHANGED <<queue, batch, good>>
    BY <1>3, <2>1, <2>3 DEF Wake, TypeOK, OnceInOrder, Ending, tracing
  <2> QED  BY <1>3, <2>2, <2>3 DEF Wake
<1>4. CASE Timeout
  BY <1>4, TakeAllInv DEF Timeout, TypeOK
<1>5. CASE Process
  <2>1. out \in Seq(Indices) /\ batch \in Seq(Indices) /\ queue \in Seq(Indices) /\ batch # <<>>
    BY <1>5 DEF Process, TypeOK
  <2>2. Head(batch) \in Indices /\ Tail(batch) \in Seq(Indices)
    BY <2>1
  <2>3. TypeOK'
    BY <1>5, <2>1, <2>2 DEF Process, TypeOK, tracing
  <2>4. OnceInOrder'
    <3>1. /\ out' = Append(out, Head(batch)) /\ batch' = Tail(batch)
          /\ queue' = queue /\ sent' = sent
      BY <1>5 DEF Process
    <3>2. Append(out, Head(batch)) \o Tail(batch) \o queue = out \o batch \o queue
      BY <2>1, ConcatShift
    <3> QED  BY <3>1, <3>2 DEF OnceInOrder
  <2>5. Tail(batch) = <<>> <=> Len(batch) = 1
    BY <2>1, TailEmpty
  <2>6. Ending'
    BY <1>5, <2>5 DEF Process, Ending, tracing
  <2> QED  BY <2>3, <2>4, <2>6
<1> QED  BY <1>1, <1>2, <1>3, <1>4, <1>5 DEF Run

\* A step of the tracer's owner.
LEMMA OwnerInv ==
  ASSUME IInv, SetSettings \/ Destroy \/ NotifyStop \/ Join
  PROVE  IInv'
<1> USE DEF IInv, tracing, writing
<1>1. CASE SetSettings
  BY <1>1 DEF SetSettings, TypeOK, OnceInOrder, Ending
<1>2. CASE Destroy
  <2>1. TypeOK'
    BY <1>2 DEF Destroy, TypeOK
  <2>2. OnceInOrder'
    BY <1>2 DEF Destroy, OnceInOrder
  <2>3. Ending'
    BY <1>2 DEF Destroy, Ending
  <2> QED  BY <2>1, <2>2, <2>3
<1>3. CASE NotifyStop
  BY <1>3 DEF NotifyStop, Woken, TypeOK, OnceInOrder, Ending
<1>4. CASE Join
  BY <1>4 DEF Join, TypeOK, OnceInOrder, Ending
<1> QED  BY <1>1, <1>2, <1>3, <1>4

\* The inductive invariant of the queue, the writer and its end
\* (trace_writer.cpp:23-128).
THEOREM Invariance == Spec => []IInv
<1>1. IInv /\ [Next]_vars => IInv'
  <2> SUFFICES ASSUME IInv, [Next]_vars PROVE IInv'
    OBVIOUS
  <2>1. CASE UNCHANGED vars
    BY <2>1 DEF vars, tracing, writing, IInv, TypeOK, OnceInOrder, Ending
  <2>2. CASE Next
    BY <2>2, TracingInv, RunInv, OwnerInv DEF Next
  <2> QED  BY <2>1, <2>2
<1> QED  BY InitInv, <1>1, PTL DEF Spec

\* No message is dropped, doubled or overtaken between the trace statement and
\* the file (trace_writer.cpp:51-128).
THEOREM WrittenOnceInOrder == Spec => []OnceInOrder
<1>1. IInv => OnceInOrder
  BY DEF IInv
<1> QED  BY <1>1, Invariance, PTL

\* The writer's thread ends only when all that was ever traced is written
\* (trace_writer.cpp:66).
THEOREM NothingLeftBehind == Spec => []EndedMeansWritten
<1>1. IInv => EndedMeansWritten
  <2> SUFFICES ASSUME IInv, writer = "ended"
               PROVE  out = sent /\ \A p \in Producers : open[p] = <<>>
    BY DEF EndedMeansWritten
  <2>1. queue = <<>> /\ batch = <<>> /\ owner # "none"
    BY DEF IInv, Ending
  <2>2. out \in Seq(Indices) /\ out \o <<>> \o <<>> = sent
    BY <2>1 DEF IInv, OnceInOrder, TypeOK
  <2>3. out = sent
    BY <2>2
  <2> QED  BY <2>1, <2>3 DEF IInv, Ending
<1> QED  BY <1>1, Invariance, PTL
=============================================================================
