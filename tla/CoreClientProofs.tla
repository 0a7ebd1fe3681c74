-------------------------- MODULE CoreClientProofs --------------------------
(***************************************************************************)
(* Proofs about CoreClient for every set of threads, whatever they call,   *)
(* every set of event methods and every number of events.                  *)
(***************************************************************************)
EXTENDS CoreClient, TLAPS, SequenceTheorems, WellFoundedInduction

(* The client before anybody has called it satisfies the invariant. *)
LEMMA InitInv == Init => IInv
<1> SUFFICES ASSUME Init PROVE IInv
  OBVIOUS
<1> USE DEF Init
<1>1. TypeOK
  <2>1. /\ stdin \in BOOLEAN /\ readerError \in BOOLEAN /\ expected \in BOOLEAN
        /\ closed \in BOOLEAN /\ dispatching \in BOOLEAN /\ garbled \in BOOLEAN
    OBVIOUS
  <2>2. /\ output = <<>> /\ callbacks = <<>> /\ delivered = <<>>
        /\ emitted \in 0..MaxEvents
    BY EventsAssumption
  <2> QED
    BY <2>1, <2>2 DEF TypeOK, Pcs, Doings
<1>2. CallInv
  BY DEF CallInv, Sent, Answered, Registered, AnswersOwn, RepliesReachCallers
<1>3. ReaderInv
  BY DEF ReaderInv, CrashReleasesCalls, ToSet
<1>4. EndInv
  BY TasksAssumption DEF EndInv, EndedMeansDead
<1>5. OrderInv
  BY DEF OrderInv, Increasing, EventsKept, ToSet
<1> QED
  BY <1>1, <1>2, <1>3, <1>4, <1>5 DEF IInv

-----------------------------------------------------------------------------
(* A sequence without one of its elements: those left keep their order.    *)
LEMMA RemoveAtProperties ==
  ASSUME NEW S, NEW q \in Seq(S), NEW k \in 1..Len(q)
  PROVE  /\ RemoveAt(q, k) \in Seq(S)
         /\ Len(RemoveAt(q, k)) = Len(q) - 1
         /\ \A j \in 1..(Len(q) - 1) : RemoveAt(q, k)[j] = IF j < k THEN q[j] ELSE q[j + 1]
<1> DEFINE a == SubSeq(q, 1, k - 1)
           b == SubSeq(q, k + 1, Len(q))
           n == Len(q)
<1>0. n \in Nat /\ k \in 1..n
  BY LenProperties
<1>1. a \in Seq(S) /\ Len(a) = k - 1 /\ \A j \in 1..(k - 1) : a[j] = q[j]
  BY SubSeqProperties
<1>2. b \in Seq(S) /\ Len(b) = n - k /\ \A j \in 1..(n - k) : b[j] = q[j + k]
  BY SubSeqProperties
<1> HIDE DEF a, b, n
<1>3. /\ a \o b \in Seq(S) /\ Len(a \o b) = (k - 1) + (n - k)
      /\ \A j \in 1..((k - 1) + (n - k)) :
           (a \o b)[j] = IF j <= k - 1 THEN a[j] ELSE b[j - (k - 1)]
  <2>1. /\ a \o b \in Seq(S) /\ Len(a \o b) = Len(a) + Len(b)
        /\ \A j \in 1..(Len(a) + Len(b)) :
             (a \o b)[j] = IF j <= Len(a) THEN a[j] ELSE b[j - Len(a)]
    BY <1>1, <1>2, ConcatProperties, Zenon
  <2> QED
    BY <1>1, <1>2, <2>1, Zenon
<1>4. ASSUME NEW j \in 1..(n - 1)
      PROVE  (a \o b)[j] = IF j < k THEN q[j] ELSE q[j + 1]
  <2>1. CASE j < k
    BY <1>0, <1>1, <1>3, <2>1
  <2>2. CASE ~(j < k)
    <3>1. j - (k - 1) \in 1..(n - k) /\ (j - (k - 1)) + k = j + 1
      BY <1>0, <2>2
    <3>2. j \in 1..((k - 1) + (n - k)) /\ ~(j <= k - 1)
      BY <1>0, <2>2
    <3> QED
      BY <1>2, <1>3, <2>2, <3>1, <3>2
  <2> QED
    BY <2>1, <2>2
<1>5. (k - 1) + (n - k) = n - 1
  BY <1>0
<1> QED
  BY <1>3, <1>4, <1>5 DEF RemoveAt, a, b, n

-----------------------------------------------------------------------------
(* What one step of the client is.                                         *)
LEMMA NextCases ==
  ASSUME [Next]_vars
  PROVE  \/ \E t \in Tasks : Call(t) \/ End(t)
         \/ Core \/ Reader \/ Handlers
         \/ UNCHANGED vars
  BY DEF Next, Terminated

Flags == <<stdin, readerError, expected, closed, dispatching, garbled>>

(* Its Boolean variables stay Boolean. *)
LEMMA FlagsStep ==
  ASSUME TypeOK, [Next]_vars
  PROVE  /\ stdin' \in BOOLEAN /\ readerError' \in BOOLEAN /\ expected' \in BOOLEAN
         /\ closed' \in BOOLEAN /\ dispatching' \in BOOLEAN /\ garbled' \in BOOLEAN
<1>0. /\ stdin \in BOOLEAN /\ readerError \in BOOLEAN /\ expected \in BOOLEAN
      /\ closed \in BOOLEAN /\ dispatching \in BOOLEAN /\ garbled \in BOOLEAN
  BY DEF TypeOK
<1> USE DEF processVars, readerVars, endVars, eventVars, EndCall, NextLine
<1>1. ASSUME NEW t \in Tasks, Call(t)
      PROVE  \/ dispatching' = TRUE /\ UNCHANGED <<stdin, readerError, expected, closed, garbled>>
             \/ UNCHANGED Flags
  BY <1>1 DEF Flags, Call, Start, BeginRequest, CheckRunning, NotRunning, Register,
              Write, FailWrite, Wait, Receive, GiveUp
<1>2. ASSUME NEW t \in Tasks, End(t)
      PROVE  /\ expected' = TRUE \/ expected' = (expected \/ proc = "running")
                \/ expected' = (expected \/ ~closed) \/ expected' = expected
             /\ stdin' = FALSE \/ stdin' = stdin
             /\ closed' = TRUE \/ closed' = closed
             /\ UNCHANGED <<readerError, dispatching, garbled>>
  <2>1. CASE BeginEnd(t)
    BY <2>1 DEF BeginEnd
  <2>2. CASE Close(t)
    BY <2>2, Zenon DEF Close
  <2>3. CASE Abort(t)
    BY <2>3, Zenon DEF Abort
  <2>4. CASE BeginFinish(t)
    BY <2>4, Zenon DEF BeginFinish
  <2>5. CASE WaitExit(t)
    BY <2>5 DEF WaitExit
  <2>6. CASE StopDispatcher(t)
    BY <2>6 DEF StopDispatcher
  <2> QED
    BY <1>2, <2>1, <2>2, <2>3, <2>4, <2>5, <2>6 DEF End
<1>3. CASE Core
  BY <1>0, <1>3 DEF Core, Answer, Emit, Garble, Exit
<1>4. CASE Reader
  BY <1>0, <1>4 DEF Reader, ReadReply, ReadEvent, ReadGarbage, EndOfOutput, FailPending
<1>5. CASE Handlers
  BY <1>0, <1>5 DEF Handlers, AddHandler, RemoveHandler, Dispatch
<1>6. CASE UNCHANGED vars
  BY <1>0, <1>6 DEF vars
<1>7. ASSUME NEW t \in Tasks, Call(t)
      PROVE  /\ stdin' \in BOOLEAN /\ readerError' \in BOOLEAN /\ expected' \in BOOLEAN
             /\ closed' \in BOOLEAN /\ dispatching' \in BOOLEAN /\ garbled' \in BOOLEAN
  BY <1>0, <1>1, <1>7, Zenon DEF Flags
<1>8. ASSUME NEW t \in Tasks, End(t)
      PROVE  /\ stdin' \in BOOLEAN /\ readerError' \in BOOLEAN /\ expected' \in BOOLEAN
             /\ closed' \in BOOLEAN /\ dispatching' \in BOOLEAN /\ garbled' \in BOOLEAN
  BY <1>0, <1>2, <1>8, Zenon
<1> QED
  BY <1>3, <1>4, <1>5, <1>6, <1>7, <1>8, NextCases

(* The latest of the queued events that have something in common.          *)
LEMMA MaxOfQueue ==
  ASSUME NEW S, NEW q \in Seq(S), NEW I \in SUBSET DOMAIN q, I # {}
  PROVE  Max(I) \in 1..Len(q) /\ Max(I) \in I
<1> DEFINE n == Len(q)
           T == {n - i : i \in I}
<1>1. I \subseteq 1..n /\ n \in Nat
  BY LenProperties
<1> HIDE DEF n
<1>2. T \subseteq Nat /\ T # {}
  BY <1>1
<1>3. PICK x \in T : \A y \in T : ~(<<y, x>> \in OpToRel(<, Nat))
  BY <1>2, NatLessThanWellFounded, WFMin
<1>4. PICK m \in I : x = n - m
  OBVIOUS
<1>5. \A i \in I : i <= m
  <2> TAKE i \in I
  <2>1. n - i \in T /\ n - i \in Nat /\ x \in Nat
    BY <1>2
  <2>2. ~(n - i < n - m)
    BY <1>3, <1>4, <2>1 DEF OpToRel
  <2> QED
    BY <1>1, <2>2
<1>6. m \in I /\ \A i \in I : m >= i
  BY <1>1, <1>5
<1>7. Max(I) \in I
  BY <1>6, Zenon DEF Max
<1> QED
  BY <1>1, <1>7 DEF n

(* The queue of an event keeps its type. *)
LEMMA PutType ==
  ASSUME NEW q \in Seq(Events \cup {Stop}), NEW e \in Events
  PROVE  Put(q, e) \in Seq(Events \cup {Stop})
<1> DEFINE same == {i \in DOMAIN q : q[i].method = e.method}
<1>1. CASE e.method \in Cumulative /\ same # {}
  <2>1. Max(same) \in 1..Len(q)
    BY <1>1, MaxOfQueue
  <2> QED
    BY <1>1, <2>1, RemoveAtProperties DEF Put
<1>2. CASE ~(e.method \in Cumulative /\ same # {})
  BY <1>2 DEF Put
<1> QED
  BY <1>1, <1>2

(* Every step keeps the types. *)
LEMMA TypeStep ==
  ASSUME TypeOK, [Next]_vars
  PROVE  TypeOK'
<1> DEFINE Lines == Replies \cup Events \cup {Garbage}
           Places == /\ pc' \in [Tasks -> Pcs] /\ doing' \in [Tasks -> Doings]
                     /\ proc' \in {"none", "running", "dead"}
                     /\ reader' \in {"off", "reading", "failing", "done"}
           Queues == /\ queue' \in [Tasks -> SUBSET Answers]
                     /\ \A t \in Tasks : \A m, n \in queue'[t] : m = n
           Pipes == /\ requests' \subseteq Ids /\ replied' \subseteq Replies
                    /\ output' \in Seq(Lines)
           Feed == /\ listening' \subseteq Methods
                   /\ callbacks' \in Seq(Events \cup {Stop})
                   /\ emitted' \in 0..MaxEvents
                   /\ taken' \subseteq Events /\ delivered' \in Seq(Events)
<1> USE DEF processVars, readerVars, endVars, callVars, eventVars, EndCall, Goto
<1>1. ASSUME NEW t \in Tasks, Call(t)
      PROVE  Places /\ Queues /\ Pipes /\ Feed
  <2>0. AfterCall(t, "answer") \in Pcs /\ AfterCall(t, "error") \in Pcs
        /\ AfterCall(t, "valueError") \in Pcs
    BY DEF TypeOK, AfterCall, Pcs, Doings
  <2> USE DEF Call, Start, BeginRequest, CheckRunning, NotRunning, Register, Write,
              FailWrite, Wait, Receive, GiveUp, TypeOK
  <2>1. Places
    <3>1. CASE FailWrite(t) \/ Receive(t)
      <4>1. PICK how \in {"answer", "error", "valueError"} : EndCall(t, how)
        BY <3>1 DEF EndCall
      <4> QED
        BY <3>1, <4>1, <2>0
    <3>2. CASE ~(FailWrite(t) \/ Receive(t))
      BY <1>1, <2>0, <3>2 DEF Pcs, Doings
    <3> QED
      BY <3>1, <3>2
  <2>2. Queues
    BY <1>1
  <2>3. Pipes
    BY <1>1 DEF Id, Ids
  <2>4. Feed
    BY <1>1
  <2> QED
    BY <2>1, <2>2, <2>3, <2>4
<1>2. ASSUME NEW t \in Tasks, End(t)
      PROVE  Places /\ Queues /\ Pipes /\ Feed
  <2> USE DEF End, BeginEnd, Close, Abort, BeginFinish, WaitExit, StopDispatcher, TypeOK
  <2>1. Places
    BY <1>2 DEF AfterEnd, Pcs, Doings
  <2>2. UNCHANGED <<queue, requests, replied, output, listening, emitted, taken, delivered>>
    BY <1>2, Zenon
  <2>3. callbacks' = callbacks \/ callbacks' = Append(callbacks, Stop)
    BY <1>2, Zenon
  <2>4. Queues /\ Pipes
    BY <2>2
  <2>5. Feed
    <3>1. callbacks \in Seq(Events \cup {Stop})
      OBVIOUS
    <3>2. Append(callbacks, Stop) \in Seq(Events \cup {Stop})
      BY <3>1, AppendProperties
    <3> QED
      BY <2>2, <2>3, <3>1, <3>2, Zenon
  <2> QED
    BY <2>1, <2>4, <2>5
<1>3. ASSUME Core
      PROVE  Places /\ Queues /\ Pipes /\ Feed
  <2> USE DEF TypeOK
  <2>1. ASSUME NEW id \in requests, NEW ok \in BOOLEAN, Answer(id, ok)
        PROVE  Places /\ Queues /\ Pipes /\ Feed
    <3>1. [kind |-> "reply", to |-> id, ok |-> ok] \in Replies
      BY DEF Replies
    <3>2. output' \in Seq(Lines)
      BY <2>1, <3>1 DEF Answer
    <3> QED
      BY <2>1, <3>2 DEF Answer
  <2>2. ASSUME NEW method \in Methods, Emit(method)
        PROVE  Places /\ Queues /\ Pipes /\ Feed
    <3>1. emitted + 1 \in 1..MaxEvents /\ emitted' = emitted + 1
      BY <2>2, EventsAssumption DEF Emit
    <3>2. [kind |-> "event", method |-> method, n |-> emitted + 1] \in Events
      BY <3>1 DEF Events
    <3>3. output' \in Seq(Lines)
      BY <2>2, <3>2 DEF Emit
    <3> QED
      BY <2>2, <3>1, <3>3 DEF Emit
  <2>3. CASE Garble
    BY <2>3 DEF Garble
  <2>4. CASE Exit
    BY <2>4 DEF Exit
  <2> QED
    BY <1>3, <2>1, <2>2, <2>3, <2>4 DEF Core
<1>4. ASSUME Reader
      PROVE  Places /\ Queues /\ Pipes /\ Feed
  <2> USE DEF TypeOK
  <2>0. ASSUME NEW kind, NextLine(kind)
        PROVE  /\ Head(output) \in Lines /\ output' \in Seq(Lines)
               /\ Head(output).kind = kind
               /\ UNCHANGED <<proc, stdin, requests, emitted, garbled>>
    BY <2>0 DEF NextLine
  <2>1. CASE ReadReply
    <3>1. Head(output) \in Replies
      BY <2>0, <2>1 DEF ReadReply, Replies, Events, Garbage
    <3>2. Head(output) \in Answers
      BY <3>1 DEF Answers
    <3> QED
      BY <2>0, <2>1, <3>1, <3>2 DEF ReadReply
  <2>2. CASE ReadEvent
    <3>1. Head(output) \in Events
      BY <2>0, <2>2 DEF ReadEvent, Replies, Events, Garbage
    <3> QED
      BY <2>0, <2>2, <3>1, PutType DEF ReadEvent
  <2>3. CASE ReadGarbage
    BY <2>0, <2>3 DEF ReadGarbage
  <2>4. CASE EndOfOutput
    BY <2>4 DEF EndOfOutput
  <2>5. CASE FailPending
    <3>1. Failure \in Answers
      BY DEF Answers
    <3> QED
      BY <2>5, <3>1 DEF FailPending
  <2> QED
    BY <1>4, <2>1, <2>2, <2>3, <2>4, <2>5 DEF Reader
<1>5. ASSUME Handlers
      PROVE  Places /\ Queues /\ Pipes /\ Feed
  <2> USE DEF TypeOK
  <2>1. CASE Dispatch
    <3>1. callbacks' \in Seq(Events \cup {Stop}) /\ Head(callbacks) \in Events \cup {Stop}
      BY <2>1 DEF Dispatch
    <3>2. Head(callbacks) # Stop => Head(callbacks) \in Events
      BY <3>1
    <3>3. \/ delivered' = delivered
          \/ Head(callbacks) # Stop /\ delivered' = Append(delivered, Head(callbacks))
      BY <2>1, Zenon DEF Dispatch
    <3>4. ASSUME NEW e \in Events PROVE Append(delivered, e) \in Seq(Events)
      BY AppendProperties
    <3>5. delivered' \in Seq(Events)
      BY <3>2, <3>3, <3>4, Zenon
    <3> QED
      BY <2>1, <3>1, <3>5 DEF Dispatch
  <2>2. CASE ~Dispatch
    BY <1>5, <2>2 DEF Handlers, AddHandler, RemoveHandler
  <2> QED
    BY <2>1, <2>2
<1>6. CASE UNCHANGED vars
  BY <1>6 DEF vars, TypeOK
<1>7. Places /\ Queues /\ Pipes /\ Feed
  BY <1>1, <1>2, <1>3, <1>4, <1>5, <1>6, NextCases DEF vars, TypeOK
<1> QED
  BY <1>7, FlagsStep DEF TypeOK

-----------------------------------------------------------------------------
(* Requests become sent by being written, and in no other way.             *)
LEMMA SentStep ==
  ASSUME TypeOK, [Next]_vars
  PROVE  \/ Sent' \subseteq Sent
         \/ \E t \in Tasks : Write(t) /\ Sent' \subseteq Sent \cup {Id(t)}
<1> USE DEF processVars, readerVars, endVars, callVars, eventVars, EndCall
<1> DEFINE Pipe == <<requests, output, replied>>
<1>0. output \in Seq(Replies \cup Events \cup {Garbage})
  BY DEF TypeOK
<1>1. ASSUME UNCHANGED Pipe
      PROVE  Sent' \subseteq Sent
  BY <1>1 DEF Sent, Answered
<1>2. ASSUME NEW t \in Tasks, Call(t), ~Write(t)
      PROVE  UNCHANGED Pipe
  BY <1>2 DEF Call, Start, BeginRequest, CheckRunning, NotRunning, Register,
              FailWrite, Wait, Receive, GiveUp
<1>3. ASSUME NEW t \in Tasks, Write(t)
      PROVE  Sent' \subseteq Sent \cup {Id(t)}
  BY <1>3 DEF Write, Sent, Answered
<1>4. ASSUME NEW t \in Tasks, End(t)
      PROVE  UNCHANGED Pipe
  BY <1>4, Zenon DEF End, BeginEnd, Close, Abort, BeginFinish, WaitExit, StopDispatcher
<1>5. ASSUME NEW id \in requests, NEW ok \in BOOLEAN, Answer(id, ok)
      PROVE  Sent' \subseteq Sent
  <2> DEFINE r == [kind |-> "reply", to |-> id, ok |-> ok]
  <2>1. output' = Append(output, r) /\ r.to = id
    BY <1>5 DEF Answer
  <2>2. \A i \in DOMAIN output' : \/ i \in DOMAIN output /\ output'[i] = output[i]
                                  \/ output'[i] = r
    BY <1>0, <2>1
  <2> QED
    BY <1>5, <2>1, <2>2 DEF Answer, Sent, Answered
<1>6. ASSUME NEW method \in Methods, Emit(method)
      PROVE  Sent' \subseteq Sent
  <2> DEFINE e == [kind |-> "event", method |-> method, n |-> emitted + 1]
  <2>1. output' = Append(output, e) /\ e.kind # "reply"
    BY <1>6 DEF Emit
  <2>2. \A i \in DOMAIN output' : \/ i \in DOMAIN output /\ output'[i] = output[i]
                                  \/ output'[i] = e
    BY <1>0, <2>1
  <2> QED
    BY <1>6, <2>1, <2>2 DEF Emit, Sent, Answered
<1>7. ASSUME Garble
      PROVE  Sent' \subseteq Sent
  <2>1. output' = Append(output, Garbage) /\ Garbage.kind # "reply"
    BY <1>7 DEF Garble, Garbage
  <2>2. \A i \in DOMAIN output' : \/ i \in DOMAIN output /\ output'[i] = output[i]
                                  \/ output'[i] = Garbage
    BY <1>0, <2>1
  <2> QED
    BY <1>7, <2>1, <2>2 DEF Garble, Sent, Answered
<1>8. ASSUME NEW kind, NextLine(kind)
      PROVE  /\ \A i \in DOMAIN output' : i + 1 \in DOMAIN output /\ output'[i] = output[i + 1]
             /\ 1 \in DOMAIN output /\ Head(output) = output[1] /\ output[1].kind = kind
  BY <1>0, <1>8 DEF NextLine
<1>9. ASSUME Reader
      PROVE  Sent' \subseteq Sent
  <2>1. CASE ReadReply
    BY <1>8, <2>1 DEF ReadReply, NextLine, Sent, Answered
  <2>2. CASE ReadEvent
    BY <1>8, <2>2 DEF ReadEvent, NextLine, Sent, Answered
  <2>3. CASE ReadGarbage
    BY <1>8, <2>3 DEF ReadGarbage, NextLine, Sent, Answered
  <2>4. CASE EndOfOutput \/ FailPending
    BY <1>1, <2>4 DEF EndOfOutput, FailPending
  <2> QED
    BY <1>9, <2>1, <2>2, <2>3, <2>4 DEF Reader
<1>10. ASSUME Handlers
       PROVE  UNCHANGED Pipe
  BY <1>10 DEF Handlers, AddHandler, RemoveHandler, Dispatch
<1>11. CASE Core
  <2>1. ASSUME Exit
        PROVE  UNCHANGED Pipe
    BY <2>1 DEF Exit
  <2> QED
    BY <1>1, <1>5, <1>6, <1>7, <1>11, <2>1 DEF Core
<1> QED
  BY <1>1, <1>2, <1>3, <1>4, <1>9, <1>10, <1>11, NextCases DEF vars

-----------------------------------------------------------------------------
(* CallInv, task by task. *)
CallOf(t) ==
  /\ \A w \in Doings : <<t, w>> \in Sent =>
       IF doing[t] = w
         THEN pc[t] \notin {"idle", "call", "checked", "registered"}
         ELSE w # "shutdown" /\ (w = "hello" => doing[t] = "shutdown")
  /\ pc[t] = "idle" => doing[t] = "request"
  /\ pc[t] = "closing" => doing[t] # "shutdown"
  /\ ~Registered(t) => queue[t] = {}
  /\ Registered(t) => \A m \in queue[t] : m.kind = "reply" => m.to = Id(t)
  /\ pc[t] \in {"written", "waiting"} /\ Id(t) \in Answered => queue[t] # {}

(* CallInv is CallOf of every task, before and after a step. *)
LEMMA CallByTask == /\ CallInv <=> \A t \in Tasks : CallOf(t)
                    /\ CallInv' <=> \A t \in Tasks : CallOf(t)'
<1>1. CallInv => \A t \in Tasks : CallOf(t)
  BY Zenon DEF CallInv, CallOf, AnswersOwn, RepliesReachCallers
<1>2. (\A t \in Tasks : CallOf(t)) => CallInv
  BY Zenon DEF CallInv, CallOf, AnswersOwn, RepliesReachCallers
<1>3. CallInv' => \A t \in Tasks : CallOf(t)'
  BY Zenon DEF CallInv, CallOf, AnswersOwn, RepliesReachCallers
<1>4. (\A t \in Tasks : CallOf(t)') => CallInv'
  BY Zenon DEF CallInv, CallOf, AnswersOwn, RepliesReachCallers
<1> QED
  BY <1>1, <1>2, <1>3, <1>4

(* A task that takes no step, when nobody has written or answered for it. *)
LEMMA CallOfOthers ==
  ASSUME NEW t \in Tasks, CallOf(t),
         pc'[t] = pc[t], doing'[t] = doing[t], queue'[t] = queue[t],
         \A w \in Doings : <<t, w>> \in Sent' => <<t, w>> \in Sent,
         Id(t) \in Answered' => Id(t) \in Answered
  PROVE  CallOf(t)'
<1>1. Id(t)' = Id(t) /\ Registered(t)' = Registered(t)
  BY DEF Id, Registered
<1> QED
  BY <1>1, Zenon DEF CallOf

(* The steps of a call keep what a task has sent and been answered in line *)
(* with what it is doing.                                                  *)
LEMMA CallStep ==
  ASSUME TypeOK, CallInv, NEW t \in Tasks, Call(t)
  PROVE  CallInv'
<1>0. [Next]_vars
  BY DEF Next
<1>1. \A u \in Tasks : u # t => pc'[u] = pc[u] /\ doing'[u] = doing[u] /\ queue'[u] = queue[u]
  BY DEF Call, Start, BeginRequest, CheckRunning, NotRunning, Register, Write,
         FailWrite, Wait, Receive, GiveUp, EndCall, Goto, TypeOK, callVars
<1>2. replied' = replied /\ Answered' = Answered
  BY DEF Answered, Call, Start, BeginRequest, CheckRunning, NotRunning, Register, Write,
         FailWrite, Wait, Receive, GiveUp, EndCall, readerVars
<1>3. Sent' \subseteq Sent \/ (Write(t) /\ Sent' \subseteq Sent \cup {Id(t)})
  <2>1. ASSUME NEW u \in Tasks, u # t PROVE ~Write(u)
    BY <1>1, <2>1 DEF Write, Goto, TypeOK
  <2> QED
    BY <1>0, <2>1, SentStep
<1>4. CallOf(t)
  BY CallByTask
<1>5. ASSUME NEW u \in Tasks, u # t
      PROVE  CallOf(u)'
  BY CallByTask, CallOfOthers, <1>1, <1>2, <1>3, <1>5 DEF Id
<1> SUFFICES CallOf(t)'
  BY <1>5, CallByTask
<1>6. ASSUME NEW how, EndCall(t, how), AfterCall(t, how) \in {"done", "closing", "raised", "finish"},
             AfterCall(t, how) = "closing" => doing[t] # "shutdown", ~Write(t)
      PROVE  CallOf(t)'
  <2>1. pc'[t] = AfterCall(t, how) /\ doing'[t] = doing[t] /\ queue'[t] = {}
    BY <1>6 DEF EndCall, Goto, TypeOK
  <2>2. Sent' \subseteq Sent
    BY <1>3, <1>6
  <2> QED
    BY <1>4, <1>6, <2>1, <2>2 DEF CallOf, Registered
<1>7. \A how \in {"answer", "error", "valueError"} :
        /\ AfterCall(t, how) \in {"done", "closing", "raised", "finish"}
        /\ AfterCall(t, how) = "closing" => doing[t] # "shutdown"
  BY DEF AfterCall, TypeOK, Doings
<1>8. CASE Start(t)
  <2>1. doing[t] = "request" /\ \A w \in Doings : <<t, w>> \notin Sent
    BY <1>4, <1>8 DEF Start, CallOf, Doings
  <2>2. pc'[t] = "call" /\ doing'[t] = "hello" /\ queue'[t] = queue[t] /\ queue[t] = {}
    BY <1>4, <1>8 DEF Start, Goto, CallOf, Registered, TypeOK
  <2>3. ~Write(t)
    BY <1>8 DEF Start, Write
  <2> QED
    BY <1>3, <2>1, <2>2, <2>3 DEF CallOf, Registered
<1>9. CASE BeginRequest(t)
  <2>1. pc[t] = "idle" /\ pc'[t] = "call" /\ doing'[t] = doing[t] /\ queue'[t] = queue[t]
    BY <1>9 DEF BeginRequest, Goto, TypeOK
  <2>2. ~Write(t)
    BY <1>9 DEF BeginRequest, Write
  <2> QED
    BY <1>3, <1>4, <2>1, <2>2 DEF CallOf, Registered
<1>10. CASE CheckRunning(t)
  <2>1. pc[t] = "call" /\ pc'[t] = "checked" /\ doing'[t] = doing[t] /\ queue'[t] = queue[t]
    BY <1>10 DEF CheckRunning, Goto, TypeOK
  <2>2. ~Write(t)
    BY <1>10 DEF CheckRunning, Write
  <2> QED
    BY <1>3, <1>4, <2>1, <2>2 DEF CallOf, Registered
<1>11. CASE Register(t)
  <2>1. pc[t] = "checked" /\ pc'[t] = "registered" /\ doing'[t] = doing[t] /\ queue'[t] = queue[t]
    BY <1>11 DEF Register, Goto, TypeOK
  <2>2. ~Write(t)
    BY <1>11 DEF Register, Write
  <2> QED
    BY <1>3, <1>4, <2>1, <2>2 DEF CallOf, Registered
<1>12. CASE Write(t)
  <2>1. pc[t] = "registered" /\ pc'[t] = "written" /\ doing'[t] = doing[t] /\ queue'[t] = queue[t]
    BY <1>12 DEF Write, Goto, TypeOK
  <2>2. Id(t) \notin Sent /\ Id(t) \notin Answered /\ Id(t)' = Id(t)
    BY <1>4, <2>1 DEF CallOf, Id, Sent, TypeOK
  <2> QED
    BY <1>2, <1>3, <1>4, <2>1, <2>2 DEF CallOf, Registered, Id
<1>13. CASE Wait(t)
  <2>1. pc[t] = "written" /\ pc'[t] = "waiting" /\ doing'[t] = doing[t] /\ queue'[t] = queue[t]
    BY <1>13 DEF Wait, Goto, TypeOK
  <2>2. ~Write(t) /\ Id(t)' = Id(t)
    BY <1>13, <2>1 DEF Wait, Write, Id
  <2> QED
    BY <1>2, <1>3, <1>4, <2>1, <2>2 DEF CallOf, Registered
<1>14. CASE NotRunning(t) \/ FailWrite(t) \/ Receive(t) \/ GiveUp(t)
  <2>1. PICK how \in {"answer", "error", "valueError"} : EndCall(t, how)
    BY <1>14 DEF NotRunning, FailWrite, Receive, GiveUp
  <2>2. ~Write(t)
    BY <1>14 DEF NotRunning, FailWrite, Receive, GiveUp, Write
  <2> QED
    BY <1>6, <1>7, <2>1, <2>2
<1> QED
  BY <1>8, <1>9, <1>10, <1>11, <1>12, <1>13, <1>14 DEF Call

(* So do those of close() and abort(). *)
LEMMA EndStep ==
  ASSUME TypeOK, CallInv, NEW t \in Tasks, End(t)
  PROVE  CallInv'
<1> DEFINE Places == {"closing", "finish", "waitExit", "stop", "raised", "done"}
<1>0. [Next]_vars
  BY DEF Next
<1>1. /\ \A u \in Tasks : u # t => pc'[u] = pc[u] /\ doing'[u] = doing[u]
      /\ queue' = queue /\ replied' = replied /\ output' = output /\ requests' = requests
  BY DEF End, BeginEnd, Close, Abort, BeginFinish, WaitExit, StopDispatcher, Goto, TypeOK,
         processVars, readerVars
<1>2. Sent' = Sent /\ Answered' = Answered
  BY <1>1 DEF Sent, Answered
<1>3. CallOf(t)
  BY CallByTask
<1>4. ASSUME NEW u \in Tasks, u # t
      PROVE  CallOf(u)'
  BY CallByTask, CallOfOthers, <1>1, <1>2, <1>4
<1> SUFFICES CallOf(t)'
  BY <1>4, CallByTask
<1>5. ~Registered(t)
  BY DEF End, BeginEnd, Close, Abort, BeginFinish, WaitExit, StopDispatcher, Registered
<1>6. ASSUME doing'[t] = doing[t], pc'[t] \in Places,
             pc'[t] = "closing" => doing[t] # "shutdown"
      PROVE  CallOf(t)'
  BY <1>1, <1>2, <1>3, <1>5, <1>6 DEF CallOf, Registered
<1>7. CASE BeginEnd(t)
  <2>1. pc[t] = "idle" /\ pc'[t] = "closing" /\ doing'[t] = doing[t]
    BY <1>7 DEF BeginEnd, Goto, TypeOK
  <2> QED
    BY <1>3, <1>6, <2>1 DEF CallOf
<1>8. CASE Close(t)
  <2>1. CASE doing' = [doing EXCEPT ![t] = "shutdown"] /\ pc' = [pc EXCEPT ![t] = "call"]
    <3>1. doing'[t] = "shutdown" /\ pc'[t] = "call" /\ pc[t] = "closing"
      BY <1>8, <2>1 DEF Close, TypeOK
    <3>2. <<t, "shutdown">> \notin Sent
      BY <1>3, <3>1 DEF CallOf, Doings
    <3> QED
      BY <1>1, <1>2, <1>3, <1>5, <3>1, <3>2 DEF CallOf, Registered, Doings
  <2>2. CASE doing' = doing /\ pc'[t] \in {"raised", "done", "finish"}
    BY <1>6, <2>2
  <2> QED
    BY <1>8, <2>1, <2>2 DEF Close, AfterEnd, Goto, TypeOK
<1>9. CASE Abort(t) \/ BeginFinish(t) \/ WaitExit(t) \/ StopDispatcher(t)
  <2>1. doing'[t] = doing[t] /\ pc'[t] \in Places \ {"closing"}
    BY <1>9 DEF Abort, BeginFinish, WaitExit, StopDispatcher, AfterEnd, Goto, TypeOK
  <2> QED
    BY <1>6, <2>1
<1> QED
  BY <1>7, <1>8, <1>9 DEF End

(* So do the Core's answers, the reader and the handlers. *)
LEMMA OtherStep ==
  ASSUME TypeOK, CallInv, Core \/ Reader \/ Handlers \/ UNCHANGED vars
  PROVE  CallInv'
<1>0. [Next]_vars /\ \A t \in Tasks : CallOf(t)
  BY CallByTask DEF Next
<1> USE DEF processVars, readerVars, endVars, callVars, eventVars, NextLine
<1>1. pc' = pc /\ doing' = doing
  BY DEF Core, Answer, Emit, Garble, Exit, Reader, ReadReply, ReadEvent, ReadGarbage,
         EndOfOutput, FailPending, Handlers, AddHandler, RemoveHandler, Dispatch, vars
<1>2. Sent' \subseteq Sent
  <2>1. \A t \in Tasks : ~Write(t)
    BY <1>1 DEF Write, Goto, TypeOK
  <2> QED
    BY <1>0, <2>1, SentStep
<1>3. CASE ReadReply
  <2> DEFINE m == Head(output)
  <2>1. Answered' = Answered \cup {m.to} /\ m.kind = "reply" /\ m.to \in Sent
    BY <1>3 DEF ReadReply, Sent, Answered, TypeOK
  <2>2. queue' = [t \in Tasks |-> IF Takes(t, m) /\ queue[t] = {} THEN {m} ELSE queue[t]]
    BY <1>3 DEF ReadReply
  <2> HIDE DEF m
  <2>3. ASSUME NEW t \in Tasks
        PROVE  CallOf(t)'
    <3>1. /\ \A w \in Doings : <<t, w>> \in Sent' => <<t, w>> \in Sent
          /\ Id(t)' = Id(t) /\ Registered(t)' = Registered(t)
      BY <1>1, <1>2 DEF Id, Registered
    <3>2. CASE Takes(t, m)
      <4>1. queue'[t] = IF queue[t] = {} THEN {m} ELSE queue[t]
        BY <2>2, <3>2
      <4> QED
        BY <1>0, <1>1, <2>1, <3>1, <3>2, <4>1 DEF CallOf, Takes
    <3>3. CASE ~Takes(t, m)
      <4>1. queue'[t] = queue[t]
        BY <2>2, <3>3
      <4>2. pc[t] \in {"written", "waiting"} => Id(t) # m.to
        BY <3>3 DEF Takes, Registered
      <4> QED
        BY <1>0, <1>1, <2>1, <3>1, <4>1, <4>2 DEF CallOf
    <3> QED
      BY <3>2, <3>3
  <2> QED
    BY <2>3, CallByTask
<1>4. CASE FailPending
  <2>1. ASSUME NEW t \in Tasks
        PROVE  CallOf(t)'
    <3>1. queue'[t] = IF Registered(t) /\ queue[t] = {} THEN {Failure} ELSE queue[t]
      BY <1>4, <2>1 DEF FailPending
    <3>2. /\ Id(t)' = Id(t) /\ Registered(t)' = Registered(t)
          /\ Answered' = Answered /\ Failure.kind # "reply"
      BY <1>1, <1>4 DEF Id, Registered, FailPending, Failure, Answered
    <3> QED
      BY <1>0, <1>1, <1>2, <3>1, <3>2 DEF CallOf
  <2> QED
    BY <2>1, CallByTask
<1>5. CASE ~(ReadReply \/ FailPending)
  <2>1. queue' = queue /\ Answered' = Answered
    BY <1>5 DEF Answered, Core, Answer, Emit, Garble, Exit, Reader, ReadEvent, ReadGarbage,
         EndOfOutput, Handlers, AddHandler, RemoveHandler, Dispatch, vars
  <2>2. ASSUME NEW t \in Tasks
        PROVE  CallOf(t)'
    BY <1>0, <1>1, <1>2, <2>1, CallOfOthers
  <2> QED
    BY <2>2, CallByTask
<1> QED
  BY <1>3, <1>4, <1>5

-----------------------------------------------------------------------------
(* What the steps do to the process, the reader and what callers wait for. *)
LEMMA ProcessStep ==
  ASSUME TypeOK, [Next]_vars
  PROVE  /\ proc = "dead" => proc' = "dead"
         /\ proc' = "none" => proc = "none"
         /\ proc # "none" => proc' # "none"
<1> USE DEF processVars, EndCall, NextLine
<1>1. ASSUME NEW t \in Tasks, Call(t)
      PROVE  proc' = proc \/ (proc = "none" /\ proc' = "running")
  BY <1>1 DEF Call, Start, BeginRequest, CheckRunning, NotRunning, Register, Write,
              FailWrite, Wait, Receive, GiveUp
<1>2. ASSUME NEW t \in Tasks, End(t)
      PROVE  proc' = proc \/ proc' = "dead"
  BY <1>2, Zenon DEF End, BeginEnd, Close, Abort, BeginFinish, WaitExit, StopDispatcher
<1>3. CASE Core \/ Reader \/ Handlers \/ UNCHANGED vars
  <2>1. proc' = proc \/ proc' = "dead"
    BY <1>3 DEF Core, Answer, Emit, Garble, Exit, Reader, ReadReply, ReadEvent, ReadGarbage,
         EndOfOutput, FailPending, Handlers, AddHandler, RemoveHandler, Dispatch, vars
  <2> QED
    BY <2>1
<1> QED
  BY <1>1, <1>2, <1>3, NextCases

(* The reader knows why it failed, and tells everybody when it does. *)
LEMMA ReaderStep ==
  ASSUME TypeOK, ReaderInv, [Next]_vars
  PROVE  ReaderInv'
<1> USE DEF processVars, readerVars, callVars, EndCall, NextLine
<1> DEFINE Waits(t) == pc[t] \in {"written", "waiting"}
<1>1. ASSUME reader' = reader, readerError' = readerError, garbled' = garbled,
             output' = output \/ (reader = "reading" /\ output' = Tail(output) /\ output # <<>>),
             proc = "none" \/ proc' # "none", proc = "dead" => proc' = "dead",
             \A t \in Tasks : Waits(t)' =>
               (Waits(t) /\ (queue[t] # {} => queue'[t] # {})) \/ proc = "running"
      PROVE  ReaderInv'
  <2>1. Garbage \in ToSet(output)' => Garbage \in ToSet(output)
    BY <1>1 DEF ToSet, TypeOK
  <2>2. CrashReleasesCalls'
    BY <1>1 DEF ReaderInv, CrashReleasesCalls
  <2> QED
    BY <1>1, <2>1, <2>2 DEF ReaderInv
<1>2. ASSUME NEW t \in Tasks, Call(t), ~Start(t)
      PROVE  ReaderInv'
  <2>1. /\ reader' = reader /\ readerError' = readerError /\ garbled' = garbled
        /\ output' = output /\ proc' = proc
    BY <1>2 DEF Call, BeginRequest, CheckRunning, NotRunning, Register, Write,
         FailWrite, Wait, Receive, GiveUp
  <2>2. \A u \in Tasks : u # t => pc'[u] = pc[u] /\ queue'[u] = queue[u]
    BY <1>2 DEF Call, BeginRequest, CheckRunning, NotRunning, Register, Write,
         FailWrite, Wait, Receive, GiveUp, Goto, TypeOK
  <2>3. CASE NotRunning(t) \/ FailWrite(t) \/ Receive(t) \/ GiveUp(t)
    <3>1. PICK how : EndCall(t, how)
      BY <2>3 DEF NotRunning, FailWrite, Receive, GiveUp
    <3>2. ~Waits(t)'
      BY <3>1 DEF Goto, AfterCall, TypeOK, Doings
    <3> QED
      BY <1>1, <2>1, <2>2, <3>2
  <2>4. CASE ~(NotRunning(t) \/ FailWrite(t) \/ Receive(t) \/ GiveUp(t))
    <3>1. Waits(t)' => (Waits(t) /\ queue'[t] = queue[t]) \/ proc = "running"
      BY <1>2, <2>4 DEF Call, BeginRequest, CheckRunning, Register, Write, Wait, Goto, TypeOK
    <3> QED
      BY <1>1, <2>1, <2>2, <3>1
  <2> QED
    BY <2>3, <2>4
<1>3. ASSUME NEW t \in Tasks, Start(t)
      PROVE  ReaderInv'
  BY <1>3 DEF Start, ReaderInv, CrashReleasesCalls
<1>4. ASSUME NEW t \in Tasks, End(t)
      PROVE  ReaderInv'
  <2>1. /\ reader' = reader /\ readerError' = readerError /\ garbled' = garbled
        /\ output' = output /\ queue' = queue
    BY <1>4, Zenon DEF End, BeginEnd, Close, Abort, BeginFinish, WaitExit, StopDispatcher
  <2>2. \A u \in Tasks : Waits(u)' => Waits(u)
    BY <1>4 DEF End, BeginEnd, Close, Abort, BeginFinish, WaitExit, StopDispatcher, AfterEnd,
         Goto, TypeOK
  <2> QED
    BY <1>1, <2>1, <2>2, ProcessStep
<1>5. CASE Core
  <2>1. reader' = reader /\ readerError' = readerError /\ queue' = queue /\ pc' = pc
    BY <1>5 DEF Core, Answer, Emit, Garble, Exit
  <2>2. garbled => garbled'
    BY <1>5 DEF Core, Answer, Emit, Garble, Exit
  <2>3. Garbage \in ToSet(output)' => garbled' \/ Garbage \in ToSet(output)
    <3>1. CASE Garble
      BY <3>1 DEF Garble
    <3>2. CASE Exit
      BY <3>2 DEF Exit, ToSet
    <3>3. ASSUME NEW id \in requests, NEW ok \in BOOLEAN, Answer(id, ok)
          PROVE  Garbage \in ToSet(output)' => Garbage \in ToSet(output)
      <4> DEFINE r == [kind |-> "reply", to |-> id, ok |-> ok]
      <4>1. output' = Append(output, r) /\ r.kind # Garbage.kind
        BY <3>3 DEF Answer, Garbage
      <4> QED
        BY <4>1 DEF ToSet, TypeOK
    <3>4. ASSUME NEW method \in Methods, Emit(method)
          PROVE  Garbage \in ToSet(output)' => Garbage \in ToSet(output)
      <4> DEFINE e == [kind |-> "event", method |-> method, n |-> emitted + 1]
      <4>1. output' = Append(output, e) /\ e.kind # Garbage.kind
        BY <3>4 DEF Emit, Garbage
      <4> QED
        BY <4>1 DEF ToSet, TypeOK
    <3> QED
      BY <1>5, <3>1, <3>2, <3>3, <3>4 DEF Core
  <2> QED
    BY <2>1, <2>2, <2>3, ProcessStep DEF ReaderInv, CrashReleasesCalls
<1>6. CASE ReadReply
  <2>1. /\ reader' = reader /\ readerError' = readerError /\ garbled' = garbled
        /\ output # <<>> /\ output' = Tail(output) /\ proc' = proc /\ pc' = pc
        /\ reader = "reading"
    BY <1>6 DEF ReadReply
  <2>2. \A t \in Tasks : queue[t] # {} => queue'[t] # {}
    BY <1>6 DEF ReadReply
  <2> QED
    BY <1>1, <2>1, <2>2
<1>7. CASE ReadEvent
  <2>1. /\ reader' = reader /\ readerError' = readerError /\ garbled' = garbled
        /\ output # <<>> /\ output' = Tail(output) /\ proc' = proc /\ pc' = pc
        /\ queue' = queue /\ reader = "reading"
    BY <1>7 DEF ReadEvent
  <2> QED
    BY <1>1, <2>1
<1>8. CASE ReadGarbage
  <2>1. Garbage \in ToSet(output)
    BY <1>8 DEF ReadGarbage, ToSet, TypeOK, Garbage, Replies, Events
  <2>2. Garbage \in ToSet(output)' => Garbage \in ToSet(output)
    BY <1>8 DEF ReadGarbage, ToSet, TypeOK
  <2> QED
    BY <1>8, <2>1, <2>2 DEF ReadGarbage, ReaderInv, CrashReleasesCalls
<1>9. CASE EndOfOutput
  BY <1>9 DEF EndOfOutput, ReaderInv, CrashReleasesCalls
<1>10. CASE FailPending
  <2>1. \A t \in Tasks : Waits(t)' => queue'[t] # {}
    BY <1>10 DEF FailPending, Registered
  <2> QED
    BY <1>10, <2>1 DEF FailPending, ReaderInv, CrashReleasesCalls
<1>11. CASE Handlers \/ UNCHANGED vars
  <2>1. /\ reader' = reader /\ readerError' = readerError /\ garbled' = garbled
        /\ output' = output /\ proc' = proc /\ pc' = pc /\ queue' = queue
    BY <1>11 DEF Handlers, AddHandler, RemoveHandler, Dispatch, vars
  <2> QED
    BY <1>1, <2>1
<1> QED
  BY <1>2, <1>3, <1>4, <1>5, <1>6, <1>7, <1>8, <1>9, <1>10, <1>11, NextCases DEF Reader

(* Who ends the client has seen the process end. *)
EndedBy(t) ==
  /\ pc[t] = "stop" => proc = "dead"
  /\ Kind[t] = "close" => \/ pc[t] \in {"idle", "closing", "finish", "waitExit", "stop",
                                        "raised", "done"}
                          \/ doing[t] = "shutdown"
  /\ Kind[t] = "abort" => pc[t] \in {"idle", "finish", "waitExit", "stop", "done"}
  /\ Kind[t] \in {"close", "abort"} /\ pc[t] = "done" => proc = "dead"

(* No step makes a task end while the process lives. *)
LEMMA EndingStep ==
  ASSUME TypeOK, EndInv, [Next]_vars
  PROVE  EndInv'
<1>1. (closed' => proc' = "dead") /\ (\A t \in Tasks : EndedBy(t)') => EndInv'
  BY DEF EndInv, EndedMeansDead, EndedBy
<1>2. (closed => proc = "dead") /\ \A t \in Tasks : EndedBy(t)
  BY DEF EndInv, EndedMeansDead, EndedBy
<1>3. ASSUME NEW t \in Tasks, pc'[t] = pc[t], doing'[t] = doing[t]
      PROVE  EndedBy(t)'
  BY <1>2, <1>3, ProcessStep DEF EndedBy
<1> USE DEF EndCall, Goto
<1>4. ASSUME NEW t \in Tasks, Call(t)
      PROVE  EndInv'
  <2>1. /\ closed' = closed
        /\ \A u \in Tasks : u # t => pc'[u] = pc[u] /\ doing'[u] = doing[u]
    BY <1>4 DEF Call, Start, BeginRequest, CheckRunning, NotRunning, Register, Write,
         FailWrite, Wait, Receive, GiveUp, TypeOK, callVars, endVars
  <2>2. CASE NotRunning(t) \/ FailWrite(t) \/ Receive(t) \/ GiveUp(t)
    <3>1. PICK how : EndCall(t, how)
      BY <2>2 DEF NotRunning, FailWrite, Receive, GiveUp
    <3>2. pc[t] \in {"call", "registered", "waiting"} /\ doing'[t] = doing[t]
          /\ pc'[t] = AfterCall(t, how)
      BY <2>2, <3>1 DEF NotRunning, FailWrite, Receive, GiveUp, TypeOK
    <3>3. EndedBy(t)'
      BY <1>2, <3>2, ProcessStep DEF EndedBy, AfterCall, TypeOK, Doings
    <3> QED
      BY <1>1, <1>2, <1>3, <2>1, <3>3, ProcessStep
  <2>3. CASE Start(t) \/ BeginRequest(t)
    <3>1. Kind[t] \in {"start", "request"} /\ pc'[t] = "call"
      BY <2>3 DEF Start, BeginRequest, TypeOK
    <3> QED
      BY <1>1, <1>2, <1>3, <2>1, <3>1, ProcessStep DEF EndedBy
  <2>4. CASE CheckRunning(t) \/ Register(t) \/ Write(t) \/ Wait(t)
    <3>1. /\ pc[t] \in {"call", "checked", "registered", "written"}
          /\ pc'[t] \in {"checked", "registered", "written", "waiting"}
          /\ doing'[t] = doing[t]
      BY <2>4 DEF CheckRunning, Register, Write, Wait, TypeOK
    <3>2. EndedBy(t)'
      BY <1>2, <3>1 DEF EndedBy
    <3> QED
      BY <1>1, <1>2, <1>3, <2>1, <3>2, ProcessStep
  <2> QED
    BY <1>4, <2>2, <2>3, <2>4 DEF Call
<1>5. ASSUME NEW t \in Tasks, End(t)
      PROVE  EndInv'
  <2>1. \A u \in Tasks : u # t => pc'[u] = pc[u] /\ doing'[u] = doing[u]
    BY <1>5 DEF End, BeginEnd, Close, Abort, BeginFinish, WaitExit, StopDispatcher, TypeOK
  <2>2. closed' => proc' = "dead"
    <3>1. CASE StopDispatcher(t)
      BY <1>2, <3>1, ProcessStep DEF StopDispatcher, EndedBy
    <3>2. CASE ~StopDispatcher(t)
      BY <1>2, <1>5, <3>2, ProcessStep, Zenon
         DEF End, BeginEnd, Close, Abort, BeginFinish, WaitExit, endVars
    <3> QED
      BY <3>1, <3>2
  <2>3. EndedBy(t)'
    <3>1. CASE BeginEnd(t) \/ Close(t)
      <4>1. \/ pc'[t] \in {"closing", "finish"}
            \/ pc'[t] = "call" /\ doing'[t] = "shutdown"
            \/ pc'[t] = AfterEnd(t) /\ closed
        BY <3>1 DEF BeginEnd, Close, TypeOK
      <4>2. Kind[t] # "abort"
        BY <1>2, <3>1 DEF BeginEnd, Close, EndedBy
      <4> QED
        BY <1>2, <4>1, <4>2, ProcessStep DEF EndedBy, AfterEnd
    <3>2. CASE Abort(t) \/ BeginFinish(t) \/ WaitExit(t) \/ StopDispatcher(t)
      <4>1. \/ pc'[t] \in {"finish", "waitExit"}
            \/ pc'[t] = "stop" /\ proc' = "dead"
            \/ pc'[t] = "done" /\ closed
            \/ pc'[t] = AfterEnd(t) /\ (closed \/ pc[t] = "stop")
        BY <3>2 DEF Abort, BeginFinish, WaitExit, StopDispatcher, TypeOK
      <4> QED
        BY <1>2, <4>1, ProcessStep DEF EndedBy, AfterEnd
    <3> QED
      BY <1>5, <3>1, <3>2 DEF End
  <2> QED
    BY <1>1, <1>3, <2>1, <2>2, <2>3
<1>6. CASE Core \/ Reader \/ Handlers \/ UNCHANGED vars
  <2>1. pc' = pc /\ doing' = doing /\ closed' = closed
    BY <1>6 DEF Core, Answer, Emit, Garble, Exit, Reader, ReadReply, ReadEvent, ReadGarbage,
         EndOfOutput, FailPending, Handlers, AddHandler, RemoveHandler, Dispatch,
         vars, endVars, callVars
  <2> QED
    BY <1>1, <1>2, <1>3, <2>1, ProcessStep
<1> QED
  BY <1>4, <1>5, <1>6, NextCases

-----------------------------------------------------------------------------
(* What Put does: the event comes last, and of what was queued at most one *)
(* event is gone, an older one of the same cumulative method.              *)
LEMMA PutContents ==
  ASSUME NEW q \in Seq(Events \cup {Stop}), NEW e \in Events
  PROVE  \E k \in 1..(Len(q) + 1) :
           /\ Len(Put(q, e)) = (IF k <= Len(q) THEN Len(q) ELSE Len(q) + 1)
           /\ Put(q, e)[Len(Put(q, e))] = e
           /\ \A j \in 1..(Len(Put(q, e)) - 1) : Put(q, e)[j] = IF j < k THEN q[j] ELSE q[j + 1]
           /\ k <= Len(q) => e.method \in Cumulative /\ q[k].method = e.method
<1> DEFINE same == {i \in DOMAIN q : q[i].method = e.method}
<1>1. CASE e.method \in Cumulative /\ same # {}
  <2> DEFINE r == RemoveAt(q, Max(same))
  <2>1. Max(same) \in 1..Len(q) /\ Max(same) \in same
    BY <1>1, MaxOfQueue
  <2>2. /\ r \in Seq(Events \cup {Stop}) /\ Len(r) = Len(q) - 1
        /\ \A j \in 1..(Len(q) - 1) : r[j] = IF j < Max(same) THEN q[j] ELSE q[j + 1]
    BY <2>1, RemoveAtProperties
  <2>3. Put(q, e) = Append(r, e)
    BY <1>1 DEF Put
  <2>4. q[Max(same)].method = e.method
    BY <2>1
  <2> HIDE DEF r, same
  <2>5. /\ Len(Append(r, e)) = Len(q) /\ Append(r, e)[Len(q)] = e
        /\ \A j \in 1..(Len(q) - 1) : Append(r, e)[j] = r[j]
    BY <2>1, <2>2
  <2> QED
    BY <1>1, <2>1, <2>2, <2>3, <2>4, <2>5
<1>2. CASE ~(e.method \in Cumulative /\ same # {})
  <2>1. Put(q, e) = Append(q, e)
    BY <1>2 DEF Put
  <2>2. /\ Len(Append(q, e)) = Len(q) + 1 /\ Append(q, e)[Len(q) + 1] = e
        /\ \A j \in 1..Len(q) : Append(q, e)[j] = q[j]
    OBVIOUS
  <2> QED
    BY <2>1, <2>2
<1> QED
  BY <1>1, <1>2

-----------------------------------------------------------------------------
(* The order of events survives lines that come and go in the pipe ...     *)
LEMMA OrderOfOutput ==
  ASSUME TypeOK, OrderInv, callbacks' = callbacks, taken' = taken, delivered' = delivered,
         emitted' \in Nat, emitted <= emitted',
         \A i \in DOMAIN output' : output'[i].kind = "event" =>
           \/ i \in DOMAIN output /\ output'[i] = output[i]
           \/ output'[i].n > emitted /\ output'[i].n <= emitted' /\ i = Len(output) + 1,
         Len(output') \in Nat, DOMAIN output' = 1..Len(output'),
         \A i \in DOMAIN output' : output'[i].kind = "event" => output'[i].n \in Nat
  PROVE  OrderInv'
<1>1. /\ \A e \in taken : e.n \in Nat
      /\ \A i \in DOMAIN output : i \in 1..Len(output) /\ Len(output) \in Nat
      /\ DOMAIN output = 1..Len(output)
      /\ \A i \in DOMAIN output : output[i].kind = "event" => output[i].n \in Nat
      /\ emitted \in Nat
  <2>1. output \in Seq(Replies \cup Events \cup {Garbage}) /\ taken \subseteq Events
        /\ emitted \in 0..MaxEvents
    BY DEF TypeOK
  <2> QED
    BY <2>1, EventsAssumption DEF Events, Replies, Garbage
<1>2. Increasing(output)'
  <2> SUFFICES ASSUME NEW i \in DOMAIN output', NEW j \in DOMAIN output', i < j,
                      output'[i].kind = "event", output'[j].kind = "event"
               PROVE  output'[i].n < output'[j].n
    BY DEF Increasing
  <2>1. i \in Nat /\ j \in Nat /\ Len(output) \in Nat
    BY <1>1 DEF TypeOK
  <2>2. CASE j \in DOMAIN output /\ output'[j] = output[j]
    <3>1. i \in DOMAIN output /\ output'[i] = output[i]
      BY <1>1, <2>1, <2>2
    <3> QED
      BY <2>2, <3>1 DEF OrderInv, Increasing
  <2>3. CASE output'[j].n > emitted /\ j = Len(output) + 1
    <3>1. i \in DOMAIN output /\ output'[i] = output[i]
      BY <1>1, <2>1, <2>3
    <3>2. output[i].n <= emitted /\ output[i].n \in Nat /\ output'[j].n \in Nat
      BY <1>1, <3>1 DEF OrderInv
    <3> QED
      BY <1>1, <2>3, <3>1, <3>2
  <2> QED
    BY <2>2, <2>3
<1>3. ASSUME NEW e \in taken, NEW i \in DOMAIN output', output'[i].kind = "event"
      PROVE  e.n < output'[i].n
  <2>1. e.n <= emitted /\ e.n \in Nat /\ output'[i].n \in Nat
    BY <1>1, <1>3 DEF OrderInv
  <2>2. CASE i \in DOMAIN output /\ output'[i] = output[i]
    BY <1>3, <2>2 DEF OrderInv
  <2>3. CASE output'[i].n > emitted
    BY <1>1, <2>1, <2>3
  <2> QED
    BY <1>3, <2>2, <2>3
<1>4. \A i \in DOMAIN output' : output'[i].kind = "event" => output'[i].n <= emitted'
  BY <1>1 DEF OrderInv
<1>5. \A e \in taken : e.n <= emitted'
  BY <1>1 DEF OrderInv
<1> QED
  BY <1>2, <1>3, <1>4, <1>5 DEF OrderInv, Increasing, EventsKept, ToSet

(* ... or are taken from it without being queued. *)
LEMMA OrderOfTail ==
  ASSUME TypeOK, OrderInv, callbacks' = callbacks, taken' = taken, delivered' = delivered,
         emitted' = emitted, output # <<>>, output' = Tail(output)
  PROVE  OrderInv'
<1>1. \A i \in DOMAIN output' : i + 1 \in DOMAIN output /\ output'[i] = output[i + 1]
  BY DEF TypeOK
<1>2. \A i \in DOMAIN output' : i \in Nat
  BY DEF TypeOK
<1>3. Increasing(output)'
  BY <1>1, <1>2 DEF OrderInv, Increasing
<1> QED
  BY <1>1, <1>3 DEF OrderInv, Increasing, EventsKept, ToSet

(* An event that is queued comes after all that have been taken before.    *)
LEMMA OrderOfPut ==
  ASSUME TypeOK, OrderInv, output # <<>>, output' = Tail(output),
         NEW e \in Events, e = Head(output),
         callbacks' = Put(callbacks, e), taken' = taken \cup {e},
         delivered' = delivered, emitted' = emitted
  PROVE  OrderInv'
<1>1. /\ \A i \in DOMAIN output' : i \in Nat /\ i + 1 \in DOMAIN output
                                    /\ output'[i] = output[i + 1]
      /\ 1 \in DOMAIN output /\ output[1] = e /\ e.kind = "event" /\ e.n \in Nat
      /\ \A i \in DOMAIN output' : 1 < i + 1
  BY DEF TypeOK, Events
<1>2. \A x \in taken : x.n < e.n /\ x.n \in Nat
  BY <1>1 DEF OrderInv, TypeOK, Events
<1>3. \A i \in DOMAIN output' : output'[i].kind = "event" => e.n < output'[i].n
  BY <1>1 DEF OrderInv, Increasing
<1>4. Increasing(output)'
  BY <1>1 DEF OrderInv, Increasing
<1>5. \A i \in DOMAIN callbacks : callbacks[i].kind = "event" => callbacks[i] \in taken
  BY DEF OrderInv, ToSet, Stop
<1>6. PICK k \in 1..(Len(callbacks) + 1) :
           /\ Len(callbacks') = (IF k <= Len(callbacks) THEN Len(callbacks) ELSE Len(callbacks) + 1)
           /\ callbacks'[Len(callbacks')] = e
           /\ \A j \in 1..(Len(callbacks') - 1) :
                callbacks'[j] = IF j < k THEN callbacks[j] ELSE callbacks[j + 1]
           /\ k <= Len(callbacks) => e.method \in Cumulative /\ callbacks[k].method = e.method
  BY PutContents DEF TypeOK
<1>7. /\ Len(callbacks) \in Nat /\ DOMAIN callbacks = 1..Len(callbacks)
      /\ Len(callbacks') \in Nat /\ DOMAIN callbacks' = 1..Len(callbacks')
      /\ Len(callbacks') >= 1
  <2>1. callbacks \in Seq(Events \cup {Stop}) /\ callbacks' \in Seq(Events \cup {Stop})
    BY PutType DEF TypeOK
  <2> QED
    BY <1>6, <2>1
<1>8. \A j \in DOMAIN callbacks' :
        \/ j = Len(callbacks') /\ callbacks'[j] = e
        \/ j < Len(callbacks') /\ j < k /\ j \in DOMAIN callbacks /\ callbacks'[j] = callbacks[j]
        \/ j < Len(callbacks') /\ j >= k /\ j + 1 \in DOMAIN callbacks
           /\ callbacks'[j] = callbacks[j + 1]
  <2> TAKE j \in DOMAIN callbacks'
  <2>1. j = Len(callbacks') \/ j \in 1..(Len(callbacks') - 1)
    BY <1>7
  <2>2. CASE j = Len(callbacks')
    BY <1>6, <2>2
  <2>3. CASE j \in 1..(Len(callbacks') - 1) /\ j < k
    <3>1. j \in DOMAIN callbacks /\ j < Len(callbacks')
      BY <1>6, <1>7, <2>3
    <3> QED
      BY <1>6, <2>3, <3>1
  <2>4. CASE j \in 1..(Len(callbacks') - 1) /\ ~(j < k)
    <3>1. j + 1 \in DOMAIN callbacks /\ j < Len(callbacks') /\ j >= k
      BY <1>6, <1>7, <2>4
    <3> QED
      BY <1>6, <2>4, <3>1
  <2> QED
    BY <2>1, <2>2, <2>3, <2>4
<1>9. Increasing(callbacks)'
  <2> SUFFICES ASSUME NEW i \in DOMAIN callbacks', NEW j \in DOMAIN callbacks', i < j,
                      callbacks'[i].kind = "event", callbacks'[j].kind = "event"
               PROVE  callbacks'[i].n < callbacks'[j].n
    BY DEF Increasing
  <2>1. i \in Nat /\ j \in Nat /\ i < Len(callbacks') /\ k \in Nat
    BY <1>7
  <2>2. PICK a \in DOMAIN callbacks :
          callbacks'[i] = callbacks[a] /\ a = (IF i < k THEN i ELSE i + 1)
    BY <1>8, <2>1
  <2>3. CASE j = Len(callbacks')
    BY <1>2, <1>5, <1>6, <2>2, <2>3
  <2>4. CASE j # Len(callbacks')
    <3>1. PICK b \in DOMAIN callbacks :
            callbacks'[j] = callbacks[b] /\ b = (IF j < k THEN j ELSE j + 1)
      BY <1>8, <2>1, <2>4
    <3>2. a < b
      BY <2>1, <2>2, <3>1
    <3> QED
      BY <2>2, <3>1, <3>2 DEF OrderInv, Increasing
  <2> QED
    BY <2>3, <2>4
<1>10. ToSet(callbacks)' \subseteq taken' \cup {Stop}
  BY <1>8 DEF ToSet, OrderInv
<1>11. \A i \in DOMAIN delivered, j \in DOMAIN callbacks' :
         callbacks'[j].kind = "event" => delivered[i].n < callbacks'[j].n
  <2>1. \A i \in DOMAIN delivered : delivered[i] \in taken
    BY DEF OrderInv, ToSet
  <2> QED
    BY <1>2, <1>8, <2>1 DEF OrderInv
<1>12. EventsKept'
  <2> SUFFICES ASSUME NEW x \in taken'
               PROVE  \/ x \in ToSet(delivered) \cup ToSet(callbacks')
                      \/ x.method \in Cumulative /\ \E f \in taken' : f.method = x.method /\ f.n > x.n
    BY DEF EventsKept, ToSet
  <2>1. CASE x = e
    BY <1>6, <1>7, <2>1 DEF ToSet
  <2>2. CASE x \in taken /\ x \in ToSet(callbacks)
    <3>1. PICK i \in DOMAIN callbacks : x = callbacks[i]
      BY <2>2 DEF ToSet
    <3>2. CASE i = k
      BY <1>2, <1>6, <1>7, <2>2, <3>1, <3>2
    <3>3. CASE i < k
      <4>1. i \in 1..(Len(callbacks') - 1) /\ i \in DOMAIN callbacks'
        BY <1>6, <1>7, <3>3
      <4> QED
        BY <1>6, <3>1, <3>3, <4>1 DEF ToSet
    <3>4. CASE i > k
      <4>1. i - 1 \in 1..(Len(callbacks') - 1) /\ i - 1 \in DOMAIN callbacks' /\ ~(i - 1 < k)
            /\ (i - 1) + 1 = i
        BY <1>6, <1>7, <3>4
      <4> QED
        BY <1>6, <3>1, <4>1 DEF ToSet
    <3> QED
      BY <1>7, <3>2, <3>3, <3>4
  <2>3. CASE x \in taken /\ x \notin ToSet(callbacks)
    BY <2>3 DEF OrderInv, EventsKept
  <2> QED
    BY <2>1, <2>2, <2>3
<1>13. /\ \A x \in taken', i \in DOMAIN output' : output'[i].kind = "event" => x.n < output'[i].n
       /\ \A i \in DOMAIN output' : output'[i].kind = "event" => output'[i].n <= emitted'
       /\ \A x \in taken' : x.n <= emitted'
  BY <1>1, <1>3 DEF OrderInv
<1>14. Increasing(delivered)' /\ ToSet(delivered)' \subseteq taken'
  BY DEF OrderInv, Increasing, ToSet
<1> QED
  BY <1>4, <1>9, <1>10, <1>11, <1>12, <1>13, <1>14 DEF OrderInv

(* What is handed to the handlers comes before what is still queued.       *)
LEMMA OrderOfDispatch ==
  ASSUME TypeOK, OrderInv, Dispatch
  PROVE  OrderInv'
<1> DEFINE e == Head(callbacks)
<1>0. /\ output' = output /\ emitted' = emitted /\ taken' = taken
      /\ callbacks # <<>> /\ callbacks' = Tail(callbacks)
      /\ \/ e = Stop /\ delivered' = delivered
         \/ e # Stop /\ delivered' = Append(delivered, e)
  BY Zenon DEF Dispatch, processVars, eventVars
<1>1. /\ 1 \in DOMAIN callbacks /\ e = callbacks[1] /\ e \in Events \cup {Stop}
      /\ \A i \in DOMAIN callbacks' : i \in Nat /\ i >= 1 /\ i + 1 \in DOMAIN callbacks
                                      /\ callbacks'[i] = callbacks[i + 1]
      /\ \A i \in DOMAIN callbacks : i = 1 \/ (i - 1 \in DOMAIN callbacks'
                                               /\ callbacks'[i - 1] = callbacks[i])
  BY <1>0 DEF TypeOK
<1> HIDE DEF e
<1>2. Increasing(callbacks)' /\ ToSet(callbacks)' \subseteq taken \cup {Stop}
  BY <1>1 DEF OrderInv, Increasing, ToSet
<1>3. \A x \in ToSet(callbacks) : x = e \/ x \in ToSet(callbacks)'
  BY <1>1 DEF ToSet
<1>4. /\ \A x \in taken, i \in DOMAIN output' : output'[i].kind = "event" => x.n < output'[i].n
      /\ \A i \in DOMAIN output' : output'[i].kind = "event" => output'[i].n <= emitted'
      /\ \A x \in taken' : x.n <= emitted'
      /\ Increasing(output)'
  BY <1>0 DEF OrderInv, Increasing
<1>5. CASE e = Stop
  <2>1. delivered' = delivered /\ Stop \notin taken
    BY <1>0, <1>5 DEF TypeOK, Events, Stop
  <2>2. \A i \in DOMAIN delivered', j \in DOMAIN callbacks' :
          callbacks'[j].kind = "event" => delivered'[i].n < callbacks'[j].n
    BY <1>1, <2>1 DEF OrderInv
  <2>3. EventsKept'
    BY <1>0, <1>3, <1>5, <2>1 DEF OrderInv, EventsKept, ToSet
  <2> QED
    BY <1>0, <1>2, <1>4, <2>1, <2>2, <2>3 DEF OrderInv, Increasing, ToSet
<1>6. CASE e # Stop
  <2>0. delivered \in Seq(Events)
    BY DEF TypeOK
  <2>1. /\ e \in taken /\ e \in Events /\ e.kind = "event"
        /\ DOMAIN delivered = 1..Len(delivered) /\ Len(delivered) \in Nat
        /\ DOMAIN delivered' = 1..(Len(delivered) + 1)
        /\ delivered'[Len(delivered) + 1] = e
        /\ \A i \in DOMAIN delivered : delivered'[i] = delivered[i]
    <3>1. e \in Events /\ e \in taken
      BY <1>1, <1>6 DEF OrderInv, ToSet
    <3>2. e.kind = "event"
      BY <3>1 DEF Events
    <3>3. delivered' = Append(delivered, e)
      BY <1>0, <1>6
    <3> QED
      BY <2>0, <3>1, <3>2, <3>3
  <2>2. \A i \in DOMAIN delivered : delivered[i].n < e.n
    BY <1>1, <2>1 DEF OrderInv
  <2>3. \A j \in DOMAIN callbacks' : callbacks'[j].kind = "event" => e.n < callbacks'[j].n
    BY <1>1, <2>1 DEF OrderInv, Increasing
  <2>4. Increasing(delivered)'
    BY <2>1, <2>2 DEF OrderInv, Increasing
  <2>5. \A i \in DOMAIN delivered', j \in DOMAIN callbacks' :
          callbacks'[j].kind = "event" => delivered'[i].n < callbacks'[j].n
    BY <1>1, <2>1, <2>3 DEF OrderInv
  <2>6. ToSet(delivered)' = ToSet(delivered) \cup {e}
    BY <2>1 DEF ToSet
  <2>7. EventsKept'
    BY <1>0, <1>3, <2>6 DEF OrderInv, EventsKept
  <2> QED
    BY <1>0, <1>2, <1>4, <2>1, <2>4, <2>5, <2>6, <2>7 DEF OrderInv
<1> QED
  BY <1>5, <1>6

(* Every step keeps the order of the events. *)
LEMMA OrderStep ==
  ASSUME TypeOK, OrderInv, [Next]_vars
  PROVE  OrderInv'
<1> USE DEF processVars, eventVars, EndCall, NextLine
<1> DEFINE Same == UNCHANGED <<output, emitted, callbacks, taken, delivered>>
<1>1. ASSUME Same PROVE OrderInv'
  BY <1>1 DEF OrderInv, Increasing, EventsKept, ToSet
<1>2. ASSUME NEW t \in Tasks, Call(t)
      PROVE  Same
  BY <1>2 DEF Call, Start, BeginRequest, CheckRunning, NotRunning, Register, Write,
         FailWrite, Wait, Receive, GiveUp
<1>3. ASSUME NEW t \in Tasks, End(t), ~StopDispatcher(t)
      PROVE  Same
  BY <1>3, Zenon DEF End, BeginEnd, Close, Abort, BeginFinish, WaitExit
<1>4. ASSUME NEW t \in Tasks, StopDispatcher(t)
      PROVE  OrderInv'
  <2>1. /\ callbacks' = Append(callbacks, Stop)
        /\ UNCHANGED <<output, emitted, taken, delivered>>
    BY <1>4 DEF StopDispatcher
  <2>2. /\ \A i \in DOMAIN callbacks' :
             \/ i \in DOMAIN callbacks /\ callbacks'[i] = callbacks[i]
             \/ callbacks'[i] = Stop /\ Stop.kind # "event"
        /\ \A i \in DOMAIN callbacks : i \in DOMAIN callbacks' /\ callbacks'[i] = callbacks[i]
    BY <2>1 DEF Stop, TypeOK
  <2>3. Increasing(callbacks)' /\ ToSet(callbacks)' \subseteq ToSet(callbacks) \cup {Stop}
        /\ ToSet(callbacks) \subseteq ToSet(callbacks)'
    BY <2>2 DEF OrderInv, Increasing, ToSet
  <2>4. \A i \in DOMAIN delivered, j \in DOMAIN callbacks' :
          callbacks'[j].kind = "event" => delivered[i].n < callbacks'[j].n
    BY <2>2 DEF OrderInv
  <2>5. EventsKept' /\ Increasing(delivered)' /\ ToSet(delivered)' \subseteq taken
    BY <2>1, <2>3 DEF OrderInv, EventsKept, ToSet, Increasing
  <2> QED
    BY <2>1, <2>3, <2>4, <2>5 DEF OrderInv, Increasing
<1>5. CASE Core
  <2> SUFFICES ASSUME ~Exit
               PROVE  OrderInv'
    BY <1>1 DEF Exit
  <2>0. emitted \in Nat /\ output \in Seq(Replies \cup Events \cup {Garbage})
    BY EventsAssumption DEF TypeOK
  <2>1. PICK l : /\ output' = Append(output, l) /\ l \in Replies \cup Events \cup {Garbage}
                 /\ l.kind = "event" => l.n = emitted + 1 /\ emitted' = emitted + 1
                 /\ emitted' = emitted \/ emitted' = emitted + 1
                 /\ UNCHANGED <<callbacks, taken, delivered>>
    <3>1. CASE Garble
      BY <3>1 DEF Garble, Garbage
    <3>2. ASSUME NEW id \in requests, NEW ok \in BOOLEAN, Answer(id, ok)
          PROVE  /\ output' = Append(output, [kind |-> "reply", to |-> id, ok |-> ok])
                 /\ [kind |-> "reply", to |-> id, ok |-> ok] \in Replies
                 /\ [kind |-> "reply", to |-> id, ok |-> ok].kind # "event"
                 /\ UNCHANGED <<callbacks, taken, delivered, emitted>>
      BY <3>2 DEF Answer, Replies, TypeOK
    <3>3. ASSUME NEW method \in Methods, Emit(method)
          PROVE  /\ output' = Append(output, [kind |-> "event", method |-> method, n |-> emitted + 1])
                 /\ [kind |-> "event", method |-> method, n |-> emitted + 1] \in Events
                 /\ emitted' = emitted + 1
                 /\ UNCHANGED <<callbacks, taken, delivered>>
      BY <2>0, <3>3, EventsAssumption DEF Emit, Events, TypeOK
    <3> QED
      BY <1>5, <3>1, <3>2, <3>3 DEF Core
  <2>2. /\ \A i \in DOMAIN output' :
             \/ i \in DOMAIN output /\ output'[i] = output[i]
             \/ i = Len(output) + 1 /\ output'[i] = l
        /\ Len(output') \in Nat /\ DOMAIN output' = 1..Len(output')
        /\ output' \in Seq(Replies \cup Events \cup {Garbage})
    BY <2>0, <2>1
  <2>3. \A i \in DOMAIN output' : output'[i].kind = "event" => output'[i].n \in Nat
    BY <2>2, EventsAssumption DEF Events, Replies, Garbage
  <2>4. emitted' \in Nat /\ emitted <= emitted'
    BY <2>0, <2>1
  <2>5. \A i \in DOMAIN output' : output'[i].kind = "event" =>
           \/ i \in DOMAIN output /\ output'[i] = output[i]
           \/ output'[i].n > emitted /\ output'[i].n <= emitted' /\ i = Len(output) + 1
    BY <2>0, <2>1, <2>2
  <2> QED
    BY <2>1, <2>2, <2>3, <2>4, <2>5, OrderOfOutput
<1>6. CASE ReadReply \/ ReadGarbage
  BY <1>6, OrderOfTail DEF ReadReply, ReadGarbage
<1>7. CASE ReadEvent
  <2> DEFINE e == Head(output)
  <2>1. output # <<>> /\ output' = Tail(output) /\ e.kind = "event"
        /\ UNCHANGED <<emitted, delivered>>
    BY <1>7 DEF ReadEvent
  <2>2. \/ callbacks' = Put(callbacks, e) /\ taken' = taken \cup {e}
        \/ UNCHANGED <<callbacks, taken>>
    BY <1>7, Zenon DEF ReadEvent
  <2>3. e \in Events
    BY <2>1 DEF TypeOK, Replies, Events, Garbage
  <2> QED
    BY <2>1, <2>2, <2>3, OrderOfTail, OrderOfPut
<1>8. CASE EndOfOutput \/ FailPending
  BY <1>1, <1>8 DEF EndOfOutput, FailPending
<1>9. CASE Dispatch
  BY <1>9, OrderOfDispatch
<1>10. CASE (Handlers /\ ~Dispatch) \/ UNCHANGED vars
  BY <1>1, <1>10 DEF Handlers, AddHandler, RemoveHandler, vars
<1> QED
  BY <1>1, <1>2, <1>3, <1>4, <1>5, <1>6, <1>7, <1>8, <1>9, <1>10, NextCases DEF Reader

-----------------------------------------------------------------------------
(* Every step of the client preserves the invariant. *)
LEMMA Inductive == IInv /\ [Next]_vars => IInv'
<1> SUFFICES ASSUME IInv, [Next]_vars
             PROVE  IInv'
  OBVIOUS
<1>1. CallInv'
  BY CallStep, EndStep, OtherStep, NextCases DEF IInv
<1> QED
  BY <1>1, TypeStep, ReaderStep, EndingStep, OrderStep DEF IInv

(* The inductive invariant holds in every state the client reaches.        *)
THEOREM ClientInvariant == Spec => []IInv
  BY InitInv, Inductive, PTL DEF Spec

(* The state of the client keeps its types, and a response queue never     *)
(* holds more than the one item it is made for.                            *)
THEOREM ClientTypeCorrect == Spec => []TypeOK
<1>1. IInv => TypeOK
  BY DEF IInv
<1> QED
  BY <1>1, ClientInvariant, PTL

(* call() returns the answer to its own request, however late the answers  *)
(* to earlier ones are and in whatever order the Core writes them.         *)
THEOREM AnswersAreOwn == Spec => []AnswersOwn
<1>1. IInv => AnswersOwn
  BY DEF IInv, CallInv
<1> QED
  BY <1>1, ClientInvariant, PTL

(* No answer is lost between the writing of a request and the wait for it. *)
THEOREM RepliesAreKept == Spec => []RepliesReachCallers
<1>1. IInv => RepliesReachCallers
  BY DEF IInv, CallInv
<1> QED
  BY <1>1, ClientInvariant, PTL

(* A Core that dies unexpectedly leaves no caller to its timeout.          *)
THEOREM CrashReleases == Spec => []CrashReleasesCalls
<1>1. IInv => CrashReleasesCalls
  BY DEF IInv, ReaderInv
<1> QED
  BY <1>1, ClientInvariant, PTL

(* close() and abort() do not return before the process has ended.         *)
THEOREM EndedIsDead == Spec => []EndedMeansDead
<1>1. IInv => EndedMeansDead
  BY DEF IInv, EndInv
<1> QED
  BY <1>1, ClientInvariant, PTL

(* Whatever is coalesced, handlers see events in the order of the Core.    *)
THEOREM DeliveredInOrder == Spec => []EventsInOrder
<1>1. IInv => EventsInOrder
  <2> SUFFICES ASSUME IInv, NEW i \in DOMAIN delivered, NEW j \in DOMAIN delivered, i < j
               PROVE  delivered[i].n < delivered[j].n
    BY DEF EventsInOrder
  <2>1. delivered[i] \in Events /\ delivered[j] \in Events
    BY DEF IInv, TypeOK
  <2>2. delivered[i].kind = "event" /\ delivered[j].kind = "event"
    BY <2>1 DEF Events
  <2> QED
    BY <2>2 DEF IInv, OrderInv, Increasing
<1> QED
  BY <1>1, ClientInvariant, PTL

(* Coalescing drops an event only in favour of a newer one of its method.  *)
THEOREM CoalescingKeeps == Spec => []EventsKept
<1>1. IInv => EventsKept
  BY DEF IInv, OrderInv
<1> QED
  BY <1>1, ClientInvariant, PTL

-----------------------------------------------------------------------------
(* CoreClient implements CallTable.                                        *)

(* What has been sent waits in the pipe or has been answered.              *)
LEMMA SentIs == Sent = requests \cup {m.to : m \in Written}
  BY DEF Sent, Written, Answered

(* The same after a step. *)
LEMMA SentIsThen == Sent' = requests' \cup {m.to : m \in Written'}
  BY DEF Sent, Written, Answered

(* The answers written change when the Core answers, and only then.        *)
LEMMA WrittenOfLine ==
  ASSUME TypeOK, NEW l, output' = Append(output, l), replied' = replied
  PROVE  /\ l.kind = "reply" => Written' = Written \cup {l}
         /\ l.kind # "reply" => Written' = Written
<1>1. output \in Seq(Replies \cup Events \cup {Garbage})
  BY DEF TypeOK
<1>2. /\ \A i \in DOMAIN output' : \/ i \in DOMAIN output /\ output'[i] = output[i]
                                   \/ output'[i] = l
      /\ \A i \in DOMAIN output : i \in DOMAIN output' /\ output'[i] = output[i]
      /\ \E i \in DOMAIN output' : output'[i] = l
  <2>1. Len(output) + 1 \in DOMAIN output' /\ output'[Len(output) + 1] = l
    BY <1>1
  <2> QED
    BY <1>1, <2>1
<1>3. CASE l.kind = "reply"
  BY <1>2, <1>3 DEF Written
<1>4. CASE l.kind # "reply"
  BY <1>2, <1>4 DEF Written
<1> QED
  BY <1>3, <1>4

(* The line the reader takes stays written if it is an answer. *)
LEMMA WrittenOfRead ==
  ASSUME TypeOK, NEW kind, NextLine(kind),
         replied' = IF kind = "reply" THEN replied \cup {Head(output)} ELSE replied
  PROVE  Written' = Written
<1>1. output \in Seq(Replies \cup Events \cup {Garbage})
  BY DEF TypeOK
<1>2. /\ \A i \in DOMAIN output' : i + 1 \in DOMAIN output /\ output'[i] = output[i + 1]
      /\ 1 \in DOMAIN output /\ Head(output) = output[1] /\ output[1].kind = kind
      /\ \A i \in DOMAIN output : i = 1 \/ (i - 1 \in DOMAIN output' /\ output'[i - 1] = output[i])
  BY <1>1 DEF NextLine
<1>3. CASE kind = "reply"
  BY <1>2, <1>3 DEF Written
<1>4. CASE kind # "reply"
  BY <1>2, <1>4 DEF Written
<1> QED
  BY <1>3, <1>4

(* One step in the pipes: who writes what. *)
LEMMA PipeStep ==
  ASSUME TypeOK, [Next]_vars
  PROVE  \/ /\ requests' = requests /\ Written' = Written
         \/ \E t \in Tasks : /\ Write(t)
                             /\ requests' = requests \cup {Id(t)} /\ Written' = Written
         \/ \E id \in requests, ok \in BOOLEAN :
              /\ Answer(id, ok)
              /\ requests' = requests \ {id}
              /\ Written' = Written \cup {[kind |-> "reply", to |-> id, ok |-> ok]}
<1> USE DEF processVars, readerVars, endVars, callVars, eventVars, EndCall
<1> DEFINE Still == UNCHANGED <<requests, output, replied>>
<1>1. ASSUME Still
      PROVE  requests' = requests /\ Written' = Written
  BY <1>1 DEF Written
<1>2. ASSUME NEW t \in Tasks, Call(t), ~Write(t)
      PROVE  Still
  BY <1>2 DEF Call, Start, BeginRequest, CheckRunning, NotRunning, Register,
              FailWrite, Wait, Receive, GiveUp
<1>3. ASSUME NEW t \in Tasks, Write(t)
      PROVE  requests' = requests \cup {Id(t)} /\ Written' = Written
  BY <1>3 DEF Write, Written
<1>4. ASSUME NEW t \in Tasks, End(t)
      PROVE  Still
  BY <1>4, Zenon DEF End, BeginEnd, Close, Abort, BeginFinish, WaitExit, StopDispatcher
<1>5. ASSUME NEW id \in requests, NEW ok \in BOOLEAN, Answer(id, ok)
      PROVE  /\ requests' = requests \ {id}
             /\ Written' = Written \cup {[kind |-> "reply", to |-> id, ok |-> ok]}
  BY <1>5, WrittenOfLine DEF Answer
<1>6. ASSUME NEW method \in Methods, Emit(method)
      PROVE  requests' = requests /\ Written' = Written
  <2> DEFINE e == [kind |-> "event", method |-> method, n |-> emitted + 1]
  <2>1. output' = Append(output, e) /\ replied' = replied /\ requests' = requests
    BY <1>6 DEF Emit
  <2>2. e.kind # "reply"
    OBVIOUS
  <2> HIDE DEF e
  <2> QED
    BY <2>1, <2>2, WrittenOfLine
<1>7. ASSUME Garble
      PROVE  requests' = requests /\ Written' = Written
  <2>1. /\ output' = Append(output, Garbage) /\ replied' = replied /\ requests' = requests
        /\ Garbage.kind # "reply"
    BY <1>7 DEF Garble, Garbage
  <2> QED
    BY <2>1, WrittenOfLine
<1>8. ASSUME Reader
      PROVE  requests' = requests /\ Written' = Written
  <2>1. CASE ReadReply
    BY <2>1, WrittenOfRead DEF ReadReply, NextLine
  <2>2. CASE ReadEvent
    BY <2>2, WrittenOfRead DEF ReadEvent, NextLine
  <2>3. CASE ReadGarbage
    BY <2>3, WrittenOfRead DEF ReadGarbage, NextLine
  <2>4. CASE EndOfOutput \/ FailPending
    BY <1>1, <2>4 DEF EndOfOutput, FailPending
  <2> QED
    BY <1>8, <2>1, <2>2, <2>3, <2>4 DEF Reader
<1>9. ASSUME Handlers \/ Exit \/ UNCHANGED vars
      PROVE  Still
  BY <1>9 DEF Handlers, AddHandler, RemoveHandler, Dispatch, Exit, vars
<1> QED
  BY <1>1, <1>2, <1>3, <1>4, <1>5, <1>6, <1>7, <1>8, <1>9, NextCases DEF Core

(* A step of a call, or of an end, moves one task. *)
LEMMA OneTaskMoves ==
  ASSUME TypeOK, NEW t \in Tasks, Call(t) \/ End(t), NEW u \in Tasks, u # t
  PROVE  pc'[u] = pc[u] /\ doing'[u] = doing[u] /\ queue'[u] = queue[u]
<1>1. CASE Call(t)
  BY <1>1 DEF Call, Start, BeginRequest, CheckRunning, NotRunning, Register, Write,
         FailWrite, Wait, Receive, GiveUp, EndCall, Goto, TypeOK, callVars
<1>2. CASE End(t)
  BY <1>2 DEF End, BeginEnd, Close, Abort, BeginFinish, WaitExit, StopDispatcher, Goto, TypeOK
<1> QED
  BY <1>1, <1>2

(* The Core, the reader and the handlers move none. *)
LEMMA NoTaskMoves ==
  ASSUME Core \/ Reader \/ Handlers \/ UNCHANGED vars
  PROVE  pc' = pc /\ doing' = doing
  BY DEF Core, Answer, Emit, Garble, Exit, Reader, ReadReply, ReadEvent, ReadGarbage,
         EndOfOutput, FailPending, Handlers, AddHandler, RemoveHandler, Dispatch, vars,
         callVars, NextLine

(* Parts of TableInv. *)
AnsweredOnce == \A m \in Written : m.to \notin requests
FoundIsRead == \A t \in Tasks : \A m \in queue[t] : m.kind = "reply" => m \in replied
InRole(t) ==
  /\ InCall(t) => Makes(t, doing[t])
  /\ Kind[t] = "request" =>
       doing[t] # "shutdown" /\ pc[t] \notin {"closing", "finish", "waitExit", "stop"}

(* They make it up, before and after a step. *)
LEMMA TableParts ==
  /\ TableInv <=> AnsweredOnce /\ FoundIsRead /\ \A t \in Tasks : InRole(t)
  /\ TableInv' <=> AnsweredOnce' /\ FoundIsRead' /\ \A t \in Tasks : InRole(t)'
<1>1. TableInv <=> AnsweredOnce /\ FoundIsRead /\ \A t \in Tasks : InRole(t)
  BY Zenon DEF TableInv, AnsweredOnce, FoundIsRead, InRole
<1>2. TableInv' <=> AnsweredOnce' /\ FoundIsRead' /\ \A t \in Tasks : InRole(t)'
  BY Zenon DEF TableInv, AnsweredOnce, FoundIsRead, InRole
<1> QED
  BY <1>1, <1>2

(* A task writes a request that was never sent before. *)
LEMMA WriteIsNew ==
  ASSUME TypeOK, CallInv, NEW t \in Tasks, Write(t)
  PROVE  /\ Id(t) \in Ids /\ Id(t) \notin Sent
         /\ Id(t) \notin requests /\ \A m \in Written : m.to # Id(t)
<1>1. doing[t] \in Doings /\ pc[t] = "registered"
  BY DEF TypeOK, Write
<1>2. Id(t) \notin Sent
  BY <1>1 DEF CallInv, Id
<1> QED
  BY <1>1, <1>2, SentIs DEF Id, Ids

(* No request is answered twice. *)
LEMMA AnsweredOnceStep ==
  ASSUME TypeOK, CallInv, AnsweredOnce, [Next]_vars
  PROVE  AnsweredOnce'
<1>1. CASE requests' = requests /\ Written' = Written
  BY <1>1, Zenon DEF AnsweredOnce
<1>2. ASSUME NEW t \in Tasks, Write(t), requests' = requests \cup {Id(t)}, Written' = Written
      PROVE  AnsweredOnce'
  BY <1>2, WriteIsNew DEF AnsweredOnce
<1>3. ASSUME NEW id \in requests, NEW ok \in BOOLEAN, requests' = requests \ {id},
             Written' = Written \cup {[kind |-> "reply", to |-> id, ok |-> ok]}
      PROVE  AnsweredOnce'
  BY <1>3 DEF AnsweredOnce
<1> QED
  BY <1>1, <1>2, <1>3, PipeStep

(* What callers find in their queues, the reader has read. *)
LEMMA FoundIsReadStep ==
  ASSUME TypeOK, FoundIsRead, [Next]_vars
  PROVE  FoundIsRead'
<1> USE DEF processVars, readerVars, endVars, callVars, eventVars, EndCall, NextLine
<1>1. ASSUME replied' = replied,
             \A t \in Tasks : queue'[t] = queue[t] \/ queue'[t] = {} \/ queue'[t] = {Failure}
      PROVE  FoundIsRead'
  BY <1>1 DEF FoundIsRead, Failure
<1>2. ASSUME NEW t \in Tasks, Call(t)
      PROVE  FoundIsRead'
  <2>1. replied' = replied
    BY <1>2 DEF Call, Start, BeginRequest, CheckRunning, NotRunning, Register, Write,
         FailWrite, Wait, Receive, GiveUp
  <2>2. queue' = queue \/ queue' = [queue EXCEPT ![t] = {}]
    BY <1>2 DEF Call, Start, BeginRequest, CheckRunning, NotRunning, Register, Write,
         FailWrite, Wait, Receive, GiveUp
  <2> QED
    BY <1>1, <2>1, <2>2 DEF TypeOK
<1>3. ASSUME NEW t \in Tasks, End(t)
      PROVE  FoundIsRead'
  <2>1. replied' = replied /\ queue' = queue
    BY <1>3, Zenon DEF End, BeginEnd, Close, Abort, BeginFinish, WaitExit, StopDispatcher
  <2> QED
    BY <1>1, <2>1
<1>4. CASE ReadReply
  <2> DEFINE m == Head(output)
  <2>1. /\ replied' = replied \cup {m}
        /\ queue' = [t \in Tasks |-> IF Takes(t, m) /\ queue[t] = {} THEN {m} ELSE queue[t]]
    BY <1>4 DEF ReadReply
  <2> HIDE DEF m
  <2>2. \A t \in Tasks : queue'[t] = {m} \/ queue'[t] = queue[t]
    BY <2>1
  <2> QED
    BY <2>1, <2>2 DEF FoundIsRead
<1>5. CASE FailPending
  BY <1>1, <1>5 DEF FailPending
<1>6. CASE Core \/ (Reader /\ ~ReadReply /\ ~FailPending) \/ Handlers \/ UNCHANGED vars
  <2>1. replied' = replied /\ queue' = queue
    BY <1>6 DEF Core, Answer, Emit, Garble, Exit, Reader, ReadEvent, ReadGarbage,
         EndOfOutput, Handlers, AddHandler, RemoveHandler, Dispatch, vars
  <2> QED
    BY <1>1, <2>1
<1> QED
  BY <1>2, <1>3, <1>4, <1>5, <1>6, NextCases

(* Every task does what it was called for. *)
LEMMA InRoleStep ==
  ASSUME TypeOK, CallInv, [Next]_vars, \A t \in Tasks : InRole(t)
  PROVE  \A t \in Tasks : InRole(t)'
<1>1. ASSUME NEW t \in Tasks, pc'[t] = pc[t], doing'[t] = doing[t]
      PROVE  InRole(t)'
  BY <1>1, Zenon DEF InRole, InCall, Makes
<1>2. ASSUME NEW t \in Tasks, Call(t)
      PROVE  InRole(t)'
  <2>1. CASE Start(t) \/ BeginRequest(t)
    <3>1. /\ pc[t] = "idle" /\ pc'[t] = "call" /\ doing[t] = "request"
          /\ \/ Kind[t] = "start" /\ doing'[t] = "hello"
             \/ Kind[t] = "request" /\ doing'[t] = "request"
      BY <2>1 DEF Start, BeginRequest, Goto, TypeOK, CallInv
    <3> QED
      BY <3>1 DEF InRole, InCall, Makes
  <2>2. CASE CheckRunning(t) \/ Register(t) \/ Write(t) \/ Wait(t)
    <3>1. /\ InCall(t) /\ pc'[t] \in {"checked", "registered", "written", "waiting"}
          /\ doing'[t] = doing[t]
      BY <2>2 DEF CheckRunning, Register, Write, Wait, Goto, TypeOK, InCall
    <3> QED
      BY <3>1 DEF InRole, InCall, Makes
  <2>3. CASE NotRunning(t) \/ FailWrite(t) \/ Receive(t) \/ GiveUp(t)
    <3>1. PICK how : EndCall(t, how)
      BY <2>3 DEF NotRunning, FailWrite, Receive, GiveUp
    <3>2. InCall(t) /\ doing'[t] = doing[t] /\ pc'[t] = AfterCall(t, how) /\ doing[t] \in Doings
      BY <2>3, <3>1 DEF NotRunning, FailWrite, Receive, GiveUp, InCall, EndCall, Goto, TypeOK
    <3> QED
      BY <3>2 DEF InRole, InCall, Makes, AfterCall, Doings
  <2> QED
    BY <1>2, <2>1, <2>2, <2>3 DEF Call
<1>3. ASSUME NEW t \in Tasks, End(t)
      PROVE  InRole(t)'
  <2>1. Kind[t] # "request"
    BY <1>3 DEF End, BeginEnd, Close, Abort, BeginFinish, WaitExit, StopDispatcher, InRole
  <2>2. \/ pc'[t] = "call" /\ doing'[t] = "shutdown"
        \/ pc'[t] \in {"closing", "finish", "waitExit", "stop", "raised", "done"}
    BY <1>3 DEF End, BeginEnd, Close, Abort, BeginFinish, WaitExit, StopDispatcher, AfterEnd,
         Goto, TypeOK
  <2> QED
    BY <2>1, <2>2 DEF InRole, InCall, Makes
<1>4. CASE Core \/ Reader \/ Handlers \/ UNCHANGED vars
  BY <1>1, <1>4, NoTaskMoves
<1>5. ASSUME NEW t \in Tasks, Call(t) \/ End(t), NEW u \in Tasks
      PROVE  InRole(u)'
  BY <1>1, <1>2, <1>3, <1>5, OneTaskMoves
<1> QED
  BY <1>4, <1>5, NextCases

(* Before anybody has called, nothing is sent and nobody does anything.    *)
LEMMA TableInitInv == Init => TableInv
<1> SUFFICES ASSUME Init PROVE TableInv
  OBVIOUS
<1>1. Written = {}
  BY DEF Init, Written
<1> QED
  BY <1>1 DEF Init, TableInv, InCall

(* Every step preserves it. *)
LEMMA TableInductive == IInv /\ TableInv /\ [Next]_vars => TableInv'
<1> SUFFICES ASSUME IInv, TableInv, [Next]_vars
             PROVE  TableInv'
  OBVIOUS
<1>1. TypeOK /\ CallInv
  BY DEF IInv
<1>2. AnsweredOnce /\ FoundIsRead /\ \A t \in Tasks : InRole(t)
  BY TableParts
<1>3. AnsweredOnce' /\ FoundIsRead' /\ \A t \in Tasks : InRole(t)'
  BY <1>1, <1>2, AnsweredOnceStep, FoundIsReadStep, InRoleStep
<1> QED
  BY <1>3, TableParts

(* How the calls of a task stand depends on nothing but this task. *)
LEMMA StandStill ==
  ASSUME NEW t \in Tasks, pc'[t] = pc[t], doing'[t] = doing[t], NEW w
  PROVE  StateOf(t, w)' = StateOf(t, w)
  BY Zenon DEF StateOf, InCall, Makes

(* One call of one task takes a turn: the table changes in this entry. *)
LEMMA OneCallTurns ==
  ASSUME NEW t \in Tasks, NEW what \in Doings, NEW to,
         \A u \in Tasks : u # t => pc'[u] = pc[u] /\ doing'[u] = doing[u],
         \A w \in Doings : StateOf(t, w)' = IF w = what THEN to ELSE StateOf(t, w)
  PROVE  CallState' = [CallState EXCEPT ![<<t, what>>] = to]
<1> DEFINE Then(c) == IF c = <<t, what>> THEN to ELSE CallState[c]
<1>1. /\ CallState' = [c \in Ids |-> StateOf(c[1], c[2])']
      /\ CallState = [c \in Ids |-> StateOf(c[1], c[2])]
  BY DEF CallState
<1>2. ASSUME NEW u \in Tasks, NEW w \in Doings
      PROVE  StateOf(u, w)' = Then(<<u, w>>)
  <2>1. <<u, w>> \in Ids /\ CallState[<<u, w>>] = StateOf(u, w)
    BY <1>1 DEF Ids
  <2>2. u # t => StateOf(u, w)' = StateOf(u, w)
    BY StandStill
  <2> QED
    BY <2>1, <2>2
<1>3. \A c \in Ids : StateOf(c[1], c[2])' = Then(c)
  <2> TAKE c \in Ids
  <2>1. PICK u \in Tasks, w \in Doings : c = <<u, w>>
    BY DEF Ids
  <2> HIDE DEF Then
  <2>2. StateOf(u, w)' = Then(<<u, w>>)
    BY <1>2
  <2> QED
    BY <2>1, <2>2
<1>4. CallState' = [c \in Ids |-> Then(c)]
  BY <1>1, <1>3
<1> QED
  BY <1>1, <1>4

(* None does: the table stays as it is. *)
LEMMA NoCallTurns ==
  ASSUME \A t \in Tasks, w \in Doings : StateOf(t, w)' = StateOf(t, w)
  PROVE  CallState' = CallState
<1>1. /\ CallState' = [c \in Ids |-> StateOf(c[1], c[2])']
      /\ CallState = [c \in Ids |-> StateOf(c[1], c[2])]
  BY DEF CallState
<1>2. \A c \in Ids : StateOf(c[1], c[2])' = StateOf(c[1], c[2])
  BY DEF Ids
<1> QED
  BY <1>1, <1>2

(* A task begins what it is called for. *)
LEMMA BeginTurns ==
  ASSUME TypeOK, CallInv, NEW t \in Tasks, Start(t) \/ BeginRequest(t)
  PROVE  \E what \in Doings : /\ CallState[<<t, what>>] = "none"
                              /\ CallState' = [CallState EXCEPT ![<<t, what>>] = "made"]
<1>1. /\ pc[t] = "idle" /\ pc'[t] = "call" /\ doing[t] = "request"
      /\ \/ Kind[t] = "start" /\ doing'[t] = "hello"
         \/ Kind[t] = "request" /\ doing'[t] = "request"
  BY DEF Start, BeginRequest, Goto, TypeOK, CallInv
<1>2. doing'[t] \in Doings /\ CallState[<<t, doing'[t]>>] = StateOf(t, doing'[t])
  BY <1>1 DEF Doings, CallState, Ids
<1>3. StateOf(t, doing'[t]) = "none"
  BY <1>1 DEF StateOf, InCall
<1>4. \A w \in Doings : StateOf(t, w)' = IF w = doing'[t] THEN "made" ELSE StateOf(t, w)
  BY <1>1 DEF StateOf, InCall, Makes, Doings
<1>5. \A u \in Tasks : u # t => pc'[u] = pc[u] /\ doing'[u] = doing[u]
  BY OneTaskMoves DEF Call
<1>6. CallState' = [CallState EXCEPT ![<<t, doing'[t]>>] = "made"]
  BY <1>2, <1>4, <1>5, OneCallTurns
<1> QED
  BY <1>2, <1>3, <1>6

(* While it is being made a call only moves on. *)
LEMMA CallGoesOn ==
  ASSUME TypeOK, NEW t \in Tasks, CheckRunning(t) \/ Register(t) \/ Write(t) \/ Wait(t)
  PROVE  CallState' = CallState /\ CallState[Id(t)] = "made"
<1>1. InCall(t) /\ InCall(t)' /\ doing'[t] = doing[t] /\ doing[t] \in Doings
  BY DEF CheckRunning, Register, Write, Wait, Goto, TypeOK, InCall
<1>2. pc[t] # "idle" /\ pc[t] # "done" /\ pc'[t] # "idle" /\ pc'[t] # "done"
  BY <1>1 DEF InCall
<1>3. \A w \in Doings : StateOf(t, w)' = StateOf(t, w)
  BY <1>1, <1>2 DEF StateOf, Makes
<1>4. \A u \in Tasks : u # t => pc'[u] = pc[u] /\ doing'[u] = doing[u]
  BY OneTaskMoves DEF Call
<1>5. \A u \in Tasks, w \in Doings : StateOf(u, w)' = StateOf(u, w)
  BY <1>3, <1>4, StandStill
<1> QED
  BY <1>1, <1>5, NoCallTurns DEF CallState, StateOf, Id, Ids

(* It returns with an answer to a request or a hello, else it raises.      *)
LEMMA EndTurns ==
  ASSUME TypeOK, TableInv, NEW t \in Tasks, Call(t), InCall(t), NEW how, EndCall(t, how)
  PROVE  /\ Id(t) \in Ids /\ CallState[Id(t)] = "made"
         /\ \/ /\ how = "answer"
               /\ CallState' = [CallState EXCEPT ![Id(t)] = "returned"]
            \/ CallState' = [CallState EXCEPT ![Id(t)] = "raised"]
<1> DEFINE to == IF how = "answer" /\ doing[t] # "shutdown" THEN "returned" ELSE "raised"
<1>1. /\ pc'[t] = AfterCall(t, how) /\ doing'[t] = doing[t] /\ doing[t] \in Doings
      /\ Makes(t, doing[t])
  BY DEF EndCall, Goto, TypeOK, TableInv
<1>2. ~InCall(t)' /\ pc'[t] # "idle" /\ pc[t] # "idle" /\ pc[t] # "done"
      /\ (pc'[t] = "done" <=> how = "answer" /\ doing[t] # "shutdown")
  BY <1>1 DEF AfterCall, InCall, Doings
<1>3. \A w \in Doings : Makes(t, w)' <=> Makes(t, w)
  BY <1>1 DEF Makes
<1>4. ASSUME NEW w \in Doings
      PROVE  StateOf(t, w)' = IF w = doing[t] THEN to ELSE StateOf(t, w)
  <2>1. CASE w = doing[t]
    BY <1>1, <1>2, <1>3, <2>1 DEF StateOf
  <2>2. CASE w # doing[t] /\ ~Makes(t, w)
    BY <1>1, <1>2, <1>3, <2>2 DEF StateOf
  <2>3. CASE w # doing[t] /\ Makes(t, w)
    <3>1. doing[t] = "shutdown" /\ pc'[t] # "done"
      BY <1>1, <1>2, <2>3 DEF Makes, Doings
    <3> QED
      BY <1>1, <1>2, <1>3, <2>3, <3>1 DEF StateOf
  <2> QED
    BY <2>1, <2>2, <2>3
<1>5. \A u \in Tasks : u # t => pc'[u] = pc[u] /\ doing'[u] = doing[u]
  BY OneTaskMoves
<1>6. CallState' = [CallState EXCEPT ![Id(t)] = to]
  <2> HIDE DEF to
  <2> QED
    BY <1>1, <1>4, <1>5, OneCallTurns DEF Id
<1>7. Id(t) \in Ids /\ CallState[Id(t)] = "made"
  BY <1>1 DEF Id, Ids, CallState, StateOf
<1> QED
  BY <1>6, <1>7

(* What a caller takes for the answer, the Core has written for its request. *)
LEMMA AnswerIsWritten ==
  ASSUME TypeOK, CallInv, TableInv, NEW t \in Tasks, pc[t] = "waiting",
         NEW m \in queue[t], m.kind = "reply", m.ok
  PROVE  [kind |-> "reply", to |-> Id(t), ok |-> TRUE] \in Written
<1>1. m \in replied /\ m.to = Id(t)
  BY DEF TableInv, CallInv, AnswersOwn, Registered
<1>2. m \in Replies
  BY <1>1 DEF TypeOK
<1>3. m = [kind |-> "reply", to |-> Id(t), ok |-> TRUE]
  BY <1>1, <1>2 DEF Replies
<1> QED
  BY <1>1, <1>3 DEF Written

(* close() begins a call when it asks the Core to leave; nothing else that *)
(* ends the client changes how a call stands.                              *)
LEMMA EndingTurns ==
  ASSUME TypeOK, CallInv, TableInv, NEW t \in Tasks, End(t)
  PROVE  \/ CallState' = CallState
         \/ /\ CallState[<<t, "shutdown">>] = "none"
            /\ CallState' = [CallState EXCEPT ![<<t, "shutdown">>] = "made"]
<1>0. \A u \in Tasks : u # t => pc'[u] = pc[u] /\ doing'[u] = doing[u]
  BY OneTaskMoves
<1>1. Kind[t] # "request" /\ ~InCall(t) /\ doing[t] \in Doings
  BY DEF End, BeginEnd, Close, Abort, BeginFinish, WaitExit, StopDispatcher, InCall, TypeOK,
         TableInv
<1>2. CASE doing' = [doing EXCEPT ![t] = "shutdown"] /\ pc' = [pc EXCEPT ![t] = "call"]
           /\ pc[t] = "closing"
  <2>1. doing'[t] = "shutdown" /\ pc'[t] = "call" /\ doing[t] # "shutdown"
    BY <1>2 DEF TypeOK, CallInv
  <2>2. StateOf(t, "shutdown") = "none" /\ StateOf(t, "shutdown")' = "made"
    BY <1>1, <2>1 DEF StateOf, InCall, Makes
  <2>3. StateOf(t, "request")' = StateOf(t, "request")
    BY <1>1, <2>1 DEF StateOf, Makes
  <2>4. StateOf(t, "hello")' = StateOf(t, "hello")
    BY <1>1, <1>2, <2>1 DEF StateOf, Makes, InCall
  <2>5. \A w \in Doings : StateOf(t, w)' = IF w = "shutdown" THEN "made" ELSE StateOf(t, w)
    BY <2>2, <2>3, <2>4 DEF Doings
  <2>6. CallState' = [CallState EXCEPT ![<<t, "shutdown">>] = "made"]
    BY <1>0, <2>5, OneCallTurns DEF Doings
  <2>7. CallState[<<t, "shutdown">>] = "none"
    BY <2>2 DEF CallState, Ids, Doings
  <2> QED
    BY <2>6, <2>7
<1>3. CASE /\ doing'[t] = doing[t] /\ ~InCall(t)'
           /\ pc[t] = "idle" => Kind[t] # "start" /\ doing[t] = "request"
           /\ pc[t] # "done" /\ pc'[t] # "idle" /\ (Kind[t] = "start" => pc'[t] # "done")
  <2>1. \A w \in Doings : Makes(t, w)' <=> Makes(t, w)
    BY <1>3 DEF Makes
  <2>2. ASSUME NEW w \in Doings
        PROVE  StateOf(t, w)' = StateOf(t, w)
    <3>1. CASE ~Makes(t, w)
      BY <1>1, <1>3, <2>1, <3>1 DEF StateOf
    <3>2. CASE Makes(t, w)
      <4>1. w = "shutdown" \/ (w = "hello" /\ Kind[t] = "start")
        BY <1>1, <3>2 DEF Makes
      <4>2. pc[t] # "idle" /\ (pc'[t] = "done" => w = "shutdown")
        BY <1>3, <3>2, <4>1 DEF Makes
      <4> QED
        BY <1>1, <1>3, <2>1, <3>2, <4>2 DEF StateOf
    <3> QED
      BY <3>1, <3>2
  <2>3. \A u \in Tasks, w \in Doings : StateOf(u, w)' = StateOf(u, w)
    BY <1>0, <2>2, StandStill
  <2> QED
    BY <2>3, NoCallTurns
<1>4. CASE BeginEnd(t)
  <2>1. doing[t] = "request" /\ pc[t] = "idle" /\ pc'[t] = "closing" /\ doing' = doing
    BY <1>4 DEF BeginEnd, Goto, TypeOK, CallInv
  <2>2. Kind[t] = "close"
    BY <1>4 DEF BeginEnd
  <2> QED
    BY <1>3, <2>1, <2>2 DEF InCall
<1>5. CASE Close(t)
  <2>1. pc[t] = "closing" /\ pc \in [Tasks -> Pcs]
    BY <1>5 DEF Close, TypeOK
  <2>2. \/ doing' = [doing EXCEPT ![t] = "shutdown"] /\ pc' = [pc EXCEPT ![t] = "call"]
        \/ doing' = doing /\ pc'[t] = AfterEnd(t)
        \/ doing' = doing /\ pc'[t] = "finish"
    BY <1>5, <2>1 DEF Close, Goto
  <2> QED
    BY <1>2, <1>3, <2>1, <2>2 DEF AfterEnd, InCall
<1>6. CASE Abort(t)
  <2>1. /\ pc[t] = "idle" /\ doing[t] = "request" /\ doing' = doing /\ Kind[t] = "abort"
        /\ pc'[t] \in {"done", "finish"}
    BY <1>6 DEF Abort, Goto, TypeOK, CallInv
  <2> QED
    BY <1>3, <2>1 DEF InCall
<1>7. CASE BeginFinish(t) \/ WaitExit(t) \/ StopDispatcher(t)
  <2>1. /\ pc[t] \in {"finish", "waitExit", "stop"} /\ doing' = doing
        /\ pc'[t] \in {"waitExit", "stop", AfterEnd(t)}
    BY <1>7 DEF BeginFinish, WaitExit, StopDispatcher, Goto, TypeOK
  <2> QED
    BY <1>3, <2>1 DEF AfterEnd, InCall
<1> QED
  BY <1>4, <1>5, <1>6, <1>7 DEF End

-----------------------------------------------------------------------------
(* The table changes in one entry. *)
LEMMA TurnOfTable ==
  ASSUME NEW c \in Ids, NEW to, CallState' = [CallState EXCEPT ![c] = to]
  PROVE  Table!Turns(c, CallState[c], to)
<1>1. DOMAIN CallState = Ids
  BY DEF CallState
<1>2. CallState'[c] = to
  BY <1>1
<1> QED
  BY <1>2 DEF Table!Turns

(* Every step of the client is a step of the table, or none.               *)
LEMMA StepIsTableStep ==
  ASSUME IInv, TableInv, [Next]_vars
  PROVE  Table!Next \/ UNCHANGED <<CallState, Sent, Written>>
<1>0. TypeOK /\ CallInv
  BY DEF IInv
<1> DEFINE Quiet == Sent' = Sent /\ Written' = Written
<1>1. ASSUME requests' = requests, Written' = Written
      PROVE  Quiet
  BY <1>1, SentIs, SentIsThen
<1>2. ASSUME NEW t \in Tasks, Call(t) \/ End(t), ~Write(t)
      PROVE  Quiet
  <2>1. \A u \in Tasks : ~Write(u)
    <3>1. ASSUME NEW u \in Tasks, u # t PROVE ~Write(u)
      BY <1>0, <1>2, <3>1, OneTaskMoves DEF Write, Goto, TypeOK
    <3> QED
      BY <1>2, <3>1
  <2>2. output' = output
    <3>1. CASE Call(t)
      BY <3>1 DEF Call, Start, BeginRequest, CheckRunning, NotRunning, Register, Write,
         FailWrite, Wait, Receive, GiveUp, EndCall, processVars
    <3>2. CASE End(t)
      BY <3>2, Zenon DEF End, BeginEnd, Close, Abort, BeginFinish, WaitExit, StopDispatcher,
         processVars
    <3> QED
      BY <1>2, <3>1, <3>2
  <2>3. \A id \in requests, ok \in BOOLEAN : ~Answer(id, ok)
    <3>1. output \in Seq(Replies \cup Events \cup {Garbage})
      BY <1>0 DEF TypeOK
    <3> QED
      BY <2>2, <3>1 DEF Answer
  <2> QED
    BY <1>0, <1>1, <2>1, <2>3, PipeStep
<1>3. ASSUME NEW c \in Ids, CallState[c] = "none",
             CallState' = [CallState EXCEPT ![c] = "made"], Quiet
      PROVE  Table!Next
  BY <1>3, TurnOfTable DEF Table!Next, Table!Begin
<1>4. ASSUME NEW t \in Tasks, Write(t)
      PROVE  Table!Next
  <2>1. CallState' = CallState /\ CallState[Id(t)] = "made"
    BY <1>0, <1>4, CallGoesOn
  <2>2. Id(t) \in Ids /\ Id(t) \notin Sent
    BY <1>0, <1>4, WriteIsNew
  <2>3. requests' = requests \cup {Id(t)} /\ Written' = Written
    BY <1>4 DEF Write, Written, readerVars
  <2>4. Sent' = Sent \cup {Id(t)}
    BY <2>3, SentIs, SentIsThen
  <2> QED
    BY <2>1, <2>2, <2>3, <2>4 DEF Table!Next, Table!Ask
<1>5. ASSUME NEW t \in Tasks, NotRunning(t) \/ FailWrite(t) \/ Receive(t) \/ GiveUp(t)
      PROVE  Table!Next
  <2>1. Quiet
    BY <1>2, <1>5 DEF Call, NotRunning, FailWrite, Receive, GiveUp, Write
  <2>2. PICK how : /\ EndCall(t, how)
                   /\ how = "answer" => [kind |-> "reply", to |-> Id(t), ok |-> TRUE] \in Written
    <3>1. CASE Receive(t)
      BY <1>0, <3>1, AnswerIsWritten DEF Receive
    <3>2. CASE ~Receive(t)
      BY <1>5, <3>2 DEF NotRunning, FailWrite, GiveUp
    <3> QED
      BY <3>1, <3>2
  <2>3. InCall(t) /\ Call(t)
    BY <1>5 DEF NotRunning, FailWrite, Receive, GiveUp, InCall, Call
  <2>4. /\ Id(t) \in Ids /\ CallState[Id(t)] = "made"
        /\ \/ how = "answer" /\ CallState' = [CallState EXCEPT ![Id(t)] = "returned"]
           \/ CallState' = [CallState EXCEPT ![Id(t)] = "raised"]
    BY <1>0, <2>2, <2>3, EndTurns
  <2>5. CASE how = "answer" /\ CallState' = [CallState EXCEPT ![Id(t)] = "returned"]
    BY <2>1, <2>2, <2>4, <2>5, TurnOfTable DEF Table!Next, Table!Return, Table!Reply
  <2>6. CASE CallState' = [CallState EXCEPT ![Id(t)] = "raised"]
    BY <2>1, <2>4, <2>6, TurnOfTable DEF Table!Next, Table!Raise
  <2> QED
    BY <2>4, <2>5, <2>6
<1>6. ASSUME NEW t \in Tasks, Start(t) \/ BeginRequest(t)
      PROVE  Table!Next
  <2>1. Quiet
    BY <1>2, <1>6 DEF Call, Start, BeginRequest, Write
  <2> QED
    BY <1>0, <1>3, <1>6, <2>1, BeginTurns DEF Ids
<1>7. ASSUME NEW t \in Tasks, CheckRunning(t) \/ Register(t) \/ Wait(t)
      PROVE  UNCHANGED <<CallState, Sent, Written>>
  <2>1. Quiet
    BY <1>2, <1>7 DEF Call, CheckRunning, Register, Wait, Write
  <2> QED
    BY <1>0, <1>7, <2>1, CallGoesOn
<1>8. ASSUME NEW t \in Tasks, End(t)
      PROVE  Table!Next \/ UNCHANGED <<CallState, Sent, Written>>
  <2>1. Quiet
    BY <1>2, <1>8 DEF End, BeginEnd, Close, Abort, BeginFinish, WaitExit, StopDispatcher, Write
  <2>2. <<t, "shutdown">> \in Ids
    BY DEF Ids, Doings
  <2> QED
    BY <1>0, <1>3, <1>8, <2>1, <2>2, EndingTurns
<1>9. ASSUME Core \/ Reader \/ Handlers \/ UNCHANGED vars
      PROVE  Table!Next \/ UNCHANGED <<CallState, Sent, Written>>
  <2>1. CallState' = CallState
    <3>1. \A t \in Tasks, w \in Doings : StateOf(t, w)' = StateOf(t, w)
      BY <1>9, NoTaskMoves, StandStill
    <3> QED
      BY <3>1, NoCallTurns
  <2>2. \A t \in Tasks : ~Write(t)
    BY <1>0, <1>9, NoTaskMoves DEF Write, Goto, TypeOK
  <2>3. CASE requests' = requests /\ Written' = Written
    BY <1>1, <2>1, <2>3
  <2>4. ASSUME NEW id \in requests, NEW ok \in BOOLEAN, requests' = requests \ {id},
               Written' = Written \cup {[kind |-> "reply", to |-> id, ok |-> ok]}
        PROVE  Table!Next
    <3>1. id \in Ids /\ id \in Sent /\ \A m \in Written : m.to # id
      <4>1. requests \subseteq Ids
        BY <1>0 DEF TypeOK
      <4>2. \A m \in Written : m.to \notin requests
        BY DEF TableInv
      <4>3. id \in Sent
        BY SentIs
      <4> QED
        BY <4>1, <4>2, <4>3
    <3>2. Sent' = Sent
      <4> DEFINE r == [kind |-> "reply", to |-> id, ok |-> ok]
      <4>1. r.to = id /\ Written' = Written \cup {r}
        BY <2>4
      <4> HIDE DEF r
      <4>2. {m.to : m \in Written'} = {m.to : m \in Written} \cup {id}
        BY <4>1
      <4> QED
        BY <2>4, <4>2, SentIs, SentIsThen
    <3> QED
      BY <2>1, <2>4, <3>1, <3>2 DEF Table!Next, Table!Answer, Table!Reply
  <2> QED
    BY <1>0, <2>2, <2>3, <2>4, PipeStep
<1> QED
  BY <1>4, <1>5, <1>6, <1>7, <1>8, <1>9, NextCases DEF Call

(* Before anybody has called, the table is empty.                          *)
LEMMA InitIsTableInit == Init => Table!Init
<1> SUFFICES ASSUME Init PROVE Table!Init
  OBVIOUS
<1>1. Written = {} /\ Sent = {}
  BY DEF Init, Written, Sent, Answered
<1>2. CallState = [c \in Ids |-> "none"]
  <2>1. \A c \in Ids : StateOf(c[1], c[2]) = "none"
    BY DEF Init, Ids, StateOf, InCall
  <2> QED
    BY <2>1 DEF CallState
<1> QED
  BY <1>1, <1>2 DEF Table!Init

(* Nobody is answered twice, no queue holds what was not read, and a       *)
(* thread makes only the calls it was started for.                         *)
THEOREM TableInvariant == Spec => []TableInv
<1>1. IInv /\ TableInv /\ [Next]_vars => TableInv'
  BY TableInductive
<1> QED
  BY <1>1, TableInitInv, ClientInvariant, PTL DEF Spec

(* Every call that is made of the client ends once, and a result it        *)
(* returns is the one answer of the Core to this very request; a request   *)
(* is sent once at most, and only while its call is being made.            *)
THEOREM TableKept == Spec => ImplementsTable
<1>1. IInv /\ TableInv /\ [Next]_vars => [Table!Next]_<<CallState, Sent, Written>>
  BY StepIsTableStep
<1> QED
  BY <1>1, InitIsTableInit, ClientInvariant, TableInvariant, PTL
     DEF Spec, ImplementsTable, Table!Spec
=============================================================================
