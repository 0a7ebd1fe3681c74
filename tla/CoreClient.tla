----------------------------- MODULE CoreClient -----------------------------
(***************************************************************************)
(* NteCoreClient (integrations/nte_core.py): JSON-RPC over the pipes of a  *)
(* Core subprocess.  Caller threads register a request and wait for its    *)
(* answer; a reader thread takes the lines of stdout and hands answers to  *)
(* their callers and events to a coalescing queue; a dispatcher thread     *)
(* runs the handlers of these events; some thread ends the process with    *)
(* close() or abort().                                                     *)
(*                                                                         *)
(* A task is a thread that makes one call of the client: start(), one      *)
(* request, close() or abort().  A request is named by its task and by     *)
(* what it does for it, for a start() that fails makes two: core.hello and *)
(* the core.shutdown of its close().                                       *)
(*                                                                         *)
(* Left out: the stderr thread, the content of requests and events, the    *)
(* joining of the threads (one second at most), the closing of the output  *)
(* streams after it, and output that is not even UTF-8.  Handlers return.  *)
(* A terminate() has no action of its own: the Core may obey it or not,    *)
(* and it may exit at any moment anyway.  Operators with a suffix are      *)
(* mutants, as in NativeSession.                                           *)
(***************************************************************************)
EXTENDS Naturals, Sequences, SequencesExt

CONSTANTS Tasks,      \* the threads
          Kind,       \* what each of them calls
          Methods,    \* the methods of the Core's events
          MaxEvents   \* bound: events in a behaviour

Kinds == {"start", "request", "close", "abort"}

(* the events of which only the newest one counts *)
Cumulative == {"event.battle.summary", "event.inventory.items_observed"}

ASSUME TasksAssumption == Kind \in [Tasks -> Kinds]
ASSUME EventsAssumption == MaxEvents \in Nat /\ "stop" \notin Methods

VARIABLES
  proc,        \* the Core process: "none", "running" or "dead"
  stdin,       \* the client has not closed its end of the input pipe
  requests,    \* requests in the input pipe
  output,      \* lines in the output pipe
  reader,      \* the stdout thread: "off", "reading", "failing" or "done"
  readerError, \* _reader_error is set
  expected,    \* _expected_exit
  closed,      \* _closed
  pc,          \* where each task is
  doing,       \* the request it makes: "hello", "request" or "shutdown"
  queue,       \* the response queue of that request, of size one
  listening,   \* the methods with a handler
  callbacks,   \* _callback_events
  dispatching, \* the dispatcher thread runs
  emitted,     \* how many events the Core has written
  garbled,     \* the Core has written a line that is no JSON-RPC
  replied,     \* history: the answers the reader has read
  taken,       \* history: events the reader has queued for handlers
  delivered    \* history: events that have been handed to their handlers

processVars == <<proc, stdin, requests, output, emitted, garbled>>
readerVars == <<reader, readerError, replied>>
endVars == <<expected, closed>>
callVars == <<pc, doing, queue>>
eventVars == <<listening, callbacks, dispatching, taken, delivered>>
vars == <<processVars, readerVars, endVars, callVars, eventVars>>

Doings == {"hello", "request", "shutdown"}
Pcs == {"idle", "call", "checked", "registered", "written", "waiting", "closing",
        "finish", "waitExit", "stop", "raised", "done"}

Ids == Tasks \X Doings
Replies == [kind : {"reply"}, to : Ids, ok : BOOLEAN]
Events == [kind : {"event"}, method : Methods, n : 1..MaxEvents]
Garbage == [kind |-> "garbage"]
Failure == [kind |-> "failure"]              \* the reader's exception
Stop == [kind |-> "stop", method |-> "stop"] \* _CALLBACK_STOP

Goto(t, where) == pc' = [pc EXCEPT ![t] = where]

Init ==
  /\ proc = "none" /\ stdin = TRUE
  /\ requests = {} /\ output = <<>>
  /\ emitted = 0 /\ garbled = FALSE
  /\ reader = "off" /\ readerError = FALSE /\ replied = {}
  /\ expected = FALSE /\ closed = FALSE
  /\ pc = [t \in Tasks |-> "idle"]
  /\ doing = [t \in Tasks |-> "request"]
  /\ queue = [t \in Tasks |-> {}]
  /\ listening = {} /\ callbacks = <<>> /\ dispatching = FALSE
  /\ taken = {} /\ delivered = <<>>

-----------------------------------------------------------------------------
(* call *)

Id(t) == <<t, doing[t]>>

(* the request of t is in _pending *)
Registered(t) == pc[t] \in {"registered", "written", "waiting"}

(* start: Popen, the threads, then core.hello *)
Start(t) ==
  /\ Kind[t] = "start" /\ pc[t] = "idle" /\ proc = "none"
  /\ proc' = "running" /\ reader' = "reading" /\ dispatching' = TRUE
  /\ doing' = [doing EXCEPT ![t] = "hello"]
  /\ Goto(t, "call")
  /\ UNCHANGED <<stdin, requests, output, emitted, garbled, readerError, replied,
                 endVars, queue, listening, callbacks, taken, delivered>>

BeginRequest(t) ==
  /\ Kind[t] = "request" /\ pc[t] = "idle"
  /\ Goto(t, "call")
  /\ UNCHANGED <<processVars, readerVars, endVars, doing, queue, eventVars>>

(* Where a task goes when its request ends: a hello that fails closes the  *)
(* client; close() survives a shutdown that fails with NteCoreError.       *)
AfterCall(t, how) ==
  CASE doing[t] = "request"  -> IF how = "answer" THEN "done" ELSE "raised"
    [] doing[t] = "hello"    -> IF how = "answer" THEN "done" ELSE "closing"
    [] doing[t] = "shutdown" -> IF how = "valueError" THEN "raised" ELSE "finish"

EndCall(t, how) ==
  /\ Goto(t, AfterCall(t, how))
  /\ queue' = [queue EXCEPT ![t] = {}]
  /\ UNCHANGED <<readerVars, endVars, doing, eventVars>>

CheckRunning(t) ==
  /\ pc[t] = "call" /\ proc = "running"
  /\ Goto(t, "checked")
  /\ UNCHANGED <<processVars, readerVars, endVars, doing, queue, eventVars>>

NotRunning(t) ==
  /\ pc[t] = "call" /\ proc # "running"
  /\ EndCall(t, "error")
  /\ UNCHANGED processVars

Register(t) ==
  /\ pc[t] = "checked"
  /\ Goto(t, "registered")
  /\ UNCHANGED <<processVars, readerVars, endVars, doing, queue, eventVars>>

Write(t) ==
  /\ pc[t] = "registered" /\ stdin /\ proc = "running"
  /\ requests' = requests \cup {Id(t)}
  /\ Goto(t, "written")
  /\ UNCHANGED <<proc, stdin, output, emitted, garbled, readerVars, endVars,
                 doing, queue, eventVars>>

(* a broken pipe is an OSError; a stream that close() or abort() has closed *)
(* meanwhile raises ValueError, which call() does not translate            *)
FailWrite(t) ==
  /\ pc[t] = "registered" /\ ~(stdin /\ proc = "running")
  /\ EndCall(t, IF stdin THEN "error" ELSE "valueError")
  /\ UNCHANGED processVars

Wait(t) ==
  /\ pc[t] = "written"
  /\ Goto(t, "waiting")
  /\ UNCHANGED <<processVars, readerVars, endVars, doing, queue, eventVars>>

(* Mutant: a response with an error is a result, too. *)
Receive_Unchecked(t) ==
  /\ pc[t] = "waiting"
  /\ \E m \in queue[t] : EndCall(t, IF m.kind = "reply" THEN "answer" ELSE "error")
  /\ UNCHANGED processVars

(* wait_core_response returns; the request leaves _pending *)
Receive(t) ==
  /\ pc[t] = "waiting"
  /\ \E m \in queue[t] :
       EndCall(t, IF m.kind = "reply" /\ m.ok THEN "answer" ELSE "error")
  /\ UNCHANGED processVars

(* its timeout has passed, or its check_cancelled raises *)
GiveUp(t) ==
  /\ pc[t] = "waiting"
  /\ EndCall(t, "error")
  /\ UNCHANGED processVars

Call(t) ==
  \/ Start(t) \/ BeginRequest(t) \/ CheckRunning(t) \/ NotRunning(t)
  \/ Register(t) \/ Write(t) \/ FailWrite(t) \/ Wait(t) \/ Receive(t) \/ GiveUp(t)

-----------------------------------------------------------------------------
(* shutdown, close, abort and _finish_process *)

(* Where a task goes when the client is closed: a start() raises what made *)
(* it call close().                                                        *)
AfterEnd(t) == IF Kind[t] = "start" THEN "raised" ELSE "done"

(* only a client whose start has begun is ever handed to somebody else *)
BeginEnd(t) ==
  /\ Kind[t] = "close" /\ pc[t] = "idle" /\ proc # "none"
  /\ Goto(t, "closing")
  /\ UNCHANGED <<processVars, readerVars, endVars, doing, queue, eventVars>>

(* close() asks the Core to leave only if somebody reads its answer *)
MayShutDown == proc = "running" /\ ~readerError

(* close() *)
Close(t) ==
  /\ pc[t] = "closing"
  /\ IF closed THEN Goto(t, AfterEnd(t)) /\ UNCHANGED <<expected, doing>>
     ELSE IF MayShutDown
       THEN /\ expected' = TRUE
            /\ doing' = [doing EXCEPT ![t] = "shutdown"]
            /\ Goto(t, "call")
       ELSE /\ expected' = (expected \/ proc = "running")
            /\ Goto(t, "finish")
            /\ UNCHANGED doing
  /\ UNCHANGED <<processVars, readerVars, closed, queue, eventVars>>

Abort(t) ==
  /\ Kind[t] = "abort" /\ pc[t] = "idle" /\ proc # "none"
  /\ expected' = (expected \/ ~closed)
  /\ Goto(t, IF closed THEN "done" ELSE "finish")
  /\ UNCHANGED <<processVars, readerVars, closed, doing, queue, eventVars>>

(* _finish_process *)
BeginFinish(t) ==
  /\ pc[t] = "finish"
  /\ IF closed
       THEN Goto(t, AfterEnd(t)) /\ UNCHANGED <<expected, stdin>>
       ELSE expected' = TRUE /\ stdin' = FALSE /\ Goto(t, "waitExit")
  /\ UNCHANGED <<proc, requests, output, emitted, garbled, readerVars, closed,
                 doing, queue, eventVars>>

(* Mutant: it waits until the Core leaves of its own accord. *)
WaitExit_Patient(t) ==
  /\ pc[t] = "waitExit" /\ proc = "dead"
  /\ Goto(t, "stop")
  /\ UNCHANGED <<processVars, readerVars, endVars, doing, queue, eventVars>>

(* wait, then terminate, then kill *)
WaitExit(t) ==
  /\ pc[t] = "waitExit"
  /\ proc' = "dead"
  /\ Goto(t, "stop")
  /\ UNCHANGED <<stdin, requests, output, emitted, garbled, readerVars, endVars,
                 doing, queue, eventVars>>

StopDispatcher(t) ==
  /\ pc[t] = "stop"
  /\ callbacks' = Append(callbacks, Stop)
  /\ closed' = TRUE
  /\ Goto(t, AfterEnd(t))
  /\ UNCHANGED <<processVars, readerVars, expected, doing, queue, listening,
                 dispatching, taken, delivered>>

End(t) ==
  \/ BeginEnd(t) \/ Close(t) \/ Abort(t) \/ BeginFinish(t) \/ WaitExit(t)
  \/ StopDispatcher(t)

-----------------------------------------------------------------------------
(* The Core: it may answer requests in any order, write events or garbage, *)
(* stop answering, or exit.                                                *)

Answer(id, ok) ==
  /\ proc = "running" /\ id \in requests
  /\ requests' = requests \ {id}
  /\ output' = Append(output, [kind |-> "reply", to |-> id, ok |-> ok])
  /\ UNCHANGED <<proc, stdin, emitted, garbled, readerVars, endVars, callVars,
                 eventVars>>

Emit(method) ==
  /\ proc = "running" /\ emitted < MaxEvents
  /\ emitted' = emitted + 1
  /\ output' = Append(output, [kind |-> "event", method |-> method, n |-> emitted + 1])
  /\ UNCHANGED <<proc, stdin, requests, garbled, readerVars, endVars, callVars,
                 eventVars>>

Garble ==
  /\ proc = "running" /\ ~garbled
  /\ garbled' = TRUE
  /\ output' = Append(output, Garbage)
  /\ UNCHANGED <<proc, stdin, requests, emitted, readerVars, endVars, callVars,
                 eventVars>>

Exit ==
  /\ proc = "running"
  /\ proc' = "dead"
  /\ UNCHANGED <<stdin, requests, output, emitted, garbled, readerVars, endVars,
                 callVars, eventVars>>

Core ==
  \/ \E id \in requests, ok \in BOOLEAN : Answer(id, ok)
  \/ \E method \in Methods : Emit(method)
  \/ Garble \/ Exit

-----------------------------------------------------------------------------
(* _read_stdout *)

NextLine(kind) ==
  /\ reader = "reading" /\ output # <<>> /\ Head(output).kind = kind
  /\ output' = Tail(output)
  /\ UNCHANGED <<proc, stdin, requests, emitted, garbled>>

(* Mutant: a request is known once its caller waits. *)
Takes_Waiting(t, m) == pc[t] = "waiting" /\ m.to = Id(t)

(* Mutant: the answer is for the task, whatever it asks now. *)
Takes_AnyRequest(t, m) == Registered(t) /\ m.to[1] = t

(* the entry of _pending under the id of m *)
Takes(t, m) == Registered(t) /\ m.to = Id(t)

(* put_nowait: a queue that is full stays as it is *)
ReadReply ==
  /\ NextLine("reply")
  /\ LET m == Head(output) IN
       /\ queue' = [t \in Tasks |->
                      IF Takes(t, m) /\ queue[t] = {} THEN {m} ELSE queue[t]]
       /\ replied' = replied \cup {m}
  /\ UNCHANGED <<reader, readerError, endVars, pc, doing, eventVars>>

(* Mutant: the newer observation takes the place of the older one. *)
Put_InPlace(q, e) ==
  IF e.method \in Cumulative /\ \E i \in DOMAIN q : q[i].method = e.method
    THEN [i \in DOMAIN q |-> IF q[i].method = e.method THEN e ELSE q[i]]
    ELSE Append(q, e)

(* Mutant: every event replaces the one of its method before it. *)
Put_All(q, e) ==
  LET same == {i \in DOMAIN q : q[i].method = e.method} IN
  Append(IF same # {} THEN RemoveAt(q, Max(same)) ELSE q, e)

(* CoalescingEventQueue.put: of a cumulative method the latest queued event *)
(* is removed                                                              *)
Put(q, e) ==
  LET same == {i \in DOMAIN q : q[i].method = e.method} IN
  Append(IF e.method \in Cumulative /\ same # {} THEN RemoveAt(q, Max(same)) ELSE q, e)

(* An event without a handler goes to the queue of get_event, which no     *)
(* part of the application uses.                                           *)
ReadEvent ==
  /\ NextLine("event")
  /\ LET e == Head(output) IN
       IF e.method \in listening
         THEN callbacks' = Put(callbacks, e) /\ taken' = taken \cup {e}
         ELSE UNCHANGED <<callbacks, taken>>
  /\ UNCHANGED <<readerVars, endVars, callVars, listening, dispatching, delivered>>

ReadGarbage ==
  /\ NextLine("garbage")
  /\ reader' = "failing" /\ readerError' = TRUE
  /\ UNCHANGED <<replied, endVars, callVars, eventVars>>

(* the finally clause, when the output has ended *)
EndOfOutput ==
  /\ reader = "reading" /\ output = <<>> /\ proc = "dead"
  /\ IF expected
       THEN reader' = "done" /\ UNCHANGED readerError
       ELSE reader' = "failing" /\ readerError' = TRUE
  /\ UNCHANGED <<processVars, replied, endVars, callVars, eventVars>>

(* Mutant: only callers that wait already are told. *)
FailPending_Waiting ==
  /\ reader = "failing"
  /\ queue' = [t \in Tasks |->
                 IF pc[t] = "waiting" /\ queue[t] = {} THEN {Failure} ELSE queue[t]]
  /\ reader' = "done"
  /\ UNCHANGED <<processVars, readerError, replied, endVars, pc, doing, eventVars>>

FailPending ==
  /\ reader = "failing"
  /\ queue' = [t \in Tasks |->
                 IF Registered(t) /\ queue[t] = {} THEN {Failure} ELSE queue[t]]
  /\ reader' = "done"
  /\ UNCHANGED <<processVars, readerError, replied, endVars, pc, doing, eventVars>>

Reader == ReadReply \/ ReadEvent \/ ReadGarbage \/ EndOfOutput \/ FailPending

-----------------------------------------------------------------------------
(* add_event_handler, remove_event_handler and _dispatch_events *)

AddHandler(method) ==
  /\ method \notin listening
  /\ listening' = listening \cup {method}
  /\ UNCHANGED <<processVars, readerVars, endVars, callVars, callbacks, dispatching,
                 taken, delivered>>

RemoveHandler(method) ==
  /\ method \in listening
  /\ listening' = listening \ {method}
  /\ UNCHANGED <<processVars, readerVars, endVars, callVars, callbacks, dispatching,
                 taken, delivered>>

Dispatch ==
  /\ dispatching /\ callbacks # <<>>
  /\ callbacks' = Tail(callbacks)
  /\ IF Head(callbacks) = Stop
       THEN dispatching' = FALSE /\ UNCHANGED delivered
       ELSE delivered' = Append(delivered, Head(callbacks)) /\ UNCHANGED dispatching
  /\ UNCHANGED <<processVars, readerVars, endVars, callVars, listening, taken>>

Handlers ==
  \/ \E method \in Methods : AddHandler(method) \/ RemoveHandler(method)
  \/ Dispatch

(* every task has ended, has not begun, or cannot *)
Terminated ==
  /\ \A t \in Tasks : pc[t] \in {"idle", "done", "raised"}
  /\ UNCHANGED vars

Next == Terminated \/ (\E t \in Tasks : Call(t) \/ End(t)) \/ Core \/ Reader \/ Handlers

Spec == Init /\ [][Next]_vars

(* The client's threads go on, timeouts pass, and nobody obliges the Core. *)
Fairness ==
  /\ \A t \in Tasks : WF_vars(pc[t] # "idle" /\ (Call(t) \/ End(t)))
  /\ WF_vars(Reader) /\ WF_vars(Dispatch)

FairSpec == Spec /\ Fairness

-----------------------------------------------------------------------------
(* Properties. *)

Answers == Replies \cup {Failure}

TypeOK ==
  /\ proc \in {"none", "running", "dead"}
  /\ stdin \in BOOLEAN /\ readerError \in BOOLEAN /\ expected \in BOOLEAN
  /\ closed \in BOOLEAN /\ dispatching \in BOOLEAN /\ garbled \in BOOLEAN
  /\ requests \subseteq Ids /\ replied \subseteq Replies
  /\ output \in Seq(Replies \cup Events \cup {Garbage})
  /\ reader \in {"off", "reading", "failing", "done"}
  /\ pc \in [Tasks -> Pcs] /\ doing \in [Tasks -> Doings]
  /\ queue \in [Tasks -> SUBSET Answers]
  /\ \A t \in Tasks : \A m, n \in queue[t] : m = n  \* maxsize=1
  /\ listening \subseteq Methods
  /\ callbacks \in Seq(Events \cup {Stop})
  /\ emitted \in 0..MaxEvents
  /\ taken \subseteq Events /\ delivered \in Seq(Events)

(* An answer reaches the request it belongs to and no other: neither another *)
(* thread's nor the next request of the same thread, when it comes late.   *)
AnswersOwn ==
  \A t \in Tasks : Registered(t) =>
    \A m \in queue[t] : m.kind = "reply" => m.to = Id(t)

Answered == {m.to : m \in replied}

(* An answer that the reader has read while its caller was there is in its *)
(* queue: none slips in between the sending of a request and the wait.     *)
RepliesReachCallers ==
  \A t \in Tasks :
    pc[t] \in {"written", "waiting"} /\ Id(t) \in Answered => queue[t] # {}

(* When the Core dies by itself and the reader has noticed, nobody is left *)
(* waiting for a timeout, not even a request sent at that very moment.     *)
CrashReleasesCalls ==
  reader = "done" /\ readerError /\ ~garbled =>
    \A t \in Tasks : pc[t] \in {"written", "waiting"} => queue[t] # {}

(* When close() or abort() has returned, the process is gone.              *)
EndedMeansDead ==
  \A t \in Tasks :
    Kind[t] \in {"close", "abort"} /\ pc[t] = "done" => proc = "dead"

(* Handlers see the events in the order the Core wrote them ...            *)
EventsInOrder ==
  \A i, j \in DOMAIN delivered : i < j => delivered[i].n < delivered[j].n

(* ... and miss none but a summary or observation that a newer one of its  *)
(* kind has replaced.                                                      *)
EventsKept ==
  \A e \in taken :
    \/ e \in ToSet(delivered) \cup ToSet(callbacks)
    \/ e.method \in Cumulative /\ \E f \in taken : f.method = e.method /\ f.n > e.n

(* Once the client is closed its dispatcher thread ends.                   *)
DispatcherEnds == closed ~> ~dispatching

(* close() and abort() end, however the Core behaves.                      *)
EndingEnds ==
  \A t \in Tasks :
    Kind[t] \in {"close", "abort"} /\ pc[t] # "idle" ~> pc[t] \in {"done", "raised"}

(* "Abort the owned process and release blocked requests."                 *)
AbortReleasesCalls ==
  \A a \in Tasks : Kind[a] = "abort" /\ pc[a] = "done" /\ reader = "done" =>
    \A t \in Tasks : pc[t] = "waiting" => queue[t] # {}

-----------------------------------------------------------------------------
(* The inductive invariant of the safety properties.                       *)

(* Requests that have been written, wherever they or their answers are. *)
Sent == requests \cup Answered \cup
        {output[i].to : i \in {j \in DOMAIN output : output[j].kind = "reply"}}

(* A task has sent only the request it is making, or an earlier one; its   *)
(* queue holds an answer to this request while it is registered, else none. *)
CallInv ==
  /\ \A t \in Tasks, w \in Doings : <<t, w>> \in Sent =>
       IF doing[t] = w
         THEN pc[t] \notin {"idle", "call", "checked", "registered"}
         ELSE w # "shutdown" /\ (w = "hello" => doing[t] = "shutdown")
  /\ \A t \in Tasks : pc[t] = "idle" => doing[t] = "request"
  /\ \A t \in Tasks : pc[t] = "closing" => doing[t] # "shutdown"
  /\ \A t \in Tasks : ~Registered(t) => queue[t] = {}
  /\ AnswersOwn
  /\ RepliesReachCallers

(* The reader fails on garbage, or because the process is dead.            *)
ReaderInv ==
  /\ proc = "none" => reader = "off"
  /\ readerError => reader \in {"failing", "done"}
  /\ reader = "failing" => readerError
  /\ readerError /\ ~garbled => proc = "dead"
  /\ Garbage \in ToSet(output) => garbled
  /\ CrashReleasesCalls

(* Whoever ends the client has seen the process end.                       *)
EndInv ==
  /\ closed => proc = "dead"
  /\ \A t \in Tasks : pc[t] = "stop" => proc = "dead"
  /\ \A t \in Tasks :
       /\ Kind[t] = "close" => pc[t] \in {"idle", "closing"} \/ doing[t] = "shutdown"
                                \/ pc[t] \in {"finish", "waitExit", "stop", "raised", "done"}
       /\ Kind[t] = "abort" => pc[t] \in {"idle", "finish", "waitExit", "stop", "done"}
  /\ EndedMeansDead

Increasing(s) ==
  \A i, j \in DOMAIN s :
    i < j /\ s[i].kind = "event" /\ s[j].kind = "event" => s[i].n < s[j].n

(* On their way from the pipe to the handlers the events stay in order.    *)
OrderInv ==
  /\ Increasing(delivered) /\ Increasing(callbacks) /\ Increasing(output)
  /\ \A e \in taken, i \in DOMAIN output : output[i].kind = "event" => e.n < output[i].n
  /\ \A i \in DOMAIN output : output[i].kind = "event" => output[i].n <= emitted
  /\ \A e \in taken : e.n <= emitted
  /\ \A i \in DOMAIN delivered, j \in DOMAIN callbacks :
       callbacks[j].kind = "event" => delivered[i].n < callbacks[j].n
  /\ ToSet(delivered) \subseteq taken
  /\ ToSet(callbacks) \subseteq taken \cup {Stop}
  /\ EventsKept

IInv ==
  /\ TypeOK
  /\ CallInv
  /\ ReaderInv
  /\ EndInv
  /\ OrderInv

-----------------------------------------------------------------------------
(* What the client promises its callers.                                   *)

(* The answers of the Core, read or not. *)
Written == replied \cup {output[i] : i \in {j \in DOMAIN output : output[j].kind = "reply"}}

(* What a task was called for, and what its close() does besides. *)
Makes(t, what) ==
  \/ what = "hello" /\ Kind[t] = "start"
  \/ what = "request" /\ Kind[t] = "request"
  \/ what = "shutdown" /\ doing[t] = "shutdown"

InCall(t) == pc[t] \in {"call", "checked", "registered", "written", "waiting"}

(* How a call stands.  To close() the answer to its shutdown makes no      *)
(* difference.                                                             *)
StateOf(t, what) ==
  IF doing[t] = what /\ InCall(t) THEN "made"
  ELSE IF pc[t] = "idle" \/ ~Makes(t, what) THEN "none"
  ELSE IF pc[t] = "done" /\ what # "shutdown" THEN "returned"
  ELSE "raised"

CallState == [c \in Ids |-> StateOf(c[1], c[2])]

(* A call returns the Core's answer to it and nothing else, once, and only *)
(* what is being called is sent.                                           *)
Table == INSTANCE CallTable
  WITH Calls <- Ids, call <- CallState, asked <- Sent, answers <- Written
ImplementsTable == Table!Spec

(* Besides IInv: a request is answered once at most, what a caller finds   *)
(* was read, and no task makes the calls of another kind.                  *)
TableInv ==
  /\ \A m \in Written : m.to \notin requests
  /\ \A t \in Tasks : \A m \in queue[t] : m.kind = "reply" => m \in replied
  /\ \A t \in Tasks : InCall(t) => Makes(t, doing[t])
  /\ \A t \in Tasks : Kind[t] = "request" =>
       doing[t] # "shutdown" /\ pc[t] \notin {"closing", "finish", "waitExit", "stop"}
=============================================================================
