----------------------------- MODULE BattleCapture -----------------------------
(***************************************************************************)
(* One battle capture (services/battle_capture_service.py with its start,  *)
(* polling and stop, and finalize_summary of the persistence service).     *)
(* The worker (bcAt) stages a row in the account's database, starts the    *)
(* capture in the Core, polls it until _stop_event is set, reads the final *)
(* record, saves it in two transactions and cleans up behind itself.  The  *)
(* user stops or discards it, and the dispatcher of the Core's events      *)
(* (bcEvent) writes the same fields, both at any time.                     *)
(*                                                                         *)
(* A summary is what it is worth: "empty" and "battle" are of events,      *)
(* "void" and "final" of the last read.  The account is not switched while *)
(* a capture runs (ui/app.py refuses it), so the context stays current.    *)
(***************************************************************************)

VARIABLES
  bcNative,         \* the source: the game's component, or packets
  bcAt,             \* where the worker stands
  bcStop,           \* _stop_event
  bcDiscard,        \* _discard_requested
  bcAsk,            \* a request of the user between its checks and its effect
  bcEvent,          \* a summary event between its wrapper, its handler and its notice
  bcHandlers,       \* the event handlers are registered
  bcWaiting,        \* _packet_capture_waiting
  bcSummary,        \* _latest_summary
  bcSource,         \* _source_battle_record_id is known
  bcFault,          \* _event_error
  bcStarted,        \* capture_started
  bcCore,           \* the capture in the Core; "lost" once a stop has failed
  bcRow,            \* the staged row, battle_axis_capture
  bcRecord,         \* the summary in battle_record
  bcFailed,         \* terminal_error
  bcOutcome,        \* what the worker has settled
  bcResult,         \* the terminal state it has published
  bcShown           \* the state published last

askVars == <<bcStop, bcDiscard, bcAsk>>
heardVars == <<bcEvent, bcSummary, bcFault>>
captureVars == <<bcNative, bcAt, askVars, heardVars, bcHandlers, bcWaiting, bcSource, bcStarted,
                 bcCore, bcRow, bcRecord, bcFailed, bcOutcome, bcResult, bcShown>>

CaptureInit ==
  /\ bcNative \in BOOLEAN /\ bcAt = "open"
  /\ bcStop = FALSE /\ bcDiscard = FALSE /\ bcAsk = "none" /\ bcEvent = "none"
  /\ bcHandlers = FALSE /\ bcWaiting = FALSE /\ bcSummary = "none" /\ bcSource = FALSE
  /\ bcFault = FALSE /\ bcStarted = FALSE /\ bcCore = "idle" /\ bcRow = "none"
  /\ bcRecord = "none" /\ bcFailed = FALSE /\ bcOutcome = "none" /\ bcResult = "none"
  /\ bcShown = "starting"

-----------------------------------------------------------------------------
(* The worker, _run *)

Worthless == bcSummary \in {"none", "empty", "void"}

\* _has_observed_battle_evidence
Evidence == bcSource \/ ~Worthless

GoOn(at) == bcAt' = at /\ UNCHANGED <<bcFailed, bcOutcome>>
FailCapture == bcAt' = "leave" /\ bcFailed' = TRUE /\ UNCHANGED bcOutcome
SettleCapture(outcome) == bcAt' = "leave" /\ bcOutcome' = outcome /\ UNCHANGED bcFailed

\* What the steps up to the capture, and those after it, leave alone.
StoreSame == UNCHANGED <<bcRow, bcRecord>>
CoreSame == UNCHANGED <<bcStarted, bcCore>>
RestSame == UNCHANGED <<bcNative, askVars, bcEvent, bcResult>>

OpenClient ==        \* a start that was cancelled by a stop is no error
  /\ bcAt = "open"
  /\ \/ GoOn("stage")
     \/ bcAt' = "report" /\ bcFailed' = TRUE /\ UNCHANGED bcOutcome
     \/ bcAt' = "report" /\ bcStop /\ bcOutcome' = "empty" /\ UNCHANGED bcFailed
  /\ StoreSame /\ CoreSame /\ RestSame
  /\ UNCHANGED <<bcHandlers, bcWaiting, bcSummary, bcSource, bcFault, bcShown>>

StageCapture ==      \* begin_capture
  /\ bcAt = "stage"
  /\ \/ GoOn("connect") /\ bcRow' = "capturing"
     \/ FailCapture /\ UNCHANGED bcRow
  /\ CoreSame /\ RestSame
  /\ UNCHANGED <<bcRecord, bcHandlers, bcWaiting, bcSummary, bcSource, bcFault, bcShown>>

ConnectClient ==     \* a Core for packets has capture_wait_v1
  /\ bcAt = "connect"
  /\ \/ GoOn("start") /\ bcHandlers' = TRUE /\ bcWaiting' = ~bcNative
     \/ FailCapture /\ UNCHANGED <<bcHandlers, bcWaiting>>
  /\ StoreSame /\ CoreSame /\ RestSame
  /\ UNCHANGED <<bcSummary, bcSource, bcFault, bcShown>>

Begun ==
  /\ bcStarted' = TRUE /\ bcWaiting' = FALSE
  /\ bcShown' = (IF bcStop THEN bcShown ELSE "running")

\* A start or a stop that raises may have had its effect; a failed stop makes the client
\* give the Core up when it is closed, a stop that times out aborts it.
TryStart ==
  \/ bcNative /\ GoOn("poll") /\ bcCore' = "on" /\ Begun
  \/ ~bcNative /\ GoOn("wait") /\ bcCore' = "on" /\ UNCHANGED <<bcStarted, bcWaiting, bcShown>>
  \/ /\ FailCapture /\ bcCore' \in (IF bcNative THEN {"idle", "on"} ELSE {"idle", "lost"})
     /\ UNCHANGED <<bcStarted, bcWaiting, bcShown>>

StartCapture_Deaf ==
  /\ bcAt = "start" /\ ~bcStop /\ TryStart
  /\ StoreSame /\ RestSame /\ UNCHANGED <<bcHandlers, bcSummary, bcSource, bcFault>>

StartCapture ==      \* "not ready" is tried again every half second
  /\ bcAt = "start"
  /\ \/ ~bcStop /\ TryStart
     \/ /\ bcStop /\ SettleCapture("empty") /\ bcWaiting' = TRUE
        /\ UNCHANGED <<bcCore, bcStarted, bcShown>>
  /\ StoreSame /\ RestSame /\ UNCHANGED <<bcHandlers, bcSummary, bcSource, bcFault>>

AwaitPackets ==      \* _wait_packet_running; what is not ready is stopped
  /\ bcAt = "wait"
  /\ \/ ~bcStop /\ GoOn("poll") /\ Begun /\ UNCHANGED bcCore
     \/ SettleCapture("empty") /\ bcCore' = "idle" /\ UNCHANGED <<bcStarted, bcWaiting, bcShown>>
     \/ FailCapture /\ bcCore' \in {"idle", "lost"} /\ UNCHANGED <<bcStarted, bcWaiting, bcShown>>
  /\ StoreSame /\ RestSame /\ UNCHANGED <<bcHandlers, bcSummary, bcSource, bcFault>>

Poll ==              \* a read that times out is tried again
  /\ bcAt = "poll"
  /\ \/ bcStop /\ GoOn("halt") /\ UNCHANGED bcSource
     \/ ~bcStop /\ GoOn("poll") /\ bcSource' = TRUE
     \/ ~bcStop /\ FailCapture /\ UNCHANGED bcSource
  /\ StoreSame /\ CoreSame /\ RestSame
  /\ UNCHANGED <<bcHandlers, bcWaiting, bcSummary, bcFault, bcShown>>

HaltCapture ==       \* stop_capture_with_timeout
  /\ bcAt = "halt"
  /\ \/ GoOn("verdict") /\ bcCore' = "idle" /\ bcStarted' = FALSE
     \/ FailCapture /\ bcCore' = "lost" /\ UNCHANGED bcStarted
  /\ StoreSame /\ RestSame
  /\ UNCHANGED <<bcHandlers, bcWaiting, bcSummary, bcSource, bcFault, bcShown>>

Verdict ==
  /\ bcAt = "verdict"
  /\ \/ bcDiscard /\ SettleCapture("none")
     \/ ~bcDiscard /\ bcFault /\ FailCapture
     \/ ~bcDiscard /\ ~bcFault /\ ~bcNative /\ ~Evidence /\ SettleCapture("empty")
     \/ ~bcDiscard /\ ~bcFault /\ (bcNative \/ Evidence) /\ GoOn("read")
  /\ StoreSame /\ CoreSame /\ RestSame
  /\ UNCHANGED <<bcHandlers, bcWaiting, bcSummary, bcSource, bcFault, bcShown>>

ReadFinal ==         \* _read_final_axis; without a record the summary, which may be missing
  /\ bcAt = "read"
  /\ \/ GoOn("judge") /\ bcSummary' \in {"void", "final"}
     \/ SettleCapture("none") /\ UNCHANGED bcSummary
     \/ FailCapture /\ UNCHANGED bcSummary
  /\ StoreSame /\ CoreSame /\ RestSame
  /\ UNCHANGED <<bcHandlers, bcWaiting, bcSource, bcFault, bcShown>>

Judge ==
  /\ bcAt = "judge"
  /\ IF Worthless THEN SettleCapture("empty") ELSE GoOn("save")
  /\ StoreSame /\ CoreSame /\ RestSame
  /\ UNCHANGED <<bcHandlers, bcWaiting, bcSummary, bcSource, bcFault, bcShown>>

SaveRecord ==        \* finalize_summary up to insert_auto_summary_snapshot
  /\ bcAt = "save"
  /\ \/ Worthless /\ SettleCapture("empty") /\ bcRow' = "none" /\ UNCHANGED bcRecord
     \/ ~Worthless /\ GoOn("finish") /\ bcRecord' = bcSummary /\ UNCHANGED bcRow
     \/ FailCapture /\ StoreSame
  /\ CoreSame /\ RestSame
  /\ UNCHANGED <<bcHandlers, bcWaiting, bcSummary, bcSource, bcFault, bcShown>>

FinishRecord ==      \* finalize_battle_axis_capture, a transaction of its own
  /\ bcAt = "finish"
  /\ \/ SettleCapture("saved") /\ bcRow' = "finalized"
     \/ FailCapture /\ UNCHANGED bcRow
  /\ CoreSame /\ RestSame
  /\ UNCHANGED <<bcRecord, bcHandlers, bcWaiting, bcSummary, bcSource, bcFault, bcShown>>

Leave ==             \* the handlers go, a capture that still runs is stopped, errors or not
  /\ bcAt = "leave" /\ GoOn("close") /\ bcHandlers' = FALSE /\ UNCHANGED bcStarted
  /\ IF bcStarted THEN bcCore' \in {"idle", "lost"} ELSE UNCHANGED bcCore
  /\ StoreSame /\ RestSame /\ UNCHANGED <<bcWaiting, bcSummary, bcSource, bcFault, bcShown>>

CloseCapture ==      \* packets have a Core of their own, the component's goes on unless lost
  /\ bcAt = "close" /\ bcAt' = "unstage" /\ bcFailed' \in {bcFailed, TRUE}
  /\ bcCore' = (IF bcNative /\ bcCore = "on" THEN "on" ELSE "idle")
  /\ StoreSame /\ RestSame
  /\ UNCHANGED <<bcOutcome, bcStarted, bcHandlers, bcWaiting, bcSummary, bcSource, bcFault, bcShown>>

Unstage_Hidden ==
  /\ bcAt = "unstage" /\ GoOn("report")
  /\ IF bcRow = "capturing" THEN bcRow' \in {"none", "capturing"} ELSE UNCHANGED bcRow
  /\ CoreSame /\ RestSame
  /\ UNCHANGED <<bcRecord, bcHandlers, bcWaiting, bcSummary, bcSource, bcFault, bcShown>>

Unstage ==           \* discard_capture of what was not finalized
  /\ bcAt = "unstage" /\ bcAt' = "report" /\ UNCHANGED bcOutcome
  /\ \/ bcRow' = (IF bcRow = "capturing" THEN "none" ELSE bcRow) /\ UNCHANGED bcFailed
     \/ bcRow = "capturing" /\ bcFailed' = TRUE /\ UNCHANGED bcRow
  /\ CoreSame /\ RestSame
  /\ UNCHANGED <<bcRecord, bcHandlers, bcWaiting, bcSummary, bcSource, bcFault, bcShown>>

Status ==
  IF bcFailed THEN "error"
  ELSE IF bcDiscard THEN "discarded_restart"
  ELSE CASE bcOutcome = "saved" -> "saved"
         [] bcOutcome = "empty" -> "skipped_empty"
         [] bcOutcome = "none"  -> "final_summary_unavailable"

Report ==
  /\ bcAt = "report" /\ GoOn("end") /\ bcResult' = Status /\ bcShown' = Status
  /\ StoreSame /\ CoreSame /\ UNCHANGED <<bcNative, askVars, heardVars>>
  /\ UNCHANGED <<bcHandlers, bcWaiting, bcSource>>

CaptureRun ==
  \/ OpenClient \/ StageCapture \/ ConnectClient \/ StartCapture \/ AwaitPackets \/ Poll
  \/ HaltCapture \/ Verdict \/ ReadFinal \/ Judge \/ SaveRecord \/ FinishRecord
  \/ Leave \/ CloseCapture \/ Unstage \/ Report

\* What is certain to happen: nobody has to make the game ready or to end a battle.
CaptureGoesOn == CaptureRun /\ (bcStop \/ bcAt \notin {"start", "wait", "poll"})

-----------------------------------------------------------------------------
(* The user: request_stop, and request_discard for "record again".  Both   *)
(* look at the thread first and set _stop_event last.                      *)

WorkerSame ==
  UNCHANGED <<bcNative, bcAt, bcHandlers, bcWaiting, bcSource, bcStarted, bcCore, bcRow,
              bcRecord, bcFailed, bcOutcome, bcResult>>

RequestStop ==
  /\ bcAsk = "none" /\ bcAt # "end" /\ ~bcDiscard /\ bcAsk' = "asked"
  /\ WorkerSame /\ UNCHANGED <<bcStop, bcDiscard, heardVars, bcShown>>

RequestDiscard ==
  /\ bcAsk = "none" /\ bcAt # "end" /\ bcAsk' = "asked" /\ bcDiscard' = TRUE
  /\ WorkerSame /\ UNCHANGED <<bcStop, heardVars, bcShown>>

SignalStop ==
  /\ bcAsk = "asked" /\ bcAsk' = "none" /\ bcShown' = "stopping" /\ bcStop' = TRUE
  /\ WorkerSame /\ UNCHANGED <<bcDiscard, heardVars>>

-----------------------------------------------------------------------------
(* The dispatcher of events: it calls a handler it has looked up, even if  *)
(* that one has been removed since.                                        *)

CallHandler ==
  /\ bcEvent = "none" /\ bcHandlers /\ bcEvent' = "called"
  /\ WorkerSame /\ UNCHANGED <<askVars, bcSummary, bcFault, bcShown>>

IgnoreSummary ==
  /\ bcEvent = "called" /\ (bcWaiting \/ bcDiscard) /\ bcEvent' = "none"
  /\ WorkerSame /\ UNCHANGED <<askVars, bcSummary, bcFault, bcShown>>

RefuseSummary ==     \* an event that does not parse ends the capture
  /\ bcEvent = "called" /\ ~bcWaiting /\ ~bcDiscard /\ bcEvent' = "none"
  /\ bcFault' = TRUE /\ bcStop' = TRUE
  /\ WorkerSame /\ UNCHANGED <<bcDiscard, bcAsk, bcSummary, bcShown>>

TakeSummary ==       \* totals grow from event to event; the last read may be ahead of them
  /\ bcEvent = "called" /\ ~bcWaiting /\ ~bcDiscard /\ bcEvent' = "taken"
  /\ \/ bcSummary' = "battle"
     \/ bcSummary # "battle" /\ bcSummary' = "empty"
  /\ WorkerSame /\ UNCHANGED <<askVars, bcFault, bcShown>>

ShowSummary ==
  /\ bcEvent = "taken" /\ bcEvent' = "none"
  /\ bcShown' = (IF bcShown = "stopping" THEN "stopping" ELSE "running")
  /\ WorkerSame /\ UNCHANGED <<askVars, bcSummary, bcFault>>

CaptureStopped ==    \* event.capture.status: the end of the scene, or of the packet capture
  /\ bcHandlers /\ bcAt # "start" /\ bcStop' = TRUE
  /\ \/ bcNative /\ bcShown' = "stopping" /\ UNCHANGED bcFault
     \/ ~bcNative /\ ~bcStop /\ bcFault' = TRUE /\ UNCHANGED bcShown
  /\ WorkerSame /\ UNCHANGED <<bcDiscard, bcAsk, bcEvent, bcSummary>>

CaptureNext ==
  \/ CaptureRun \/ RequestStop \/ RequestDiscard \/ SignalStop
  \/ CallHandler \/ IgnoreSummary \/ RefuseSummary \/ TakeSummary \/ ShowSummary
  \/ CaptureStopped

CaptureSpec == CaptureInit /\ [][CaptureNext]_captureVars /\ WF_captureVars(CaptureGoesOn)

-----------------------------------------------------------------------------
(* Properties *)

CaptureStates == {"open", "stage", "connect", "start", "wait", "poll", "halt", "verdict", "read",
                  "judge", "save", "finish", "leave", "close", "unstage", "report", "end"}
Results == {"error", "discarded_restart", "saved", "skipped_empty", "final_summary_unavailable"}

\* Types of the state.
CaptureTypeOK ==
  /\ bcNative \in BOOLEAN /\ bcAt \in CaptureStates
  /\ bcStop \in BOOLEAN /\ bcDiscard \in BOOLEAN /\ bcAsk \in {"none", "asked"}
  /\ bcEvent \in {"none", "called", "taken"}
  /\ bcSummary \in {"none", "empty", "battle", "void", "final"} /\ bcFault \in BOOLEAN
  /\ bcHandlers \in BOOLEAN /\ bcWaiting \in BOOLEAN /\ bcSource \in BOOLEAN
  /\ bcStarted \in BOOLEAN /\ bcCore \in {"idle", "on", "lost"}
  /\ bcRow \in {"none", "capturing", "finalized"} /\ bcRecord \in {"none", "battle", "final"}
  /\ bcFailed \in BOOLEAN /\ bcOutcome \in {"none", "empty", "saved"}
  /\ bcResult \in Results \cup {"none"}
  /\ bcShown \in Results \cup {"starting", "running", "stopping"}

\* What the worker reports at its end is so: a report said to be saved is stored with its
\* hits, one said to be empty or unavailable is not stored at all, and without an error
\* no staged row stays behind and no capture goes on in the Core.
CaptureReported ==
  bcAt = "end" =>
    /\ bcResult = "saved" => bcRecord # "none" /\ bcRow = "finalized"
    /\ bcResult \in {"skipped_empty", "final_summary_unavailable"} =>
         bcRecord = "none" /\ bcRow = "none"
    /\ bcResult # "error" => bcRow # "capturing" /\ bcCore = "idle"

\* A capture that is told to stop, by the user, an error or the end of the scene, ends.
CaptureEnds == bcStop ~> bcAt = "end"

\* A capture that was discarded stores nothing (the docstring of request_discard).  Not so:
\* the worker looks at the request once, before the last read.
DiscardNeverSaves == bcResult = "discarded_restart" => bcRecord = "none"

\* What is stored is the summary of the last read.  Not so: an event that was called late
\* replaces it between the read and the save.
StoredIsFinal == bcRecord \in {"none", "final"}

\* No capture outlives its worker.  Not so: a start that raises may have had its effect,
\* nobody stops it then, and the session's Core goes on.
NothingCaptures == bcAt = "end" => bcCore # "on"

\* The terminal state stays.  Not so: a request that has seen the thread alive, or an event
\* that was called late, publishes a running state after it.
ResultStays == bcResult # "none" => bcShown = bcResult
=============================================================================
