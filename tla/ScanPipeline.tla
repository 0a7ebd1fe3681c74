----------------------------- MODULE ScanPipeline -----------------------------
(***************************************************************************)
(* A full visual scan: the scanner and the parser of                       *)
(* services/scan_parse_coordinator.py, the end of the scan in              *)
(* services/streaming_scan_service.py and app/workers.py, and the snapshot *)
(* of services/full_visual_snapshot_commit.py.                             *)
(* The scanner's thread puts every screenshot in a bounded queue, blocking *)
(* when it is full; the consumer parses them; at the end _STOP is put and  *)
(* both are joined.  With spMode "after" the screenshots are parsed by the *)
(* scanner's thread once the scan is over.  The stop key and a change of   *)
(* the account or of the page come between any two steps.                  *)
(***************************************************************************)
EXTENDS Integers, Sequences

CONSTANTS
  Total,            \* total_drives
  QueueSize         \* capture_queue_maxsize (0: unbounded)

ASSUME PipelineAssumption == Total \in Nat /\ QueueSize \in Nat

VARIABLES
  spMode,           \* during, after: parse_during_scan
  spAt,             \* the scanner's thread: idle, or what it does next
  spTaken,          \* screenshots captured
  spCount,          \* captured_count, what start_scan returned
  spBatch,          \* captured_payloads
  spRaised,         \* start_scan raised
  spQueue,          \* captured_queue; 0 is _STOP
  spOpen,           \* its unfinished tasks, what join() waits for
  spWorker,         \* the consumer: none, get, parse, end
  spItem,           \* the screenshot it parses
  spParsed,         \* items recognised
  spPending,        \* screenshots the user has to complete by hand
  spLost,           \* failed and duplicate screenshots
  spErrors,         \* parse_errors, by their screenshots
  spStopped,        \* scanner._stopped
  spStale,          \* result_is_current() is false
  spArchived,       \* history: the screenshots were moved into place
  spOutcome,        \* none, done, cancelled, partial, stale, error
  spStored          \* history: the snapshot was written

scanVars == <<spMode, spTaken, spCount, spBatch, spRaised>>
queueVars == <<spQueue, spOpen>>
parseVars == <<spItem, spParsed, spPending, spLost, spErrors>>
askedVars == <<spStopped, spStale>>
endVars == <<spArchived, spOutcome, spStored>>
spVars == <<spAt, spWorker, scanVars, queueVars, parseVars, askedVars, endVars>>

PipelineInit ==
  /\ spMode \in {"during", "after"} /\ spAt = "idle" /\ spWorker = "none"
  /\ spTaken = 0 /\ spCount = 0 /\ spBatch = <<>> /\ spRaised = FALSE
  /\ spQueue = <<>> /\ spOpen = 0
  /\ spItem = 0 /\ spParsed = {} /\ spPending = {} /\ spLost = {} /\ spErrors = {}
  /\ spStopped = FALSE /\ spStale = FALSE
  /\ spArchived = FALSE /\ spOutcome = "none" /\ spStored = FALSE

-----------------------------------------------------------------------------
(* The scanner's thread *)

HasRoom == QueueSize = 0 \/ Len(spQueue) < QueueSize

BeginScan ==         \* run
  /\ spAt = "idle" /\ spAt' = "scan"
  /\ spWorker' = IF spMode = "during" THEN "get" ELSE "none"
  /\ UNCHANGED <<scanVars, queueVars, parseVars, askedVars, endVars>>

Capture ==           \* capture, then on_capture: it raises when a parse has raised
  /\ spAt = "scan" /\ ~spStopped /\ spTaken < Total /\ spTaken' = spTaken + 1
  /\ \/ spErrors # {} /\ spRaised' = TRUE /\ spAt' = "stop" /\ UNCHANGED spBatch
     \/ spErrors = {} /\ spMode = "during" /\ spAt' = "put" /\ UNCHANGED <<spRaised, spBatch>>
     \/ spErrors = {} /\ spMode = "after" /\ spBatch' = Append(spBatch, spTaken')
          /\ UNCHANGED <<spRaised, spAt>>
  /\ UNCHANGED <<spMode, spCount, spWorker, queueVars, parseVars, askedVars, endVars>>

Put ==               \* blocks while the queue is full
  /\ spAt = "put" /\ HasRoom /\ spAt' = "scan"
  /\ spQueue' = Append(spQueue, spTaken) /\ spOpen' = spOpen + 1
  /\ UNCHANGED <<spWorker, scanVars, parseVars, askedVars, endVars>>

ScanEnds ==          \* all are captured, it was stopped, or the scanner raises
  /\ spAt = "scan" /\ spAt' = "stop"
  /\ \/ (spStopped \/ spTaken = Total) /\ UNCHANGED spRaised
          /\ spCount' = IF spStopped THEN 0 ELSE Total
     \/ spRaised' = TRUE /\ UNCHANGED spCount
  /\ UNCHANGED <<spMode, spTaken, spBatch, spWorker, queueVars, parseVars, askedVars, endVars>>

PutStop ==
  /\ spAt = "stop"
  /\ \/ spMode = "after" /\ spAt' = "tail" /\ UNCHANGED queueVars
     \/ spMode = "during" /\ HasRoom /\ spAt' = "join"
          /\ spQueue' = Append(spQueue, 0) /\ spOpen' = spOpen + 1
  /\ UNCHANGED <<spWorker, scanVars, parseVars, askedVars, endVars>>

JoinQueue ==         \* queue.join and consumer.join
  /\ spAt = "join" /\ spOpen = 0 /\ spWorker = "end" /\ spAt' = "tail"
  /\ UNCHANGED <<spWorker, scanVars, queueVars, parseVars, askedVars, endVars>>

BatchIsDue == ~spRaised /\ spMode = "after" /\ spCount = Total /\ spBatch # <<>>
Failed == spOutcome' = "error" /\ spAt' = "end"

Recognise(shot) ==   \* _process_payload: an item, one to be completed by hand, or none
  \/ spParsed' = spParsed \cup {shot} /\ UNCHANGED <<spPending, spLost>>
  \/ spPending' = spPending \cup {shot} /\ UNCHANGED <<spParsed, spLost>>
  \/ spLost' = spLost \cup {shot} /\ UNCHANGED <<spParsed, spPending>>

ParseBatch ==        \* a screenshot kept for later; an exception ends run()
  /\ spAt = "tail" /\ BatchIsDue /\ spBatch' = Tail(spBatch)
  /\ \/ Recognise(Head(spBatch)) /\ UNCHANGED <<spErrors, spAt, spOutcome>>
     \/ spErrors' = {Head(spBatch)} /\ Failed /\ UNCHANGED <<spParsed, spPending, spLost>>
  /\ UNCHANGED <<spMode, spTaken, spCount, spRaised, spItem, spArchived, spStored,
                 spWorker, queueVars, askedVars>>

RunReturns ==        \* the end of run(): what was raised is raised here
  /\ spAt = "tail" /\ ~BatchIsDue
  /\ \/ (spRaised \/ spErrors # {}) /\ Failed
     \/ ~spRaised /\ spErrors = {} /\ spAt' = "fresh" /\ UNCHANGED spOutcome
  /\ UNCHANGED <<spArchived, spStored, spWorker, scanVars, queueVars, parseVars, askedVars>>

CheckFresh ==        \* result_is_current, before the commit and after it
  /\ spAt \in {"fresh", "fresh_again"}
  /\ \/ spStale /\ spOutcome' = "stale" /\ spAt' = "end"
     \/ ~spStale /\ spAt = "fresh" /\ spAt' = "settle" /\ UNCHANGED spOutcome
     \/ ~spStale /\ spAt = "fresh_again" /\ spOutcome' = "done" /\ spAt' = "deliver"
  /\ UNCHANGED <<spArchived, spStored, spWorker, scanVars, queueVars, parseVars, askedVars>>

SettleScan ==        \* cancel_check, then the commit of the screenshots; it may raise
  /\ spAt = "settle"
  /\ \/ spStopped /\ spOutcome' = "cancelled" /\ spAt' = "deliver" /\ UNCHANGED spArchived
     \/ ~spStopped /\ spCount = Total /\ spAt' = "fresh_again" /\ spArchived' = TRUE
          /\ UNCHANGED spOutcome
     \/ ~spStopped /\ spCount = Total /\ Failed /\ UNCHANGED spArchived
     \/ ~spStopped /\ spCount # Total /\ spOutcome' = "partial" /\ spAt' = "deliver"
          /\ UNCHANGED spArchived
  /\ UNCHANGED <<spStored, spWorker, scanVars, queueVars, parseVars, askedVars>>

DeliverScan ==       \* the worker: a partial scan is an error
  /\ spAt = "deliver"
  /\ \/ spCount # Total /\ spAt' = "end" /\ spOutcome' = IF spOutcome = "cancelled" THEN "cancelled" ELSE "error"
     \/ spCount = Total /\ spAt' = "store" /\ UNCHANGED spOutcome
  /\ UNCHANGED <<spArchived, spStored, spWorker, scanVars, queueVars, parseVars, askedVars>>

AskUser ==           \* _on_vision_done: the items that could not be read are completed by hand
  /\ spAt = "store" /\ spAt' = IF spStale THEN "end" ELSE "commit"
  /\ UNCHANGED <<spArchived, spOutcome, spStored, spWorker, scanVars, queueVars, parseVars,
                 askedVars>>

Whole == spParsed \cup spPending = 1..Total

CommitScan ==        \* an incomplete result does not replace the inventory; the user may cancel
  /\ spAt = "commit" /\ spAt' = "end" /\ spStored' \in {FALSE, Whole}
  /\ UNCHANGED <<spArchived, spOutcome, spWorker, scanVars, queueVars, parseVars, askedVars>>

-----------------------------------------------------------------------------
(* The consumer, parse_worker *)

GetItem ==
  /\ spWorker = "get" /\ spQueue # <<>> /\ spQueue' = Tail(spQueue)
  /\ spItem' = Head(spQueue)
  /\ \/ Head(spQueue) # 0 /\ spWorker' = "parse" /\ UNCHANGED spOpen
     \/ Head(spQueue) = 0 /\ spWorker' = "end" /\ spOpen' = spOpen - 1
  /\ UNCHANGED <<spAt, spParsed, spPending, spLost, spErrors, scanVars, askedVars, endVars>>

ParseItem_Ends ==
  /\ spWorker = "parse" /\ spOpen' = spOpen - 1
  /\ \/ Recognise(spItem) /\ spWorker' = "get" /\ UNCHANGED spErrors
     \/ spErrors' = spErrors \cup {spItem} /\ spWorker' = "end"
          /\ UNCHANGED <<spParsed, spPending, spLost>>
  /\ UNCHANGED <<spItem, spQueue, spAt, scanVars, askedVars, endVars>>

ParseItem ==         \* an exception is kept and the consumer goes on
  /\ spWorker = "parse" /\ spWorker' = "get" /\ spOpen' = spOpen - 1
  /\ \/ Recognise(spItem) /\ UNCHANGED spErrors
     \/ spErrors' = spErrors \cup {spItem} /\ UNCHANGED <<spParsed, spPending, spLost>>
  /\ UNCHANGED <<spItem, spQueue, spAt, scanVars, askedVars, endVars>>

-----------------------------------------------------------------------------
(* The user *)

StopKey ==           \* the hotkey, or request_stop of the page
  /\ spAt # "idle" /\ ~spStopped /\ spStopped' = TRUE
  /\ UNCHANGED <<spAt, spWorker, scanVars, queueVars, parseVars, spStale, endVars>>

Outdate ==           \* the account or the page has changed
  /\ spAt # "idle" /\ ~spStale /\ spStale' = TRUE
  /\ UNCHANGED <<spAt, spWorker, scanVars, queueVars, parseVars, spStopped, endVars>>

ScannerRun ==
  \/ BeginScan \/ Capture \/ Put \/ ScanEnds \/ PutStop \/ JoinQueue \/ ParseBatch \/ RunReturns
  \/ CheckFresh \/ SettleScan \/ DeliverScan \/ AskUser \/ CommitScan
ConsumerRun == GetItem \/ ParseItem

PipelineNext == ScannerRun \/ ConsumerRun \/ StopKey \/ Outdate

PipelineSpec == PipelineInit /\ [][PipelineNext]_spVars

-----------------------------------------------------------------------------
(* Properties *)

Shots == 1..Total

\* Types of the state.
PipelineTypeOK ==
  /\ spMode \in {"during", "after"} /\ spTaken \in 0..Total /\ spCount \in {0, Total}
  /\ spAt \in {"idle", "scan", "put", "stop", "join", "tail", "fresh", "settle", "fresh_again",
               "deliver", "store", "commit", "end"}
  /\ spWorker \in {"none", "get", "parse", "end"} /\ spItem \in 0..Total
  /\ spBatch \in Seq(Shots) /\ spQueue \in Seq(0..Total) /\ spOpen \in Nat
  /\ {spParsed, spPending, spLost, spErrors} \subseteq SUBSET Shots
  /\ spOutcome \in {"none", "done", "cancelled", "partial", "stale", "error"}
  /\ spRaised \in BOOLEAN /\ spStopped \in BOOLEAN /\ spStale \in BOOLEAN
  /\ spArchived \in BOOLEAN /\ spStored \in BOOLEAN

\* When the scan is joined every screenshot put in the queue has been parsed, was
\* recorded as pending or lost, or its exception is about to be raised.
JoinedIsParsed ==
  spMode = "during" /\ spAt \in {"tail", "fresh", "settle", "fresh_again", "deliver", "store",
                                "commit"} =>
    \/ 1..spTaken = spParsed \cup spPending \cup spLost \cup spErrors
    \/ spRaised

\* Only a whole scan replaces the inventory: every screenshot was read, or was completed
\* by the user.
StoredIsWhole ==
  spStored => spCount = Total /\ spErrors = {} /\ spLost = {} /\ spParsed \cup spPending = Shots

\* The screenshots of the last scan are replaced only by those of a scan that was
\* captured to its end and parsed without an exception.
ArchivedIsComplete ==
  spArchived => spCount = Total /\ spErrors = {} /\ spParsed \cup spPending \cup spLost = Shots

\* A scan ends: the scanner is never stuck on a full queue nor on the join.
ScanReturns == (spAt = "scan") ~> (spAt = "end")

\* What the service says of a scan cancelled while its last screenshots are parsed: its
\* results are not recorded in the inventory.
CancelledNotStored == spOutcome = "cancelled" => ~spStored
=============================================================================
