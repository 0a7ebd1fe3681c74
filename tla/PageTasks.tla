------------------------------ MODULE PageTasks ------------------------------
(***************************************************************************)
(* The lanes a page runs its background tasks in (app/page_tasks.py).      *)
(* PageTaskLane: one read runs, the newest request waits; the signals      *)
(* delivered/failed and finished of the worker arrive on the UI thread one *)
(* after the other, and the user and the pages act between them.           *)
(* PageCommitLane: one commit at a time, acknowledged when it has ended.   *)
(* Requests are numbered in the order of submit(); pgEnd is what became of *)
(* each: a request replaced by one of the same key is dropped silently.    *)
(***************************************************************************)
EXTENDS Integers, Sequences

CONSTANTS
  Keys,             \* what a page may ask for
  MaxRequests,      \* bound: requests submitted
  MaxCommits        \* bound: commits submitted

ASSUME PagesAssumption == MaxRequests \in Nat /\ MaxCommits \in Nat

VARIABLES
  pgKey,            \* the requests so far, by their keys
  pgEnd,            \* "waiting", or what the request was told
  pgLatest, pgActive,   \* _latest, _active (0: None)
  pgWorker,         \* the worker: none, reading; value, error: that signal is queued;
                    \* ended: only finished is queued
  pgBarred,         \* history: requests up to this number were discarded by cancel()
  pgRead,           \* history: the number of requests when the read was started
  pgClosed,         \* _closed
  pcWorker,         \* PageCommitLane: none, running; value, error; ended
  pcDelivered, pcError, \* _delivered, _error
  pcCommitted,      \* history: the transaction of the last commit was committed
  pcRaised,         \* history: the last commit raised
  pcTold, pcCount   \* what its caller was told last; commits so far

pgVars == <<pgKey, pgEnd, pgLatest, pgActive, pgWorker, pgBarred, pgRead, pgClosed>>
pcVars == <<pcWorker, pcDelivered, pcError, pcCommitted, pcRaised, pcTold, pcCount>>
pagesVars == <<pgVars, pcVars>>

Requests == 1..MaxRequests
Submitted == DOMAIN pgEnd

PagesInit ==
  /\ pgKey = <<>> /\ pgEnd = <<>> /\ pgLatest = 0 /\ pgActive = 0 /\ pgWorker = "none"
  /\ pgBarred = 0 /\ pgRead = 0 /\ pgClosed = FALSE
  /\ pcWorker = "none" /\ pcDelivered = FALSE /\ pcError = FALSE
  /\ pcCommitted = FALSE /\ pcRaised = FALSE /\ pcTold = "" /\ pcCount = 0

-----------------------------------------------------------------------------
(* PageTaskLane *)

Told(request, what) == [pgEnd EXCEPT ![request] = what]
NewId == Len(pgEnd) + 1
StartRead(request) ==
  pgActive' = request /\ pgWorker' = "reading" /\ pgRead' = NewId - 1

\* The request that was the latest is discarded, or dropped for one of its key.
Replaced(key) ==
  Told(pgLatest, IF pgKey[pgLatest] # key THEN "discarded" ELSE "dropped")

Submit(key) ==
  /\ NewId \in Requests /\ ~pgClosed
  /\ pgKey' = Append(pgKey, key)
  /\ pgEnd' = Append(IF pgLatest = 0 THEN pgEnd ELSE Replaced(key), "waiting")
  /\ pgLatest' = NewId
  /\ IF pgWorker = "none"
       THEN pgActive' = NewId /\ pgWorker' = "reading" /\ pgRead' = NewId
       ELSE UNCHANGED <<pgActive, pgWorker, pgRead>>
  /\ UNCHANGED <<pgBarred, pgClosed, pcVars>>

ReadEnds ==          \* _PageWorker.run
  /\ pgWorker = "reading" /\ pgWorker' \in {"value", "error"}
  /\ UNCHANGED <<pgKey, pgEnd, pgLatest, pgActive, pgBarred, pgRead, pgClosed, pcVars>>

Wanted == ~pgClosed /\ pgLatest # 0 /\ pgKey[pgLatest] = pgKey[pgActive]

Deliver_KeepsLatest ==
  /\ pgWorker \in {"value", "error"} /\ pgWorker' = "ended" /\ UNCHANGED pgLatest
  /\ IF Wanted
       THEN \/ pgWorker = "value" /\ pgEnd' = Told(pgLatest, "applied")
            \/ pgEnd' = Told(pgLatest, "failed")
       ELSE UNCHANGED pgEnd
  /\ UNCHANGED <<pgKey, pgActive, pgBarred, pgRead, pgClosed, pcVars>>

\* _deliver, _fail: the newest request of the same key gets the answer; apply may raise.
Deliver ==
  /\ pgWorker \in {"value", "error"} /\ pgWorker' = "ended"
  /\ IF Wanted
       THEN /\ pgLatest' = 0
            /\ \/ pgWorker = "value" /\ pgEnd' = Told(pgLatest, "applied")
               \/ pgEnd' = Told(pgLatest, "failed")
       ELSE UNCHANGED <<pgLatest, pgEnd>>
  /\ UNCHANGED <<pgKey, pgActive, pgBarred, pgRead, pgClosed, pcVars>>

Finished ==
  /\ pgWorker = "ended"
  /\ IF pgLatest # 0 /\ ~pgClosed
       THEN StartRead(pgLatest)
       ELSE pgActive' = 0 /\ pgWorker' = "none" /\ UNCHANGED pgRead
  /\ UNCHANGED <<pgKey, pgEnd, pgLatest, pgBarred, pgClosed, pcVars>>

Withdraw ==
  /\ pgEnd' = IF pgLatest # 0 THEN Told(pgLatest, "discarded") ELSE pgEnd
  /\ pgLatest' = 0 /\ pgBarred' = NewId - 1

CancelReads ==
  /\ Withdraw /\ pgBarred' # pgBarred
  /\ UNCHANGED <<pgKey, pgActive, pgWorker, pgRead, pgClosed, pcVars>>

CloseLane ==
  /\ ~pgClosed /\ pgClosed' = TRUE /\ Withdraw
  /\ UNCHANGED <<pgKey, pgActive, pgWorker, pgRead, pcVars>>

-----------------------------------------------------------------------------
(* PageCommitLane *)

SubmitCommit ==      \* refused while another one runs
  /\ pcWorker = "none" /\ pcCount < MaxCommits /\ pcCount' = pcCount + 1
  /\ pcWorker' = "running" /\ pcDelivered' = FALSE /\ pcError' = FALSE
  /\ pcCommitted' = FALSE /\ pcRaised' = FALSE /\ pcTold' = "" /\ UNCHANGED pgVars

CommitEnds ==        \* it may raise before the transaction is committed, or after
  /\ pcWorker = "running" /\ pcWorker' \in {"value", "error"}
  /\ pcRaised' = (pcWorker' = "error") /\ pcCommitted' \in {~pcRaised', TRUE}
  /\ UNCHANGED <<pcDelivered, pcError, pcTold, pcCount, pgVars>>

StoreAnswer ==
  /\ pcWorker \in {"value", "error"} /\ pcWorker' = "ended"
  /\ pcDelivered' = (pcDelivered \/ pcWorker = "value")
  /\ pcError' = (pcError \/ pcWorker = "error")
  /\ UNCHANGED <<pcCommitted, pcRaised, pcTold, pcCount, pgVars>>

Acknowledge ==       \* _finished; the callback may raise: application_failed
  /\ pcWorker = "ended" /\ pcWorker' = "none"
  /\ pcTold' \in {IF pcDelivered /\ ~pcError THEN "committed" ELSE "failed",
                  "application_failed"}
  /\ UNCHANGED <<pcDelivered, pcError, pcCommitted, pcRaised, pcCount, pgVars>>

-----------------------------------------------------------------------------

LaneRun == ReadEnds \/ Deliver \/ Finished
CommitRun == CommitEnds \/ StoreAnswer \/ Acknowledge

LaneNext == (\E key \in Keys : Submit(key)) \/ CancelReads \/ CloseLane \/ LaneRun
CommitNext == SubmitCommit \/ CommitRun

PagesNext == LaneNext \/ CommitNext

PagesSpec == PagesInit /\ [][PagesNext]_pagesVars

-----------------------------------------------------------------------------
(* Properties *)

Ends == {"waiting", "applied", "failed", "discarded", "dropped"}

\* Types of the state.
PagesTypeOK ==
  /\ pgLatest \in 0..MaxRequests /\ pgActive \in 0..MaxRequests
  /\ pgWorker \in {"none", "reading", "value", "error", "ended"}
  /\ \A i \in Submitted : pgEnd[i] \in Ends
  /\ pcWorker \in {"none", "running", "value", "error", "ended"}
  /\ pgClosed \in BOOLEAN /\ pcDelivered \in BOOLEAN /\ pcError \in BOOLEAN
  /\ pcCommitted \in BOOLEAN /\ pcRaised \in BOOLEAN

\* Only the newest request waits, it is the one the lane holds, and a worker is
\* at work for it: whoever is not told anything has been replaced by a newer one.
OnlyLatestWaits ==
  \A i \in Submitted : pgEnd[i] = "waiting" =>
    i = pgLatest /\ i = NewId - 1 /\ pgWorker # "none" /\ ~pgClosed

\* Every request is told once, and what it was told is not taken back.
ToldOnce ==
  [][\A i \in Submitted : pgEnd[i] # "waiting" => pgEnd'[i] = pgEnd[i]]_pagesVars

\* A request waits for a bounded number of reads: it ends, or a newer one replaces it.
RequestsEnd ==
  \A i \in Requests : (i \in Submitted /\ pgEnd[i] = "waiting") ~>
                      (i \in Submitted /\ pgEnd[i] # "waiting")

\* A caller told that its commit is stored has its transaction committed, and one told
\* that it failed had it raise: neither hears of the commit before its own.
CommitTold ==
  pcWorker = "none" =>
    (pcTold = "committed" => pcCommitted) /\ (pcTold = "failed" => pcRaised)

\* What cancel() says: it invalidates delivery of the read that is running.
CancelledReadUnused ==
  [][Deliver => \A i \in Submitted :
       pgEnd'[i] = "applied" /\ pgEnd[i] = "waiting" => pgRead > pgBarred]_pagesVars
=============================================================================
