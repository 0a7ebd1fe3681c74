------------------------- MODULE BattleCaptureProofs -------------------------
(***************************************************************************)
(* Proof that a battle capture reports what it has stored.                 *)
(***************************************************************************)
EXTENDS BattleCapture, TLAPS

\* Where nothing is settled yet; where the Core does not capture for this worker.
Unsettled == {"open", "stage", "connect", "start", "wait", "poll", "halt", "verdict", "read",
              "judge", "save", "finish"}
Quiet == {"open", "stage", "connect", "start", "verdict", "read", "judge", "save", "finish"}

\* The row and the record, up to the end.
StorePlace ==
  /\ bcOutcome \in {"none", "empty", "saved"}
  /\ bcRow \in {"none", "capturing", "finalized"}
  /\ bcAt \in Unsettled => bcOutcome = "none" /\ ~bcFailed
  /\ bcAt \in {"open", "stage"} => bcRow = "none"
  /\ bcAt = "finish" => bcRecord # "none"
  /\ bcOutcome = "saved" => bcRecord # "none" /\ bcRow = "finalized"
  /\ bcOutcome # "saved" => bcRow # "finalized"
  /\ bcRecord # "none" => bcOutcome = "saved" \/ bcFailed \/ bcAt = "finish"
  /\ bcAt \in {"report", "end"} /\ ~bcFailed => bcRow # "capturing"

\* The capture in the Core.
CorePlace ==
  /\ bcAt \in Quiet => bcCore = "idle"
  /\ bcAt \in Quiet \cup {"wait"} => ~bcStarted
  /\ bcAt \notin Unsettled /\ ~bcFailed => bcCore = "idle" /\ ~bcStarted

\* What was reported.
ResultPlace ==
  IF bcAt # "end" THEN bcResult = "none"
  ELSE /\ bcFailed <=> bcResult = "error"
       /\ bcResult = "saved" => bcOutcome = "saved"
       /\ bcResult \in {"skipped_empty", "final_summary_unavailable"} => bcOutcome # "saved"

CaptureInv == StorePlace /\ CorePlace /\ ResultPlace

LEMMA CaptureInitially == CaptureInit => CaptureInv
  BY DEF CaptureInit, CaptureInv, StorePlace, CorePlace, ResultPlace,
     Unsettled, Quiet, Results

LEMMA CaptureInductive == CaptureInv /\ [CaptureNext]_captureVars => CaptureInv'
<1> SUFFICES ASSUME CaptureInv, [CaptureNext]_captureVars
             PROVE  CaptureInv'
  OBVIOUS
<1> USE DEF CaptureInv, StorePlace, CorePlace, ResultPlace,
        Unsettled, Quiet, GoOn, FailCapture, SettleCapture, StoreSame, CoreSame, RestSame, askVars, heardVars
<1>1. CASE OpenClient
  BY <1>1 DEF OpenClient
<1>2. CASE StageCapture
  BY <1>2 DEF StageCapture
<1>3. CASE ConnectClient
  BY <1>3 DEF ConnectClient
<1>4. CASE StartCapture
  BY <1>4 DEF StartCapture, TryStart, Begun
<1>5. CASE AwaitPackets
  BY <1>5 DEF AwaitPackets, Begun
<1>6. CASE Poll
  BY <1>6 DEF Poll
<1>7. CASE HaltCapture
  BY <1>7 DEF HaltCapture
<1>8. CASE Verdict
  BY <1>8 DEF Verdict
<1>9. CASE ReadFinal \/ Judge
  BY <1>9 DEF ReadFinal, Judge
<1>10. CASE SaveRecord
  BY <1>10 DEF SaveRecord, Worthless
<1>11. CASE FinishRecord
  BY <1>11 DEF FinishRecord
<1>12. CASE Leave
  BY <1>12 DEF Leave
<1>13. CASE CloseCapture
  BY <1>13 DEF CloseCapture
<1>14. CASE Unstage
  BY <1>14 DEF Unstage
<1>15. CASE Report
  <2>1. /\ Status \in Results
        /\ bcFailed <=> Status = "error"
        /\ Status = "saved" => bcOutcome = "saved"
        /\ Status \in {"skipped_empty", "final_summary_unavailable"} => bcOutcome # "saved"
    BY DEF Status, Results
  <2> QED
    BY <1>15, <2>1 DEF Report
<1>16. CASE RequestStop \/ RequestDiscard \/ SignalStop
  BY <1>16 DEF RequestStop, RequestDiscard, SignalStop, WorkerSame, Results
<1>17. CASE CallHandler \/ IgnoreSummary \/ RefuseSummary \/ TakeSummary \/ ShowSummary
  BY <1>17 DEF CallHandler, IgnoreSummary, RefuseSummary, TakeSummary, ShowSummary, WorkerSame
<1>18. CASE CaptureStopped
  BY <1>18 DEF CaptureStopped, WorkerSame
<1>19. CASE UNCHANGED captureVars
  BY <1>19 DEF captureVars
<1> QED
  BY <1>1, <1>2, <1>3, <1>4, <1>5, <1>6, <1>7, <1>8, <1>9, <1>10, <1>11, <1>12, <1>13, <1>14,
     <1>15, <1>16, <1>17, <1>18, <1>19 DEF CaptureNext, CaptureRun

\* Whatever the user, the events and failures do, what the worker reports is so
\* (BattleCaptureService._run).
THEOREM CaptureReports == CaptureSpec => []CaptureReported
<1>1. CaptureInv => CaptureReported
  BY DEF CaptureInv, StorePlace, CorePlace, ResultPlace, CaptureReported, Unsettled

<1> QED
  BY <1>1, CaptureInitially, CaptureInductive, PTL DEF CaptureSpec

=============================================================================
