---------------------------- MODULE ServiceProofs ----------------------------
(***************************************************************************)
(* Proofs about the services around the core: WorkMode, GameObservation,   *)
(* PageTasks, AutoSync, CultivationHistory and ScanPipeline.  The authority*)
(* that is in force while a change of the work mode is saved, the wake-up  *)
(* and the teardown of the observer, what the lanes of a page tell, that   *)
(* there is one worker of the synchronisation, that a deleted cultivation  *)
(* record is not written again, and that only a whole scan is recorded.    *)
(***************************************************************************)
EXTENDS WorkMode, GameObservation, PageTasks, AutoSync, CultivationHistory, ScanPipeline, TLAPS

-----------------------------------------------------------------------------
(* The work mode *)

Native(s) == s.confirmed /\ s.mode \in {"medium", "developer"}

\* What the cleanup that is due rests on: the settings file has not lost the authority
\* that memory still has, and no change that forgets the cleanup is on its way.
CleanupKept ==
  /\ wmOwed => wmMemory.cleanup
  /\ Native(wmMemory) => Native(wmDisk)
  /\ wmOwed => wmDisk.cleanup \/ Native(wmDisk)
  /\ wmSaving /\ ~wmWanted.cleanup /\ ~wmBefore.cleanup /\ ~Native(wmWanted) =>
       ~Native(wmMemory) /\ ~wmOwed

WorkInv == WorkTypeOK /\ SharedAuthority /\ CleanupKept /\ (wmSaving => ~wmFailed)

LEMMA NativeIs == \A s \in Settings : HasNative(s) <=> Native(s)
  BY DEF Settings, WorkModes, HasNative, Native, NativeCapabilities, Capabilities

\* What is allowed grows with the mode, and is switched off by pausing.
LEMMA AutomaticGrows ==
  ASSUME NEW a \in Settings, NEW b \in Settings, Capabilities(a) \subseteq Capabilities(b),
         b.paused => a.paused, a.auto => b.auto, a.ready => b.ready
  PROVE  Automatic(a) \subseteq Automatic(b)
  BY DEF Automatic, Settings

LEMMA SameMode ==
  ASSUME NEW a \in Settings, NEW b \in Settings, a.mode = b.mode, a.confirmed = b.confirmed
  PROVE  Capabilities(a) = Capabilities(b)
  BY DEF Capabilities

\* A change that is begun: memory holds nothing that either side forbids.
LEMMA BeginKeeps ==
  ASSUME WorkInv, NEW wanted \in Settings, NEW first \in Settings, BeginChange(wanted, first),
         Capabilities(first) \subseteq Capabilities(wmMemory) \cap Capabilities(wanted),
         Automatic(first) \subseteq Automatic(wmMemory) \cap Automatic(wanted),
         Native(first) => Native(wmMemory),
         wmMemory.cleanup => first.cleanup,
         Native(wmMemory) /\ ~Native(first) => first.cleanup,
         ~wanted.cleanup /\ ~wmMemory.cleanup /\ ~Native(wanted) => ~Native(wmMemory)
  PROVE  WorkInv'
<1> USE DEF BeginChange, Hold
<1>1. wmOwed' = IF Native(first) THEN FALSE ELSE wmOwed \/ Native(wmMemory)
  BY NativeIs DEF WorkInv, WorkTypeOK
<1>2. WorkTypeOK'
  BY <1>1 DEF WorkInv, WorkTypeOK, Native
<1>3. SharedAuthority'
  BY DEF SharedAuthority
<1>4. CleanupKept'
  BY <1>1 DEF WorkInv, CleanupKept, Native
<1> QED
  BY <1>2, <1>3, <1>4 DEF WorkInv

LEMMA SelectModeKeeps == \A mode \in WorkModes : WorkInv /\ SelectMode(mode) => WorkInv'
<1> SUFFICES ASSUME NEW mode \in WorkModes, WorkInv, SelectMode(mode) PROVE WorkInv'
  OBVIOUS
<1> DEFINE wanted == Mode(mode)
           first == SharedFirst(wanted)
           offline == [wmMemory EXCEPT !.mode = "offline", !.confirmed = FALSE, !.cleanup = TRUE]
           lower == [wanted EXCEPT !.paused = wmMemory.paused]
<1>1. wmMemory \in Settings
  BY DEF WorkInv, WorkTypeOK
<1>2. /\ wanted \in Settings /\ wanted.mode = mode /\ wanted.confirmed = (mode # "offline")
      /\ wanted.paused = FALSE /\ wanted.auto = wmMemory.auto /\ wanted.ready = wmMemory.ready
      /\ wanted.cleanup = (wmMemory.cleanup \/ mode \in {"offline", "low"})
  BY <1>1 DEF Mode, Settings, WorkModes
<1>3. BeginChange(wanted, first)
  BY DEF SelectMode
<1>4. /\ wmMemory.cleanup => wanted.cleanup
      /\ ~wanted.cleanup => Native(wanted)
  BY <1>2 DEF Native, WorkModes
<1>5. CASE Capabilities(wmMemory) \subseteq Capabilities(wanted)
  <2>1. first = wmMemory
    BY <1>5 DEF SharedFirst
  <2>2. Automatic(wmMemory) \subseteq Automatic(wanted)
    BY <1>1, <1>2, <1>5, AutomaticGrows
  <2> HIDE DEF wanted, first
  <2> QED
    BY <1>1, <1>2, <1>3, <1>4, <1>5, <2>1, <2>2, BeginKeeps
<1>6. CASE /\ ~(Capabilities(wmMemory) \subseteq Capabilities(wanted))
           /\ Capabilities(wanted) \subseteq Capabilities(wmMemory)
  <2>1. first = lower
    BY <1>6 DEF SharedFirst
  <2>2. /\ lower \in Settings /\ lower.mode = wanted.mode /\ lower.confirmed = wanted.confirmed
        /\ lower.paused = wmMemory.paused /\ lower.auto = wanted.auto
        /\ lower.ready = wanted.ready /\ lower.cleanup = wanted.cleanup
    BY <1>1, <1>2 DEF Settings
  <2> HIDE DEF wanted, first, lower
  <2>3. Capabilities(lower) = Capabilities(wanted)
    BY <1>2, <2>2, SameMode
  <2>4. /\ Automatic(lower) \subseteq Automatic(wanted)
        /\ Automatic(lower) \subseteq Automatic(wmMemory)
    BY <1>1, <1>2, <1>6, <2>2, <2>3, AutomaticGrows
  <2>5. Native(wanted) => Native(wmMemory)
    BY <1>1, <1>2, <1>6, NativeIs DEF HasNative
  <2>6. Native(lower) <=> Native(wanted)
    BY <2>2 DEF Native
  <2> QED
    BY <1>1, <1>2, <1>3, <1>4, <1>6, <2>1, <2>2, <2>3, <2>4, <2>5, <2>6, BeginKeeps
<1>7. CASE /\ ~(Capabilities(wmMemory) \subseteq Capabilities(wanted))
           /\ ~(Capabilities(wanted) \subseteq Capabilities(wmMemory))
  <2>1. first = offline
    BY <1>7 DEF SharedFirst
  <2>2. /\ offline \in Settings /\ offline.mode = "offline" /\ ~offline.confirmed
        /\ offline.paused = wmMemory.paused /\ offline.auto = wmMemory.auto
        /\ offline.ready = wmMemory.ready /\ offline.cleanup
    BY <1>1 DEF Settings, WorkModes
  <2> HIDE DEF wanted, first, offline
  <2>3. /\ Capabilities(offline) \subseteq Capabilities(wmMemory)
        /\ Capabilities(offline) \subseteq Capabilities(wanted)
    BY <2>2 DEF Capabilities
  <2>4. /\ Automatic(offline) \subseteq Automatic(wanted)
        /\ Automatic(offline) \subseteq Automatic(wmMemory)
    BY <1>1, <1>2, <2>2, <2>3, AutomaticGrows
  <2>5. ~Native(offline)
    BY <2>2 DEF Native
  <2> QED
    BY <1>1, <1>2, <1>3, <1>4, <2>1, <2>2, <2>3, <2>4, <2>5, BeginKeeps
<1> QED
  BY <1>5, <1>6, <1>7

\* A change that leaves the mode as it is: memory holds the more restricted side.
LEMMA SwitchKeeps ==
  ASSUME WorkInv, NEW wanted \in Settings, NEW first \in {wmMemory, wanted},
         BeginChange(wanted, first),
         wanted.mode = wmMemory.mode, wanted.confirmed = wmMemory.confirmed,
         first.paused \/ (~wmMemory.paused /\ ~wanted.paused),
         first.auto => wmMemory.auto /\ wanted.auto, first.ready => wmMemory.ready /\ wanted.ready,
         wmMemory.cleanup => first.cleanup
  PROVE  WorkInv'
<1>1. wmMemory \in Settings /\ first \in Settings
  BY DEF WorkInv, WorkTypeOK
<1>2. /\ Capabilities(wanted) = Capabilities(wmMemory)
      /\ Capabilities(first) = Capabilities(wmMemory)
  BY <1>1, SameMode
<1>3. Automatic(first) \subseteq Automatic(wmMemory) /\ Automatic(first) \subseteq Automatic(wanted)
  BY <1>1, <1>2, AutomaticGrows
<1>4. (Native(first) <=> Native(wmMemory)) /\ (Native(wanted) <=> Native(wmMemory))
  BY DEF Native
<1> QED
  BY <1>1, <1>2, <1>3, <1>4, BeginKeeps

LEMMA SwitchesKeep ==
  \A b \in BOOLEAN :
    /\ WorkInv
    /\ SetPaused(b) \/ SetAutoSync(b) \/ SetAutoReady(b) \/ SetCleanup(b) \/ EnableAfterPreflight(b)
    => WorkInv'
<1> SUFFICES ASSUME NEW b \in BOOLEAN, WorkInv, wmMemory \in Settings,
                    SetPaused(b) \/ SetAutoSync(b) \/ SetAutoReady(b) \/ SetCleanup(b)
                      \/ EnableAfterPreflight(b)
             PROVE  WorkInv'
  BY DEF WorkInv, WorkTypeOK
<1>1. CASE SetPaused(b)
  <2> DEFINE wanted == [wmMemory EXCEPT !.paused = b]
  <2>1. /\ wanted \in Settings /\ wanted.mode = wmMemory.mode
        /\ wanted.confirmed = wmMemory.confirmed /\ wanted.paused = b
        /\ wanted.auto = wmMemory.auto /\ wanted.ready = wmMemory.ready
        /\ wanted.cleanup = wmMemory.cleanup
    BY DEF Settings
  <2>2. BeginChange(wanted, IF b THEN wanted ELSE wmMemory)
    BY <1>1 DEF SetPaused
  <2> HIDE DEF wanted
  <2> QED
    BY <2>1, <2>2, SwitchKeeps DEF Settings
<1>2. CASE SetAutoSync(b)
  <2> DEFINE wanted == [wmMemory EXCEPT !.auto = b]
  <2>1. /\ wanted \in Settings /\ wanted.mode = wmMemory.mode
        /\ wanted.confirmed = wmMemory.confirmed /\ wanted.paused = wmMemory.paused
        /\ wanted.auto = b /\ wanted.ready = wmMemory.ready /\ wanted.cleanup = wmMemory.cleanup
    BY DEF Settings
  <2>2. BeginChange(wanted, IF b THEN wmMemory ELSE wanted)
    BY <1>2 DEF SetAutoSync
  <2> HIDE DEF wanted
  <2> QED
    BY <2>1, <2>2, SwitchKeeps DEF Settings
<1>3. CASE SetAutoReady(b)
  <2> DEFINE wanted == [wmMemory EXCEPT !.ready = b]
  <2>1. /\ wanted \in Settings /\ wanted.mode = wmMemory.mode
        /\ wanted.confirmed = wmMemory.confirmed /\ wanted.paused = wmMemory.paused
        /\ wanted.auto = wmMemory.auto /\ wanted.ready = b /\ wanted.cleanup = wmMemory.cleanup
    BY DEF Settings
  <2>2. BeginChange(wanted, IF b THEN wmMemory ELSE wanted)
    BY <1>3 DEF SetAutoReady
  <2> HIDE DEF wanted
  <2> QED
    BY <2>1, <2>2, SwitchKeeps DEF Settings
<1>4. CASE SetCleanup(b)
  <2> DEFINE wanted == [wmMemory EXCEPT !.cleanup = b]
  <2>1. /\ wanted \in Settings /\ wanted.mode = wmMemory.mode
        /\ wanted.confirmed = wmMemory.confirmed /\ wanted.paused = wmMemory.paused
        /\ wanted.auto = wmMemory.auto /\ wanted.ready = wmMemory.ready /\ wanted.cleanup = b
    BY DEF Settings
  <2>2. BeginChange(wanted, IF b THEN wanted ELSE wmMemory)
    BY <1>4 DEF SetCleanup
  <2> HIDE DEF wanted
  <2> QED
    BY <2>1, <2>2, SwitchKeeps DEF Settings
<1>5. CASE EnableAfterPreflight(b)
  <2> DEFINE wanted == [wmMemory EXCEPT !.paused = @ /\ ~b, !.auto = TRUE, !.ready = TRUE]
  <2>1. /\ wanted \in Settings /\ wanted.mode = wmMemory.mode
        /\ wanted.confirmed = wmMemory.confirmed /\ wanted.paused = (wmMemory.paused /\ ~b)
        /\ wanted.auto /\ wanted.ready /\ wanted.cleanup = wmMemory.cleanup
    BY DEF Settings
  <2>2. BeginChange(wanted, wmMemory)
    BY <1>5 DEF EnableAfterPreflight
  <2> HIDE DEF wanted
  <2> QED
    BY <2>1, <2>2, SwitchKeeps DEF Settings
<1> QED
  BY <1>1, <1>2, <1>3, <1>4, <1>5

LEMMA SaveSettingsKeeps == WorkInv /\ SaveSettings => WorkInv'
<1> SUFFICES ASSUME WorkInv, SaveSettings PROVE WorkInv'
  OBVIOUS
<1>1. /\ wmMemory \in Settings /\ wmWanted \in Settings /\ wmBefore \in Settings
      /\ wmSaving /\ ~wmFailed /\ wmOwed \in BOOLEAN
  BY DEF WorkInv, WorkTypeOK, SaveSettings
<1>2. wmOwed' = IF Acknowledges \/ Native(wmWanted) THEN FALSE ELSE wmOwed \/ Native(wmMemory)
  BY <1>1, NativeIs DEF SaveSettings, Hold
<1>3. WorkTypeOK'
  BY <1>1, <1>2 DEF WorkInv, WorkTypeOK, SaveSettings, Hold, Native
<1>4. SharedAuthority'
  BY <1>1 DEF SaveSettings, SharedAuthority
<1>5. CleanupKept'
  BY <1>1, <1>2 DEF WorkInv, CleanupKept, SaveSettings, Hold, Acknowledges, Native
<1> QED
  BY <1>1, <1>3, <1>4, <1>5 DEF WorkInv, SaveSettings

LEMMA RestartKeeps == WorkInv /\ Restart => WorkInv'
<1> SUFFICES ASSUME WorkInv, Restart PROVE WorkInv'
  OBVIOUS
<1>1. PICK replaced \in BOOLEAN :
        /\ replaced => wmSaving
        /\ wmDisk' = (IF replaced THEN wmWanted ELSE wmDisk) /\ wmMemory' = LoadedSettings'
        /\ wmOwed' = (wmOwed /\ ~HasNative(wmMemory') /\ ~(replaced /\ Acknowledges))
  BY DEF Restart
<1>2. /\ wmDisk' \in Settings /\ wmWanted \in Settings /\ wmBefore \in Settings
      /\ wmOwed \in BOOLEAN
  BY <1>1 DEF WorkInv, WorkTypeOK
<1>3. /\ wmMemory' \in Settings /\ wmMemory'.cleanup = wmDisk'.cleanup
      /\ Native(wmMemory') <=> Native(wmDisk')
  <2>1. wmMemory' = [wmDisk' EXCEPT !.mode = IF wmDisk'.confirmed THEN @ ELSE "offline",
                                    !.confirmed = @ /\ wmDisk'.mode # "offline"]
    BY <1>1 DEF LoadedSettings
  <2>2. /\ wmMemory'.mode = (IF wmDisk'.confirmed THEN wmDisk'.mode ELSE "offline")
        /\ wmMemory'.confirmed = (wmDisk'.confirmed /\ wmDisk'.mode # "offline")
        /\ wmMemory'.cleanup = wmDisk'.cleanup
    BY <1>2, <2>1 DEF Settings
  <2>3. wmMemory' \in Settings
    BY <1>2, <2>1 DEF Settings, WorkModes
  <2> QED
    BY <2>2, <2>3 DEF Native
<1>4. wmOwed' = (wmOwed /\ ~Native(wmDisk') /\ ~(replaced /\ Acknowledges))
  BY <1>1, <1>3, NativeIs
<1>5. WorkTypeOK'
  BY <1>2, <1>3, <1>4 DEF WorkTypeOK, Restart
<1>6. SharedAuthority'
  BY DEF Restart, SharedAuthority
<1>7. wmOwed' => wmDisk'.cleanup
  <2>1. CASE replaced
    BY <1>1, <1>2, <1>4, <2>1 DEF WorkInv, CleanupKept, Acknowledges, Settings
  <2>2. CASE ~replaced
    BY <1>1, <1>4, <2>2 DEF WorkInv, CleanupKept
  <2> QED
    BY <2>1, <2>2
<1>8. CleanupKept'
  BY <1>3, <1>7 DEF CleanupKept, Restart
<1> QED
  BY <1>5, <1>6, <1>8 DEF WorkInv, Restart

LEMMA WorkInductive == WorkInv /\ [WorkNext]_workVars => WorkInv'
<1> SUFFICES ASSUME WorkInv, [WorkNext]_workVars PROVE WorkInv'
  OBVIOUS
<1>1. CASE UNCHANGED workVars
  BY <1>1 DEF workVars, WorkInv, WorkTypeOK, SharedAuthority, CleanupKept
<1>2. CASE SaveFails
  <2>1. WorkTypeOK' /\ CleanupKept'
    BY <1>2 DEF SaveFails, WorkInv, WorkTypeOK, CleanupKept
  <2>2. SharedAuthority'
    BY <1>2 DEF SaveFails, WorkInv, SharedAuthority
  <2> QED
    BY <1>2, <2>1, <2>2 DEF WorkInv, SaveFails
<1> QED
  BY <1>1, <1>2, SelectModeKeeps, SwitchesKeep, SaveSettingsKeeps, RestartKeeps DEF WorkNext

LEMMA WorkInitially == WorkInit => WorkInv
<1> SUFFICES ASSUME WorkInit PROVE WorkInv
  OBVIOUS
<1>1. Default \in Settings /\ Default.cleanup /\ ~Native(Default)
  BY DEF Default, Settings, WorkModes, Native
<1> QED
  BY <1>1 DEF WorkInit, WorkInv, WorkTypeOK, SharedAuthority, CleanupKept

\* While a change of the work mode is saved, and after it could not be saved, nothing is
\* allowed that one of the two modes forbids (WorkModeService.select_mode and _save).
THEOREM WorkShares == WorkSpec => [](WorkTypeOK /\ SharedAuthority)
<1>1. WorkInv => WorkTypeOK /\ SharedAuthority
  BY DEF WorkInv
<1> QED
  BY <1>1, WorkInitially, WorkInductive, PTL DEF WorkSpec

\* The cleanup of the native component stays due until it is acknowledged, through
\* failed saves and restarts.
THEOREM WorkOwesCleanup == WorkSpec => []CleanupOwed
<1>1. WorkInv => CleanupOwed
  BY DEF WorkInv, CleanupKept, CleanupOwed
<1> QED
  BY <1>1, WorkInitially, WorkInductive, PTL DEF WorkSpec

-----------------------------------------------------------------------------
(* The observer *)

\* Where the thread stands, against the events and the queue.
ObserverPlace ==
  /\ goAt = "wait" /\ goJobs # <<>> => goWake
  /\ goAt \in {"none", "final", "end"} => goJobs = <<>>
  /\ goStop => goJobs = <<>>
  /\ goAt \in {"final", "end"} => goStop
  /\ goAt = "end" => goFinal # "given"
  /\ goAt = "none" /\ goStop => goFinal = "none"
  /\ ~goStop => goFinal = "none"
  /\ goDone => goStop /\ goAt \in {"none", "end"}

ObserverTypes ==
  /\ goStop \in BOOLEAN /\ goWake \in BOOLEAN /\ goDone \in BOOLEAN
  /\ goAt \in Observer /\ goFinal \in {"none", "given", "ran"}

ObserverInv == ObserverTypes /\ ObserverPlace

LEMMA ObserverInductive == ObserverInv /\ [ObservationNext]_goVars => ObserverInv'
<1> SUFFICES ASSUME ObserverInv, [ObservationNext]_goVars PROVE ObserverInv'
  OBVIOUS
<1> USE DEF ObserverInv, ObserverTypes, ObserverPlace, Observer
<1>1. CASE StartObserver
  BY <1>1 DEF StartObserver
<1>2. ASSUME NEW key \in JobKeys, SubmitJob(key) PROVE ObserverInv'
  BY <1>2 DEF SubmitJob, StartedObserver
<1>3. ASSUME NEW finalizer \in {"none", "given"}, CloseObserver(finalizer) PROVE ObserverInv'
  <2>1. CASE (goAt # "none" \/ finalizer = "given") /\ goAt' = StartedObserver /\ UNCHANGED goDone
    <3>1. ObserverTypes'
      BY <1>3, <2>1 DEF CloseObserver, StartedObserver
    <3>2. ObserverPlace'
      BY <1>3, <2>1 DEF CloseObserver, StartedObserver
    <3> QED
      BY <3>1, <3>2
  <2>2. CASE goAt = "none" /\ finalizer = "none" /\ goDone' = TRUE /\ UNCHANGED goAt
    BY <1>3, <2>2 DEF CloseObserver
  <2> QED
    BY <1>3, <2>1, <2>2 DEF CloseObserver
<1>4. CASE CheckStop
  BY <1>4 DEF CheckStop
<1>5. CASE TakeJob
  BY <1>5 DEF TakeJob
<1>6. CASE JobEnds
  BY <1>6 DEF JobEnds
<1>10. CASE PublishResult
  BY <1>10 DEF PublishResult
<1>7. CASE Woken \/ IntervalEnds
  BY <1>7 DEF Woken, IntervalEnds
<1>8. CASE Finalize
  BY <1>8 DEF Finalize
<1>9. CASE UNCHANGED goVars
  BY <1>9 DEF goVars
<1> QED
  BY <1>1, <1>2, <1>3, <1>4, <1>5, <1>6, <1>7, <1>8, <1>9, <1>10 DEF ObservationNext, ObserverRun

LEMMA ObserverInitially == ObservationInit => ObserverInv
  BY DEF ObservationInit, ObserverInv, ObserverTypes, ObserverPlace, Observer

\* No wake-up of the observer is lost: a thread that waits while a job is queued has
\* been woken, and no job lies in the queue without a thread (submit and _run).
THEOREM ObserverIsWoken == ObservationSpec => []JobIsWoken
<1>1. ObserverInv => JobIsWoken
  BY DEF ObserverInv, ObserverPlace, JobIsWoken
<1> QED
  BY <1>1, ObserverInitially, ObserverInductive, PTL DEF ObservationSpec

\* wait_closed() returns only when the teardown given to close() has run.
THEOREM ObserverIsTornDown == ObservationSpec => []FinishedMeansTornDown
<1>1. ObserverInv => FinishedMeansTornDown
  BY DEF ObserverInv, ObserverPlace, FinishedMeansTornDown
<1> QED
  BY <1>1, ObserverInitially, ObserverInductive, PTL DEF ObservationSpec

-----------------------------------------------------------------------------
(* The lanes of a page *)

CommitTypes ==
  /\ pcWorker \in {"none", "running", "value", "error", "ended"}
  /\ pcDelivered \in BOOLEAN /\ pcError \in BOOLEAN
  /\ pcCommitted \in BOOLEAN /\ pcRaised \in BOOLEAN

\* What the signals that are queued, and those that were stored, say of the commit.
CommitPlace ==
  /\ pcWorker \in {"running", "value", "error"} => ~pcDelivered /\ ~pcError
  /\ pcWorker = "running" => pcTold = ""
  /\ pcWorker = "value" => pcCommitted
  /\ pcWorker = "error" => pcRaised
  /\ pcWorker = "ended" => IF pcDelivered /\ ~pcError THEN pcCommitted ELSE pcRaised
  /\ CommitTold

CommitInv == CommitTypes /\ CommitPlace

LEMMA CommitInductive == CommitInv /\ [PagesNext]_pagesVars => CommitInv'
<1> SUFFICES ASSUME CommitInv, [PagesNext]_pagesVars PROVE CommitInv'
  OBVIOUS
<1> USE DEF CommitInv, CommitTypes, CommitPlace, CommitTold
<1>1. CASE UNCHANGED pcVars
  BY <1>1 DEF pcVars
<1>2. CASE SubmitCommit
  BY <1>2 DEF SubmitCommit
<1>3. CASE CommitEnds
  BY <1>3 DEF CommitEnds
<1>4. CASE StoreAnswer
  BY <1>4 DEF StoreAnswer
<1>5. CASE Acknowledge
  BY <1>5 DEF Acknowledge
<1>6. CASE LaneNext \/ UNCHANGED pagesVars
  <2>1. UNCHANGED pcVars
    BY <1>6 DEF LaneNext, LaneRun, Submit, CancelReads, CloseLane, ReadEnds, Deliver, Finished,
       pagesVars
  <2> QED
    BY <1>1, <2>1
<1> QED
  BY <1>2, <1>3, <1>4, <1>5, <1>6 DEF PagesNext, CommitNext, CommitRun

\* A caller told that its commit is stored has it committed, and one told that it failed
\* had it raise (PageCommitLane).
THEOREM CommitIsTold == PagesSpec => []CommitTold
<1>1. PagesInit => CommitInv
  BY DEF PagesInit, CommitInv, CommitTypes, CommitPlace, CommitTold
<1>2. CommitInv => CommitTold
  BY DEF CommitInv, CommitPlace
<1> QED
  BY <1>1, <1>2, CommitInductive, PTL DEF PagesSpec

LaneTypes ==
  /\ pgEnd \in Seq(Ends) /\ pgClosed \in BOOLEAN
  /\ pgWorker \in {"none", "reading", "value", "error", "ended"}

\* The lane holds the newest request, and a worker is at work, as long as it waits.
LanePlace ==
  /\ pgLatest # 0 => /\ pgLatest = Len(pgEnd) /\ pgLatest \in Submitted
                     /\ pgWorker # "none" /\ ~pgClosed
  /\ \A i \in Submitted : pgEnd[i] = "waiting" <=> i = pgLatest

LaneInv == LaneTypes /\ LanePlace

\* What submit() does to the requests.
LEMMA Submitting ==
  ASSUME LaneInv, NEW key, Submit(key)
  PROVE  /\ pgEnd' \in Seq(Ends) /\ Len(pgEnd') = Len(pgEnd) + 1 /\ pgLatest' = Len(pgEnd) + 1
         /\ pgEnd'[Len(pgEnd) + 1] = "waiting"
         /\ \A i \in 1..Len(pgEnd) :
              /\ pgEnd'[i] # "waiting"
              /\ pgEnd[i] # "waiting" => pgEnd'[i] = pgEnd[i]
<1> DEFINE told == IF pgLatest = 0 THEN pgEnd ELSE Replaced(key)
<1>1. pgEnd \in Seq(Ends) /\ pgEnd' = Append(told, "waiting") /\ pgLatest' = Len(pgEnd) + 1
  BY DEF LaneInv, LaneTypes, Submit, NewId
<1>2. /\ told \in Seq(Ends) /\ Len(told) = Len(pgEnd)
      /\ \A i \in 1..Len(pgEnd) : /\ told[i] # "waiting"
                                  /\ pgEnd[i] # "waiting" => told[i] = pgEnd[i]
  <2>1. CASE pgLatest = 0
    BY <1>1, <2>1 DEF LaneInv, LanePlace, Submitted
  <2>2. CASE pgLatest # 0
    <3>1. PICK what \in {"discarded", "dropped"} : told = [pgEnd EXCEPT ![pgLatest] = what]
      BY <2>2 DEF Replaced, Told
    <3>2. \A i \in 1..Len(pgEnd) : pgEnd[i] = "waiting" <=> i = pgLatest
      BY <1>1 DEF LaneInv, LanePlace, Submitted
    <3> QED
      BY <1>1, <3>1, <3>2 DEF Ends
  <2> QED
    BY <2>1, <2>2
<1> HIDE DEF told
<1> QED
  BY <1>1, <1>2 DEF Ends

\* A step that tells the latest request something, and forgets it.
LEMMA Telling ==
  ASSUME LaneInv, pgLatest # 0, NEW what \in Ends \ {"waiting"}, pgEnd' = Told(pgLatest, what),
         pgLatest' = 0
  PROVE  /\ pgEnd' \in Seq(Ends) /\ LanePlace'
         /\ \A i \in Submitted : pgEnd[i] # "waiting" => pgEnd'[i] = pgEnd[i]
<1>1. /\ pgEnd \in Seq(Ends) /\ pgEnd' = [pgEnd EXCEPT ![pgLatest] = what]
      /\ \A i \in Submitted : pgEnd[i] = "waiting" <=> i = pgLatest
      /\ Submitted = 1..Len(pgEnd) /\ pgLatest \in 1..Len(pgEnd)
  BY DEF LaneInv, LaneTypes, LanePlace, Told, Submitted
<1>2. pgEnd' \in Seq(Ends) /\ Len(pgEnd') = Len(pgEnd)
  BY <1>1
<1>3. LanePlace'
  BY <1>1, <1>2 DEF LanePlace, Submitted
<1> QED
  BY <1>1, <1>2, <1>3

TellsOnce == \A i \in Submitted : pgEnd[i] # "waiting" => pgEnd'[i] = pgEnd[i]

LEMMA LaneInductive == LaneInv /\ [PagesNext]_pagesVars => LaneInv' /\ TellsOnce
<1> SUFFICES ASSUME LaneInv, [PagesNext]_pagesVars PROVE LaneInv' /\ TellsOnce
  OBVIOUS
<1>1. ASSUME NEW key \in Keys, Submit(key) PROVE LaneInv' /\ TellsOnce
  <2>1. Submitted = 1..Len(pgEnd) /\ Submitted' = 1..Len(pgEnd) + 1 /\ Len(pgEnd) \in Nat
    BY <1>1, Submitting DEF Submitted, LaneInv, LaneTypes
  <2>2. /\ pgWorker' \in {"reading", "value", "error", "ended"} /\ ~pgClosed /\ pgClosed' = pgClosed
    BY <1>1 DEF Submit, LaneInv, LaneTypes
  <2>3. LaneTypes'
    BY <1>1, <2>2, Submitting DEF LaneInv, LaneTypes
  <2>4. LanePlace'
    BY <1>1, <2>1, <2>2, Submitting DEF LanePlace
  <2>5. TellsOnce
    BY <1>1, <2>1, Submitting DEF TellsOnce
  <2> QED
    BY <2>3, <2>4, <2>5 DEF LaneInv
<1>2. CASE ReadEnds
  BY <1>2 DEF ReadEnds, LaneInv, LaneTypes, LanePlace, TellsOnce, Submitted
<1>3. CASE Deliver
  <2>1. pgWorker' = "ended" /\ pgClosed' = pgClosed
    BY <1>3 DEF Deliver
  <2>2. CASE Wanted
    <3>1. pgLatest # 0 /\ pgLatest' = 0
      BY <1>3, <2>2 DEF Deliver, Wanted
    <3>2. PICK what \in {"applied", "failed"} : pgEnd' = Told(pgLatest, what)
      BY <1>3, <2>2 DEF Deliver
    <3> QED
      BY <2>1, <3>1, <3>2, Telling DEF LaneInv, LaneTypes, Ends, TellsOnce
  <2>3. CASE ~Wanted
    BY <1>3, <2>3 DEF Deliver, LaneInv, LaneTypes, LanePlace, TellsOnce, Submitted
  <2> QED
    BY <2>2, <2>3
<1>4. CASE Finished
  BY <1>4 DEF Finished, StartRead, LaneInv, LaneTypes, LanePlace, TellsOnce, Submitted
<1>5. CASE CancelReads \/ CloseLane
  <2>1. /\ Withdraw /\ pgWorker' = pgWorker /\ pgClosed' \in BOOLEAN
    BY <1>5 DEF CancelReads, CloseLane, LaneInv, LaneTypes
  <2>2. CASE pgLatest # 0
    BY <2>1, <2>2, Telling DEF Withdraw, LaneInv, LaneTypes, Ends, TellsOnce
  <2>3. CASE pgLatest = 0
    BY <2>1, <2>3 DEF Withdraw, LaneInv, LaneTypes, LanePlace, TellsOnce, Submitted
  <2> QED
    BY <2>2, <2>3
<1>6. CASE UNCHANGED pgVars
  BY <1>6 DEF pgVars, LaneInv, LaneTypes, LanePlace, TellsOnce, Submitted
<1>7. CASE CommitNext \/ UNCHANGED pagesVars
  BY <1>6, <1>7 DEF CommitNext, CommitRun, SubmitCommit, CommitEnds, StoreAnswer, Acknowledge,
     pagesVars
<1> QED
  BY <1>1, <1>2, <1>3, <1>4, <1>5, <1>7 DEF PagesNext, LaneNext, LaneRun

LEMMA LaneInitially == PagesInit => LaneInv
<1>1. <<>> \in Seq(Ends) /\ DOMAIN <<>> = {}
  OBVIOUS
<1> QED
  BY <1>1 DEF PagesInit, LaneInv, LaneTypes, LanePlace, Submitted

\* Only the newest request of a lane waits, and while it does a worker is at work
\* (PageTaskLane).
THEOREM LaneHoldsLatest == PagesSpec => []OnlyLatestWaits
<1>1. LaneInv => OnlyLatestWaits
  BY DEF LaneInv, LanePlace, LaneTypes, OnlyLatestWaits, NewId, Submitted
<1> QED
  BY <1>1, LaneInitially, LaneInductive, PTL DEF PagesSpec

\* Every request is told once, and what it was told is not taken back.
THEOREM LaneTellsOnce == PagesSpec => ToldOnce
<1>1. LaneInv /\ [PagesNext]_pagesVars =>
        [\A i \in Submitted : pgEnd[i] # "waiting" => pgEnd'[i] = pgEnd[i]]_pagesVars
  BY LaneInductive DEF TellsOnce
<1> QED
  BY <1>1, LaneInitially, LaneInductive, PTL DEF PagesSpec, ToldOnce

-----------------------------------------------------------------------------
(* The worker of the synchronisation *)

Gone == {"lost", "failed", "stopped"}

\* Who is alive is the service of the window; what is joined has begun, and a stop that
\* reports no error is about a worker that is gone.
WorkerInv ==
  /\ asRun \in [Services -> {"none", "run", "asked"} \cup Gone]
  /\ asService \in Services \cup {0}
  /\ asService # 0 => asRun[asService] # "none"
  /\ \A j \in asJoins : j[1] \in Services => asRun[j[1]] # "none"
  /\ \A r \in asResults : r[1] \in Services /\ r[3] = FALSE => asRun[r[1]] \in Gone
  /\ \A s \in Services : Alive(s) => s = asService

LEMMA ZeroIsNone == 0 \notin Services
  BY DEF Services

\* A request to stop the service of the window, with or without a thread that joins it.
LEMMA AskingKeeps ==
  ASSUME WorkerInv, UNCHANGED <<asResults, asService>>,
         asRun' = asRun \/ (asService # 0 /\ asRun' = Asked(asService)),
         \A j \in asJoins' : j \in asJoins \/ j[1] = asService
  PROVE  WorkerInv'
<1>1. /\ asRun' \in [Services -> {"none", "run", "asked"} \cup Gone]
      /\ \A s \in Services : asRun'[s] = asRun[s] \/ (asRun[s] = "run" /\ asRun'[s] = "asked")
  <2>1. CASE asRun' = asRun
    BY <2>1 DEF WorkerInv
  <2>2. CASE asRun' = [asRun EXCEPT ![asService] = IF @ = "run" THEN "asked" ELSE @]
    BY <2>2 DEF WorkerInv
  <2> QED
    BY <2>1, <2>2 DEF Asked
<1>2. \A s \in Services : /\ asRun[s] # "none" => asRun'[s] # "none"
                          /\ asRun[s] \in Gone => asRun'[s] \in Gone
                          /\ asRun'[s] \in {"run", "asked"} => asRun[s] \in {"run", "asked"}
  BY <1>1 DEF Gone
<1>3. asService' # 0 => asRun'[asService'] # "none"
  BY <1>2 DEF WorkerInv
<1>4. \A j \in asJoins' : j[1] \in Services => asRun'[j[1]] # "none"
  BY <1>2, ZeroIsNone DEF WorkerInv
<1>5. \A s \in Services : Alive(s)' => s = asService'
  BY <1>2 DEF WorkerInv, Alive
<1> QED
  BY <1>1, <1>2, <1>3, <1>4, <1>5 DEF WorkerInv

LEMMA StopInventoryKeeps ==
  ASSUME WorkerInv, StopInventory, UNCHANGED <<asResults, asService>>
  PROVE  WorkerInv'
<1>1. \A j \in asJoins' : j \in asJoins \/ j[1] = asService
  BY DEF StopInventory
<1>2. asRun' = asRun \/ (asService # 0 /\ asRun' = Asked(asService))
  BY DEF StopInventory
<1> QED
  BY <1>1, <1>2, AskingKeeps

\* A new worker, when that of the window is gone.
LEMMA StartKeeps ==
  ASSUME WorkerInv, ~Alive(asService), Unused # {}, StartService,
         UNCHANGED <<asJoins, asResults>>
  PROVE  WorkerInv'
<1> DEFINE new == CHOOSE s \in Unused : TRUE
<1>1. new \in Services /\ asRun[new] = "none"
  BY DEF Unused
<1>2. asRun' = [asRun EXCEPT ![new] = "run"] /\ asService' = new
  BY DEF StartService
<1>3. \A s \in Services : ~Alive(s)
  BY DEF WorkerInv
<1> HIDE DEF new
<1> QED
  BY <1>1, <1>2, <1>3, ZeroIsNone DEF WorkerInv, Alive, Gone

\* The window lets go of a service that is gone.
LEMMA LettingGoKeeps ==
  ASSUME WorkerInv, asService' = asService \/ (~Alive(asService) /\ asService' = 0),
         UNCHANGED <<asRun, asJoins>>, asResults' \subseteq asResults
  PROVE  WorkerInv'
  BY ZeroIsNone DEF WorkerInv, Alive

LEMMA WorkerEndsKeeps ==
  ASSUME WorkerInv, NEW s \in Services, WorkerEnds(s)
  PROVE  WorkerInv'
<1>1. PICK end \in Gone : asRun' = [asRun EXCEPT ![s] = end]
  BY DEF WorkerEnds, Gone
<1> QED
  BY <1>1, ZeroIsNone DEF WorkerEnds, WorkerInv, Alive, Gone

LEMMA JoinEndsKeeps ==
  ASSUME WorkerInv, JoinEnds
  PROVE  WorkerInv'
<1>1. PICK join \in asJoins :
        /\ asJoins' = asJoins \ {join}
        /\ asResults' = asResults \cup {<<join[1], join[2], Alive(join[1])>>}
  BY DEF JoinEnds
<1>2. UNCHANGED <<asRun, asService>>
  BY DEF JoinEnds
<1>3. join[1] \in Services /\ ~Alive(join[1]) => asRun[join[1]] \in Gone
  BY ZeroIsNone DEF WorkerInv, Alive
<1>4. ASSUME NEW r \in asResults', r[1] \in Services, r[3] = FALSE
      PROVE  asRun[r[1]] \in Gone
  <2>1. CASE r \in asResults
    BY <1>4, <2>1 DEF WorkerInv
  <2>2. CASE r = <<join[1], join[2], Alive(join[1])>>
    <3>1. r[1] = join[1] /\ r[3] = Alive(join[1])
      BY <2>2
    <3> QED
      BY <1>3, <1>4, <3>1
  <2> QED
    BY <1>1, <2>1, <2>2
<1> QED
  BY <1>1, <1>2, <1>4 DEF WorkerInv, Alive

LEMMA StoppedKeeps ==
  ASSUME WorkerInv, NEW s \in 0..MaxServices, NEW error \in BOOLEAN, Stopped(s, error)
  PROVE  WorkerInv'
<1>1. UNCHANGED <<asRun, asJoins>> /\ asResults' \subseteq asResults
  BY DEF Stopped
<1>2. ASSUME asService' # asService PROVE ~Alive(asService) /\ asService' = 0
  <2>1. s = asService /\ ~asStopFailed' /\ asService' = 0 /\ asStopFailed' = (error /\ Alive(s))
    BY <1>2 DEF Stopped
  <2>2. CASE error
    BY <2>1, <2>2
  <2>3. CASE ~error
    <3>1. <<s, 0, FALSE>> \in asResults
      BY <2>3 DEF Stopped
    <3>2. s \in Services => asRun[s] \in Gone
      BY <3>1 DEF WorkerInv
    <3> QED
      BY <2>1, <3>2 DEF Alive, Gone, WorkerInv
  <2> QED
    BY <2>2, <2>3
<1> QED
  BY <1>1, <1>2, LettingGoKeeps

LEMMA WorkerInductive == WorkerInv /\ [AutoSyncNext]_asVars => WorkerInv'
<1> SUFFICES ASSUME WorkerInv, [AutoSyncNext]_asVars PROVE WorkerInv'
  OBVIOUS
<1>1. CASE UNCHANGED <<asRun, asJoins, asResults, asService>>
  BY <1>1, LettingGoKeeps
<1>2. CASE Tick \/ ScheduleRecovery \/ RefreshIdles \/ Listens \/ ResumeSync \/ SetEnabled
           \/ SwitchTimesOut \/ FinishSwitch \/ BattleGivesUp \/ UNCHANGED asVars
  BY <1>1, <1>2 DEF Tick, ScheduleRecovery, RefreshIdles, Listens, ResumeSync, SetEnabled,
     SwitchTimesOut, FinishSwitch, BattleGivesUp, asVars, workerVars
<1>3. CASE NoteContext \/ RestartSync \/ CancelRestart \/ Suspend
  BY <1>3, StopInventoryKeeps DEF NoteContext, RestartSync, CancelRestart, Suspend
<1>4. ASSUME NEW found \in {"ready", "missing", "no game"}, ObserveProbe(found) PROVE WorkerInv'
  <2>1. StopInventory \/ UNCHANGED <<asRun, asJoins>>
    BY <1>4 DEF ObserveProbe
  <2> QED
    BY <1>1, <1>4, <2>1, StopInventoryKeeps DEF ObserveProbe
<1>5. CASE RefreshStarts \/ Recover
  BY <1>5, StartKeeps DEF RefreshStarts, Recover, CanStart
<1>6. CASE EndBattle
  BY <1>1, <1>6, StartKeeps DEF EndBattle
<1>7. ASSUME NEW s \in Services, WorkerEnds(s) PROVE WorkerInv'
  BY <1>7, WorkerEndsKeeps
<1>8. CASE JoinEnds
  BY <1>8, JoinEndsKeeps
<1>9. CASE DeliverResult
  <2>1. ASSUME NEW s \in 0..MaxServices, NEW error \in BOOLEAN, Stopped(s, error)
        PROVE  WorkerInv'
    BY <2>1, StoppedKeeps
  <2>2. ASSUME NEW s \in 0..MaxServices, NEW error \in BOOLEAN, NEW c \in 1..MaxAsks + 1,
               TornDown(s, c, error)
        PROVE  WorkerInv'
    BY <2>2, LettingGoKeeps DEF TornDown
  <2> QED
    BY <1>9, <2>1, <2>2 DEF DeliverResult
<1>10. CASE SwitchJoined \/ BattlePauses
  BY <1>10, LettingGoKeeps DEF SwitchJoined, BattlePauses, workerVars
<1>11. CASE ChangeMode
  <2>1. \A j \in asJoins' : j \in asJoins \/ j[1] = asService
    BY <1>11 DEF ChangeMode
  <2> QED
    BY <1>11, <2>1, AskingKeeps DEF ChangeMode
<1>12. CASE BeginSwitch
  <2>1. asRun' = asRun \/ (asService # 0 /\ asRun' = Asked(asService))
    BY <1>12 DEF BeginSwitch
  <2> QED
    BY <1>12, <2>1, AskingKeeps DEF BeginSwitch
<1>13. CASE BeginBattle
  <2>1. asRun' = asRun \/ (asService # 0 /\ asRun' = Asked(asService))
    BY <1>13 DEF BeginBattle, Alive
  <2> QED
    BY <1>13, <2>1, AskingKeeps DEF BeginBattle
<1> QED
  BY <1>2, <1>3, <1>4, <1>5, <1>6, <1>7, <1>8, <1>9, <1>10, <1>11, <1>12, <1>13
     DEF AutoSyncNext, Refresh, Waits

\* There is never a second worker of the synchronisation, whoever starts one and however
\* long the stop of the last one takes (auto_sync_controller, inventory_sync_controller).
THEOREM OneWorkerAtATime == AutoSyncSpec => []OneWorker
<1>1. AutoSyncInit => WorkerInv
  BY ZeroIsNone DEF AutoSyncInit, WorkerInv, Alive, Gone
<1>2. WorkerInv => OneWorker
  BY DEF WorkerInv, OneWorker
<1> QED
  BY <1>1, <1>2, WorkerInductive, PTL DEF AutoSyncSpec

-----------------------------------------------------------------------------
(* The cultivation records *)

Saving == {"bind", "write", "conflict", "written", "commit", "remember"}
Binding == [id : 0..MaxIds, rev : Nat, req : Nat, epoch : Nat, sup : BOOLEAN]
Envelope == [draft : Drafts, req : Nat, epoch : Nat]
BoundTask == [at : Saving \ {"bind"}, env : Envelopes, id : Ids, rev : Nat]
DeleteTask == [at : {"delete", "unbind"}, id : Ids, rev : Nat]
Task == [at : {"none"}] \cup [at : {"bind"}, env : Envelopes] \cup BoundTask \cup DeleteTask

HistoryTypes ==
  /\ chBound \in [Drafts -> Binding] /\ chOpen \subseteq Drafts /\ chIds \in 0..MaxIds
  /\ chRows \in [Ids -> Nat] /\ chWhat \in [Ids -> 0..MaxEnvelopes]
  /\ chTask \in Task /\ chForeign \subseteq Ids
  /\ chEnded \in {"", "saved", "expired", "conflict", "failed", "deleted"}

FrozenInOrder == \E n \in 0..MaxEnvelopes : chEnv \in [1..n -> Envelope]

\* An id belongs to one draft; what has not been given out has no row.
OwnIds ==
  /\ \A d \in Drafts : chBound[d].id <= chIds /\ (chBound[d].id = 0 => chBound[d].rev = 0)
  /\ \A c, d \in Drafts : chBound[c].id = chBound[d].id /\ chBound[c].id # 0 => c = d
  /\ \A i \in Ids : i > chIds => chRows[i] = 0

\* What a save has read of the binding still holds, and what it found in the table while
\* it has the database to itself.
SaverHolds ==
  /\ chTask.at \in Saving => chTask.env \in Frozen /\ ~chBound[Saver].sup
  /\ chTask.at \in Saving \ {"bind"} => chTask.id = chBound[Saver].id
  /\ chTask.at \in {"write", "conflict", "written", "commit"} => chTask.rev = chBound[Saver].rev
  /\ chTask.at \in {"written", "commit"} => ~Conflicts /\ Saver \notin chLost
  /\ chTask.at = "remember" =>
       chTask.rev # 0 /\ (chTask.id \notin chForeign => chRows[chTask.id] = chTask.rev)

\* A draft that lost its record is closed to saves: it is suppressed, about to be, or it
\* knows a revision of a row that is gone.
LostIsClosed ==
  \A d \in chOpen \cap chLost :
    LET b == chBound[d] IN
    \/ b.sup
    \/ chTask.at = "unbind" /\ chTask.id = b.id
    \/ b.id # 0 /\ chRows[b.id] = 0 /\ (b.rev # 0 \/ (chTask.at = "remember" /\ Saver = d))

OwnRowIsKnown ==
  \A d \in chOpen :
    LET b == chBound[d] IN
    b.id # 0 /\ ~b.sup /\ b.id \notin chForeign =>
      \/ chRows[b.id] = b.rev
      \/ chTask.at = "unbind" /\ chTask.id = b.id
      \/ chTask.at = "remember" /\ Saver = d

HistoryInv ==
  HistoryTypes /\ FrozenInOrder /\ OwnIds /\ SaverHolds /\ LostIsClosed /\ OwnRowIsKnown
  /\ ConflictIsReal

LEMMA NoEnvelope == <<>> \in [1..0 -> Envelope]
  OBVIOUS

LEMMA HistoryInitially == CultivationInit => HistoryInv
<1> SUFFICES ASSUME CultivationInit PROVE HistoryInv
  OBVIOUS
<1>1. /\ chIds = 0 /\ chOpen = Drafts /\ chTask.at = "none" /\ chLost = {} /\ chForeign = {}
      /\ chEnded = ""
  BY DEF CultivationInit, NoTask
<1>2. \A d \in Drafts : chBound[d] = Unbound
  BY DEF CultivationInit
<1>3. Unbound \in Binding /\ Unbound.id = 0 /\ Unbound.rev = 0
  BY CultivationAssumption DEF Unbound, Binding
<1>4. \A i \in Ids : chRows[i] = 0
  BY DEF CultivationInit
<1>5. HistoryTypes
  <2>1. 0 \in 0..MaxEnvelopes /\ 0 \in 0..MaxIds
    BY CultivationAssumption
  <2>2. chBound \in [Drafts -> Binding]
    BY <1>3 DEF CultivationInit
  <2>4. chRows \in [Ids -> Nat]
    BY DEF CultivationInit
  <2>5. chWhat \in [Ids -> 0..MaxEnvelopes]
    BY <2>1 DEF CultivationInit
  <2>6. chTask \in Task
    BY DEF CultivationInit, NoTask, Task
  <2> QED
    BY <1>1, <2>1, <2>2, <2>4, <2>5, <2>6 DEF HistoryTypes
<1>9. FrozenInOrder
  <2>1. 0 \in 0..MaxEnvelopes
    BY CultivationAssumption
  <2>2. chEnv = <<>>
    BY DEF CultivationInit
  <2> QED
    BY <2>1, <2>2, NoEnvelope DEF FrozenInOrder
<1>6. OwnIds
  <2>1. \A d \in Drafts : chBound[d].id = 0 /\ chBound[d].rev = 0
    BY <1>2, <1>3
  <2>2. chIds = 0
    BY <1>1
  <2> QED
    BY <1>4, <2>1, <2>2 DEF OwnIds
<1>7. SaverHolds /\ LostIsClosed /\ ConflictIsReal
  BY <1>1 DEF SaverHolds, LostIsClosed, ConflictIsReal, Saving
<1>8. OwnRowIsKnown
  BY <1>1, <1>2, <1>3 DEF OwnRowIsKnown
<1> QED
  BY <1>5, <1>6, <1>7, <1>8, <1>9 DEF HistoryInv

\* The task and its envelope.
LEMMA TaskFields ==
  ASSUME HistoryTypes, FrozenInOrder
  PROVE  /\ chTask.at = "bind" => chTask = [at |-> "bind", env |-> chTask.env] /\ chTask.env \in Envelopes
         /\ chTask.at \in Saving \ {"bind"} => chTask \in BoundTask
         /\ chTask.at \in {"delete", "unbind"} => chTask \in DeleteTask
         /\ chTask.at \in Saving \cup {"none", "delete", "unbind"}
         /\ chTask.at \in Saving /\ chTask.env \in Frozen => Saver \in Drafts
  BY DEF HistoryTypes, FrozenInOrder, Task, BoundTask, DeleteTask, Saving, Saver, Frozen, Envelope

\* A calculation that is frozen comes after all others.
LEMMA NextEnvelope ==
  ASSUME FrozenInOrder
  PROVE  \E n \in 0..MaxEnvelopes :
           /\ Frozen = 1..n /\ chEnv \in [1..n -> Envelope]
           /\ 1 + (IF Frozen = {} THEN 0
                   ELSE CHOOSE i \in Frozen : \A j \in Frozen : j <= i) = n + 1
<1> DEFINE last == CHOOSE i \in Frozen : \A j \in Frozen : j <= i
<1>1. PICK n \in 0..MaxEnvelopes : chEnv \in [1..n -> Envelope]
  BY DEF FrozenInOrder
<1>2. Frozen = 1..n
  BY <1>1 DEF Frozen
<1>3. CASE n = 0
  BY <1>1, <1>2, <1>3
<1>4. CASE n # 0
  <2>1. n \in Frozen /\ \A j \in Frozen : j <= n
    BY <1>2, <1>4
  <2>2. last \in Frozen /\ \A j \in Frozen : j <= last
    BY <2>1
  <2>3. last = n
    <3> HIDE DEF last
    <3> QED
      BY <1>2, <2>1, <2>2
  <2>4. Frozen # {}
    BY <2>1
  <2> HIDE DEF last
  <2>5. 1 + (IF Frozen = {} THEN 0 ELSE last) = n + 1
    BY <2>3, <2>4
  <2> USE DEF last
  <2> QED
    BY <1>1, <1>2, <2>5
<1> QED
  BY <1>3, <1>4

LEMMA FreezeKeeps ==
  \A d \in Drafts : \A explicit \in BOOLEAN : HistoryInv /\ Freeze(d, explicit) => HistoryInv'
<1> SUFFICES ASSUME NEW d \in Drafts, NEW explicit \in BOOLEAN, HistoryInv, Freeze(d, explicit)
             PROVE  HistoryInv'
  OBVIOUS
<1> DEFINE b == chBound[d]
           n == chBound'[d]
<1>1. /\ HistoryTypes /\ FrozenInOrder /\ OwnIds /\ SaverHolds /\ LostIsClosed /\ OwnRowIsKnown /\ ConflictIsReal
      /\ chBound \in [Drafts -> Binding] /\ b \in Binding
  BY DEF HistoryInv, HistoryTypes
<1>2. /\ UNCHANGED <<chOpen, chIds, chRows, chWhat, chTask, chEnded, chForeign>>
      /\ d \in chOpen /\ chLost' = IF explicit THEN chLost \ {d} ELSE chLost
  BY DEF Freeze, rowVars
<1>3. /\ chBound' \in [Drafts -> Binding] /\ n \in Binding
      /\ n.id = (IF b.sup /\ explicit THEN 0 ELSE b.id)
      /\ n.rev = (IF b.sup /\ explicit THEN 0 ELSE b.rev)
      /\ n.sup = (b.sup /\ ~explicit)
      /\ \A c \in Drafts : c # d => chBound'[c] = chBound[c]
  <2> DEFINE m == [b EXCEPT !.id = IF b.sup /\ explicit THEN 0 ELSE b.id,
                            !.rev = IF b.sup /\ explicit THEN 0 ELSE b.rev,
                            !.epoch = IF b.sup /\ explicit THEN b.epoch + 1 ELSE b.epoch,
                            !.sup = b.sup /\ ~explicit,
                            !.req = b.req + 1]
  <2>1. chBound' = [chBound EXCEPT ![d] = m]
    BY DEF Freeze, Reopens
  <2>2. /\ m \in Binding
        /\ m.id = (IF b.sup /\ explicit THEN 0 ELSE b.id)
        /\ m.rev = (IF b.sup /\ explicit THEN 0 ELSE b.rev)
        /\ m.sup = (b.sup /\ ~explicit)
    <3> DEFINE i == IF b.sup /\ explicit THEN 0 ELSE b.id
               r == IF b.sup /\ explicit THEN 0 ELSE b.rev
               e == IF b.sup /\ explicit THEN b.epoch + 1 ELSE b.epoch
               s == b.sup /\ ~explicit
    <3>1. /\ i \in 0..MaxIds /\ r \in Nat /\ e \in Nat /\ b.req + 1 \in Nat
          /\ s \in BOOLEAN
      BY <1>1, CultivationAssumption DEF Binding
    <3>2. m = [b EXCEPT !.id = i, !.rev = r, !.epoch = e, !.sup = s,
                        !.req = b.req + 1]
      OBVIOUS
    <3>4. b \in Binding
      BY <1>1
    <3> HIDE DEF b, i, r, e, s, m
    <3>3. m \in Binding /\ m.id = i /\ m.rev = r /\ m.sup = s
      BY <3>1, <3>2, <3>4 DEF Binding
    <3> USE DEF b, i, r, s
    <3> QED
      BY <3>3
  <2> HIDE DEF m
  <2>3. n = m /\ \A c \in Drafts : c # d => chBound'[c] = chBound[c]
    BY <1>1, <2>1
  <2>4. chBound' \in [Drafts -> Binding]
    BY <1>1, <2>1, <2>2
  <2> QED
    BY <2>2, <2>3, <2>4
<1>4. /\ FrozenInOrder'
      /\ Frozen \subseteq Frozen' /\ \A e \in Frozen : chEnv'[e] = chEnv[e]
  <2>1. PICK k \in 0..MaxEnvelopes :
           /\ Frozen = 1..k /\ chEnv \in [1..k -> Envelope]
           /\ 1 + (IF Frozen = {} THEN 0
                   ELSE CHOOSE i \in Frozen : \A j \in Frozen : j <= i) = k + 1
    BY <1>1, NextEnvelope
  <2>2. /\ k + 1 \in Envelopes
        /\ chEnv' = [i \in Frozen \cup {k + 1} |->
                    IF i = k + 1 THEN [draft |-> d, req |-> n.req, epoch |-> n.epoch]
                    ELSE chEnv[i]]
    BY <2>1, <1>1 DEF Freeze
  <2>3. Frozen \cup {k + 1} = 1..(k + 1) /\ k + 1 \in 0..MaxEnvelopes /\ k + 1 \notin Frozen
    BY <2>1, <2>2, CultivationAssumption DEF Envelopes
  <2>4. [draft |-> d, req |-> n.req, epoch |-> n.epoch] \in Envelope
    BY <1>3 DEF Envelope, Binding
  <2>5. chEnv' \in [1..(k + 1) -> Envelope] /\ Frozen' = 1..(k + 1)
    BY <2>1, <2>2, <2>3, <2>4 DEF Frozen
  <2> QED
    BY <2>1, <2>2, <2>3, <2>5 DEF FrozenInOrder
<1>5. HistoryTypes'
  BY <1>1, <1>2, <1>3, <1>4 DEF HistoryTypes
<1>6. OwnIds'
  <2>1. \A c \in Drafts : \/ chBound'[c].id = chBound[c].id /\ chBound'[c].rev = chBound[c].rev
                          \/ chBound'[c].id = 0 /\ chBound'[c].rev = 0
    <3> SUFFICES ASSUME NEW c \in Drafts
                 PROVE  \/ chBound'[c].id = chBound[c].id /\ chBound'[c].rev = chBound[c].rev
                        \/ chBound'[c].id = 0 /\ chBound'[c].rev = 0
      OBVIOUS
    <3>1. CASE c = d
      BY <1>3, <3>1
    <3>2. CASE c # d
      BY <1>3, <3>2
    <3> QED
      BY <3>1, <3>2
  <2>2. 0 <= chIds
    <3>1. chIds \in 0..MaxIds
      BY <1>1 DEF HistoryTypes
    <3> QED
      BY <3>1, CultivationAssumption
  <2> QED
    <3>1. \A c \in Drafts : chBound'[c].id <= chIds /\ (chBound'[c].id = 0 => chBound'[c].rev = 0)
      BY <1>1, <2>1, <2>2 DEF OwnIds
    <3>2. \A c, e \in Drafts : chBound'[c].id = chBound'[e].id /\ chBound'[c].id # 0 => c = e
      BY <1>1, <2>1 DEF OwnIds
    <3> QED
      BY <1>1, <1>2, <3>1, <3>2 DEF OwnIds
<1>7. chTask.at \in Saving => Saver' = Saver /\ Saver \in Drafts
        /\ chBound'[Saver].id = chBound[Saver].id /\ chBound'[Saver].rev = chBound[Saver].rev
        /\ ~chBound'[Saver].sup
  BY <1>1, <1>2, <1>3, <1>4, TaskFields DEF SaverHolds, Saver
<1>8. SaverHolds'
  BY <1>1, <1>2, <1>4, <1>7 DEF SaverHolds, Saving, Conflicts
<1>9. LostIsClosed' /\ OwnRowIsKnown'
  <2>1. chTask.at = "remember" => Saver' = Saver
    BY <1>7 DEF Saving
  <2>2. d \in chLost' => ~explicit /\ d \in chLost
    BY <1>2
  <2>3. chOpen \subseteq Drafts
    BY <1>1 DEF HistoryTypes
  <2>4. LostIsClosed'
    <3> SUFFICES ASSUME NEW c \in chOpen, c \in chLost'
                 PROVE  LET x == chBound'[c] IN
                        \/ x.sup
                        \/ chTask.at = "unbind" /\ chTask.id = x.id
                        \/ /\ x.id # 0 /\ chRows[x.id] = 0
                           /\ (x.rev # 0 \/ (chTask.at = "remember" /\ Saver = c))
      BY <1>2, <2>1 DEF LostIsClosed
    <3>1. c \in chOpen \cap chLost /\ (c = d => ~explicit)
      BY <1>2, <2>2
    <3> QED
      BY <1>1, <1>3, <2>3, <3>1 DEF LostIsClosed
  <2>5. OwnRowIsKnown'
    <3> SUFFICES ASSUME NEW c \in chOpen
                 PROVE  LET x == chBound'[c] IN
                        x.id # 0 /\ ~x.sup /\ x.id \notin chForeign =>
                          \/ chRows[x.id] = x.rev
                          \/ chTask.at = "unbind" /\ chTask.id = x.id
                          \/ chTask.at = "remember" /\ Saver = c
      BY <1>2, <2>1 DEF OwnRowIsKnown
    <3>1. chBound'[c].id # 0 /\ ~chBound'[c].sup => ~chBound[c].sup \/ c # d
      BY <1>1, <1>3, <2>3
    <3> QED
      BY <1>1, <1>3, <2>3, <3>1 DEF OwnRowIsKnown
  <2> QED
    BY <2>4, <2>5
<1>10. ConflictIsReal'
  BY <1>1, <1>2 DEF ConflictIsReal
<1> QED
  BY <1>4, <1>5, <1>6, <1>8, <1>9, <1>10 DEF HistoryInv

LEMMA EditKeeps == \A d \in Drafts : HistoryInv /\ (Invalidate(d) \/ Discard(d)) => HistoryInv'
<1> SUFFICES ASSUME NEW d \in Drafts, HistoryInv, Invalidate(d) \/ Discard(d) PROVE HistoryInv'
  OBVIOUS
<1>1. /\ HistoryTypes /\ FrozenInOrder /\ OwnIds /\ SaverHolds /\ LostIsClosed /\ OwnRowIsKnown /\ ConflictIsReal
      /\ chBound \in [Drafts -> Binding]
  BY DEF HistoryInv, HistoryTypes
<1>2. /\ UNCHANGED <<chEnv, chIds, chRows, chWhat, chTask, chEnded, chLost, chForeign>>
      /\ chOpen' \subseteq chOpen
      /\ chBound' \in [Drafts -> Binding]
      /\ \A c \in Drafts : /\ chBound'[c].id = chBound[c].id /\ chBound'[c].rev = chBound[c].rev
                           /\ chBound'[c].sup = chBound[c].sup
  <2>1. CASE Invalidate(d)
    BY <1>1, <2>1 DEF Invalidate, rowVars, Binding
  <2>2. CASE Discard(d)
    BY <1>1, <2>2 DEF Discard, rowVars
  <2> QED
    BY <2>1, <2>2
<1>3. HistoryTypes'
  BY <1>1, <1>2 DEF HistoryTypes
<1>8. FrozenInOrder'
  BY <1>1, <1>2 DEF FrozenInOrder
<1>4. OwnIds'
  BY <1>1, <1>2 DEF OwnIds
<1>5. chTask.at \in Saving => Saver \in Drafts
  BY <1>1, TaskFields DEF SaverHolds
<1>6. SaverHolds'
  BY <1>1, <1>2, <1>5 DEF SaverHolds, Saver, Saving, Conflicts, Frozen
<1>7. LostIsClosed' /\ OwnRowIsKnown' /\ ConflictIsReal'
  <2>1. chOpen \subseteq Drafts /\ Saver' = Saver
    BY <1>1, <1>2 DEF HistoryTypes, Saver
  <2> QED
    BY <1>1, <1>2, <2>1 DEF LostIsClosed, OwnRowIsKnown, ConflictIsReal
<1> QED
  BY <1>3, <1>4, <1>6, <1>7, <1>8 DEF HistoryInv

\* Nothing but the task goes on.
LEMMA TaskMovesOn ==
  ASSUME HistoryInv, UNCHANGED <<bindingVars, rowVars, chLost, chForeign>>, chTask' \in Task,
         chEnded' \in {"", "saved", "expired", "conflict", "failed", "deleted"},
         chTask.at \notin {"remember", "unbind"}, SaverHolds', ConflictIsReal'
  PROVE  HistoryInv'
<1>1. /\ HistoryTypes /\ FrozenInOrder /\ OwnIds /\ LostIsClosed /\ OwnRowIsKnown
      /\ UNCHANGED <<chBound, chOpen, chEnv, chIds, chRows, chWhat, chLost, chForeign>>
  BY DEF HistoryInv, bindingVars, rowVars
<1>2. HistoryTypes' /\ FrozenInOrder' /\ OwnIds'
  BY <1>1 DEF HistoryTypes, FrozenInOrder, OwnIds
<1>3. LostIsClosed' /\ OwnRowIsKnown'
  BY <1>1 DEF LostIsClosed, OwnRowIsKnown
<1> QED
  BY <1>2, <1>3 DEF HistoryInv

\* An operation that is over leaves nothing to hold.
LEMMA NoTaskHolds ==
  ASSUME chTask' = NoTask
  PROVE  /\ SaverHolds' /\ ConflictIsReal' /\ chTask'.at = "none" /\ chTask' \in Task
<1>1. chTask'.at = "none" /\ chTask' = [at |-> "none"]
  BY DEF NoTask
<1> QED
  BY <1>1 DEF SaverHolds, ConflictIsReal, Saving, Task

LEMMA BeginsKeep ==
  ASSUME HistoryInv, \/ \E e \in Envelopes : BeginSave(e)
                     \/ \E i \in Ids : BeginDelete(i)
  PROVE  HistoryInv'
<1>1. CASE \E e \in Envelopes : BeginSave(e)
  <2>1. PICK e \in Envelopes : BeginSave(e)
    BY <1>1
  <2>2. /\ UNCHANGED <<bindingVars, rowVars, chLost, chForeign>> /\ chTask.at = "none"
        /\ e \in Frozen /\ chEnv' = chEnv /\ chBound' = chBound
        /\ chEnded' \in {"", "expired"}
    BY <2>1 DEF BeginSave, bindingVars
  <2>3. CASE Current(e)
    <3>0. chTask' = [at |-> "bind", env |-> e]
      BY <2>1, <2>3 DEF BeginSave
    <3>1. chTask' = [at |-> "bind", env |-> e] /\ chTask'.at = "bind" /\ chTask'.env = e
      BY <3>0
    <3>2. chTask' \in Task
      BY <3>1 DEF Task
    <3>3. ~chBound[chEnv[e].draft].sup
      BY <2>3 DEF Current
    <3>4. SaverHolds'
      BY <2>2, <3>1, <3>3 DEF SaverHolds, Saving, Saver, Frozen
    <3>5. ConflictIsReal'
      BY <3>1 DEF ConflictIsReal
    <3> QED
      BY <2>2, <3>2, <3>4, <3>5, TaskMovesOn
  <2>4. CASE ~Current(e)
    BY <2>1, <2>2, <2>4, NoTaskHolds, TaskMovesOn DEF BeginSave
  <2> QED
    BY <2>3, <2>4
<1>2. CASE \E i \in Ids : BeginDelete(i)
  <2>1. PICK i \in Ids : BeginDelete(i)
    BY <1>2
  <2>2. /\ UNCHANGED <<bindingVars, rowVars, chLost, chForeign>> /\ chTask.at = "none"
        /\ chEnded' = ""
    BY <2>1 DEF BeginDelete
  <2>3. PICK rev \in 1..chRows[i] : chTask' = [at |-> "delete", id |-> i, rev |-> rev]
    BY <2>1 DEF BeginDelete
  <2>4. rev \in Nat
    <3>1. chRows[i] \in Nat
      BY DEF HistoryInv, HistoryTypes
    <3> QED
      BY <3>1
  <2>5. chTask' \in Task /\ chTask'.at = "delete"
    BY <2>3, <2>4 DEF Task, DeleteTask
  <2>6. SaverHolds' /\ ConflictIsReal'
    BY <2>5 DEF SaverHolds, ConflictIsReal, Saving
  <2> QED
    BY <2>2, <2>5, <2>6, TaskMovesOn
<1> QED
  BY <1>1, <1>2

LEMMA WriteKeeps == HistoryInv /\ Write => HistoryInv'
<1> SUFFICES ASSUME HistoryInv, Write PROVE HistoryInv'
  OBVIOUS
<1>1. /\ HistoryTypes /\ FrozenInOrder /\ SaverHolds /\ LostIsClosed /\ OwnRowIsKnown
      /\ UNCHANGED <<bindingVars, rowVars, chLost, chForeign>> /\ chTask.at = "write"
      /\ UNCHANGED <<chBound, chEnv, chOpen, chRows, chIds, chWhat>>
  BY DEF HistoryInv, Write, bindingVars, rowVars
<1>2. CASE chTask' = NoTask
  <2>1. chEnded' \in {"", "saved", "expired", "conflict", "failed", "deleted"}
    BY DEF Write, HistoryInv, HistoryTypes
  <2> QED
    BY <1>1, <1>2, <2>1, NoTaskHolds, TaskMovesOn
<1>3. CASE chTask' # NoTask
  <2>1. /\ Current(chTask.env) /\ chEnded' = chEnded
        /\ \/ Conflicts /\ chTask' = [chTask EXCEPT !.at = "conflict"]
           \/ ~Conflicts /\ chTask' = [chTask EXCEPT !.at = "written"]
    BY <1>3 DEF Write
  <2>2. /\ chTask \in BoundTask /\ chTask.env \in Frozen /\ Saver \in Drafts
        /\ ~chBound[Saver].sup /\ chTask.id = chBound[Saver].id /\ chTask.rev = chBound[Saver].rev
    BY <1>1, TaskFields DEF SaverHolds, Saving
  <2>3. /\ chTask' \in BoundTask /\ chTask'.at \in {"conflict", "written"}
        /\ chTask'.env = chTask.env /\ chTask'.id = chTask.id /\ chTask'.rev = chTask.rev
        /\ chTask'.at = "conflict" <=> Conflicts
    BY <2>1, <2>2 DEF BoundTask, Saving
  <2>4. Saver' = Saver /\ (Conflicts' <=> Conflicts)
    BY <1>1, <2>3 DEF Saver, Conflicts
  <2>5. /\ Saver \in chOpen /\ chTask.id \in Ids /\ chTask.id # 0
        /\ chRows[chTask.id] \in Nat
    <3>1. Saver \in chOpen
      BY <2>1 DEF Current, Saver
    <3>2. chTask.id \in Ids
      BY <2>2 DEF BoundTask
    <3>3. chTask.id # 0
      BY <3>2, CultivationAssumption DEF Ids
    <3>4. chRows \in [Ids -> Nat]
      BY <1>1 DEF HistoryTypes
    <3> QED
      BY <3>1, <3>2, <3>3, <3>4
  <2>6. ~Conflicts => Saver \notin chLost
    BY <1>1, <2>2, <2>5 DEF LostIsClosed, Conflicts
  <2>7. SaverHolds'
    BY <1>1, <2>2, <2>3, <2>4, <2>6 DEF SaverHolds, Saving, Frozen
  <2>8. ConflictIsReal'
    BY <1>1, <2>2, <2>3, <2>5 DEF ConflictIsReal, OwnRowIsKnown, Conflicts
  <2>9. chTask' \in Task
    BY <2>3 DEF Task
  <2> QED
    BY <1>1, <2>1, <2>7, <2>8, <2>9, TaskMovesOn DEF HistoryInv, HistoryTypes
<1> QED
  BY <1>2, <1>3

LEMMA CheckKeeps == HistoryInv /\ CheckWritten => HistoryInv'
<1> SUFFICES ASSUME HistoryInv, CheckWritten PROVE HistoryInv'
  OBVIOUS
<1>1. /\ HistoryTypes /\ FrozenInOrder /\ SaverHolds
      /\ UNCHANGED <<bindingVars, rowVars, chLost, chForeign>> /\ chTask.at = "written"
      /\ UNCHANGED <<chBound, chEnv, chOpen, chRows, chIds, chWhat>>
  BY DEF HistoryInv, CheckWritten, bindingVars, rowVars
<1>2. CASE ~Current(chTask.env)
  BY <1>1, <1>2, NoTaskHolds, TaskMovesOn DEF CheckWritten
<1>3. CASE Current(chTask.env)
  <2>1. chTask' = [chTask EXCEPT !.at = "commit"] /\ chEnded' = chEnded /\ chTask \in BoundTask
    BY <1>1, <1>3, TaskFields DEF CheckWritten, Saving
  <2>2. /\ chTask' \in BoundTask /\ chTask'.at = "commit"
        /\ chTask'.env = chTask.env /\ chTask'.id = chTask.id /\ chTask'.rev = chTask.rev
    BY <2>1 DEF BoundTask, Saving
  <2>3. Saver' = Saver /\ (Conflicts' <=> Conflicts)
    BY <1>1, <2>2 DEF Saver, Conflicts
  <2>4. SaverHolds' /\ ConflictIsReal'
    BY <1>1, <2>2, <2>3 DEF SaverHolds, ConflictIsReal, Saving, Frozen
  <2>5. chTask' \in Task
    BY <2>2 DEF Task
  <2> QED
    BY <1>1, <2>1, <2>4, <2>5, TaskMovesOn DEF HistoryInv, HistoryTypes
<1> QED
  BY <1>2, <1>3

LEMMA BoundIds ==
  ASSUME HistoryTypes
  PROVE  /\ chIds \in Int /\ \A i \in Ids : i \in Int
         /\ \A d \in Drafts : chBound[d].id # 0 => chBound[d].id \in Ids
<1>1. chIds \in 0..MaxIds /\ chBound \in [Drafts -> Binding]
  BY DEF HistoryTypes
<1>2. \A d \in Drafts : chBound[d].id \in 0..MaxIds
  BY <1>1 DEF Binding
<1> QED
  BY <1>1, <1>2, CultivationAssumption DEF Ids

LEMMA BindKeeps == HistoryInv /\ Bind => HistoryInv'
<1> SUFFICES ASSUME HistoryInv, Bind PROVE HistoryInv'
  OBVIOUS
<1>1. /\ HistoryTypes /\ FrozenInOrder /\ OwnIds /\ SaverHolds /\ LostIsClosed /\ OwnRowIsKnown
      /\ UNCHANGED <<chOpen, chEnv, chRows, chWhat, chLost, chForeign>> /\ chTask.at = "bind"
  BY DEF HistoryInv, Bind, rowVars
<1>2. /\ chTask.env \in Envelopes /\ chTask.env \in Frozen /\ Saver \in Drafts
      /\ ~chBound[Saver].sup
  BY <1>1, TaskFields DEF SaverHolds, Saving
<1>3. CASE Saver \notin chOpen
  <2>1. UNCHANGED <<bindingVars, rowVars, chLost, chForeign>> /\ chTask' = NoTask
        /\ chEnded' = "failed"
    BY <1>3 DEF Bind, bindingVars
  <2> QED
    BY <1>1, <2>1, NoTaskHolds, TaskMovesOn
<1>4. CASE Saver \in chOpen
  <2> DEFINE b == chBound[Saver]
             i == IF b.id = 0 THEN chIds + 1 ELSE b.id
  <2>1. /\ i \in Ids /\ chIds' = (IF b.id = 0 THEN i ELSE chIds)
        /\ chBound' = [chBound EXCEPT ![Saver].id = i]
        /\ chTask' = [at |-> "write", env |-> chTask.env, id |-> i, rev |-> b.rev]
        /\ chEnded' = chEnded
    BY <1>4 DEF Bind
  <2>2. /\ chBound \in [Drafts -> Binding] /\ b \in Binding /\ chIds \in 0..MaxIds
        /\ chRows \in [Ids -> Nat]
    BY <1>1, <1>2 DEF HistoryTypes
  <2>3. i \in 1..MaxIds /\ i # 0 /\ chIds \in Nat /\ b.rev \in Nat
    BY <2>1, <2>2, CultivationAssumption DEF Ids, Binding
  <2>4. /\ chBound'[Saver].id = i /\ chBound'[Saver].rev = b.rev /\ ~chBound'[Saver].sup
        /\ chBound' \in [Drafts -> Binding]
        /\ \A c \in Drafts : c # Saver => chBound'[c] = chBound[c]
    BY <1>2, <2>1, <2>2, <2>3, CultivationAssumption DEF Binding
  <2>5. /\ chIds' \in 0..MaxIds /\ chIds <= chIds' /\ i <= chIds'
        /\ b.id = 0 => i = chIds + 1 /\ b.rev = 0 /\ chRows[i] = 0
        /\ b.id # 0 => i = b.id /\ chIds' = chIds
    BY <1>1, <1>2, <2>1, <2>2, <2>3, CultivationAssumption DEF OwnIds, Binding
  <2>6. chTask' \in BoundTask /\ chTask'.at = "write"
        /\ chTask'.env = chTask.env /\ chTask'.id = i /\ chTask'.rev = b.rev
    BY <1>2, <2>1, <2>3 DEF BoundTask, Saving
  <2>7. Saver' = Saver
    BY <1>1, <2>6 DEF Saver
  <2> HIDE DEF i
  <2>8. HistoryTypes' /\ FrozenInOrder'
    BY <1>1, <2>1, <2>4, <2>5, <2>6 DEF HistoryTypes, FrozenInOrder, Task
  <2>9. OwnIds'
    <3>1. \A d \in Drafts :
            /\ chBound[d].id \in Nat /\ chBound[d].id <= chIds
            /\ chBound[d].id = 0 => chBound[d].rev = 0
      BY <1>1, <2>2, CultivationAssumption DEF OwnIds, Binding
    <3>2. \A d \in Drafts : /\ chBound'[d].id <= chIds'
                            /\ chBound'[d].id = 0 => chBound'[d].rev = 0
      BY <2>3, <2>4, <2>5, <3>1, CultivationAssumption
    <3>3. \A c \in Drafts : c # Saver => chBound'[c].id # i
      BY <1>1, <1>2, <2>3, <2>4, <2>5, <3>1 DEF OwnIds
    <3>4. \A c, d \in Drafts : chBound'[c].id = chBound'[d].id /\ chBound'[c].id # 0 => c = d
      BY <1>1, <1>2, <2>4, <3>3 DEF OwnIds
    <3>5. \A j \in Ids : j > chIds' => chRows'[j] = 0
      <4> SUFFICES ASSUME NEW j \in Ids, j > chIds' PROVE chRows[j] = 0
        BY <1>1
      <4>1. j \in Int
        BY CultivationAssumption DEF Ids
      <4>2. j > chIds
        BY <2>2, <2>5, <4>1, CultivationAssumption
      <4> QED
        BY <1>1, <4>2 DEF OwnIds
    <3> QED
      BY <3>2, <3>4, <3>5 DEF OwnIds
  <2>10. SaverHolds' /\ ConflictIsReal'
    BY <1>1, <1>2, <2>4, <2>6, <2>7 DEF SaverHolds, ConflictIsReal, Saving, Frozen
  <2>11. chOpen \subseteq Drafts
    BY <1>1 DEF HistoryTypes
  <2>12. LostIsClosed'
    <3> SUFFICES ASSUME NEW d \in chOpen \cap chLost
                 PROVE  LET x == chBound'[d] IN
                        x.sup \/ (x.id # 0 /\ chRows[x.id] = 0 /\ x.rev # 0)
      BY <1>1, <2>6 DEF LostIsClosed
    <3>1. LET x == chBound[d] IN x.sup \/ (x.id # 0 /\ chRows[x.id] = 0 /\ x.rev # 0)
      BY <1>1 DEF LostIsClosed
    <3>2. CASE d = Saver
      BY <1>2, <2>4, <2>5, <3>1, <3>2
    <3>3. CASE d # Saver
      BY <2>4, <2>11, <3>1, <3>3
    <3> QED
      BY <3>2, <3>3
  <2>13. OwnRowIsKnown'
    <3> SUFFICES ASSUME NEW d \in chOpen,
                        LET x == chBound'[d] IN x.id # 0 /\ ~x.sup /\ x.id \notin chForeign
                 PROVE  chRows[chBound'[d].id] = chBound'[d].rev
      BY <1>1 DEF OwnRowIsKnown
    <3>1. LET x == chBound[d] IN x.id # 0 /\ ~x.sup /\ x.id \notin chForeign =>
                                   chRows[x.id] = x.rev
      BY <1>1 DEF OwnRowIsKnown
    <3>2. CASE d = Saver
      BY <1>2, <2>4, <2>5, <3>1, <3>2
    <3>3. CASE d # Saver
      BY <2>4, <2>11, <3>1, <3>3
    <3> QED
      BY <3>2, <3>3
  <2> QED
    BY <2>8, <2>9, <2>10, <2>12, <2>13 DEF HistoryInv
<1> QED
  BY <1>3, <1>4

LEMMA CommitSaveKeeps == HistoryInv /\ CommitSave => HistoryInv'
<1> SUFFICES ASSUME HistoryInv, CommitSave PROVE HistoryInv'
  OBVIOUS
<1>1. /\ HistoryTypes /\ FrozenInOrder /\ OwnIds /\ SaverHolds /\ LostIsClosed /\ OwnRowIsKnown
      /\ UNCHANGED <<bindingVars, chLost, chForeign>> /\ chTask.at = "commit"
      /\ UNCHANGED <<chBound, chEnv, chOpen, chIds>>
  BY DEF HistoryInv, CommitSave, bindingVars
<1>2. CASE chTask' = NoTask
  <2>1. chEnded' = "failed" /\ UNCHANGED rowVars
    BY <1>1, <1>2 DEF CommitSave, NoTask
  <2> QED
    BY <1>1, <1>2, <2>1, NoTaskHolds, TaskMovesOn
<1>3. CASE chTask' # NoTask
  <2>1. /\ chRows' = [chRows EXCEPT ![chTask.id] = IF SameContent THEN @ ELSE @ + 1]
        /\ chWhat' = [chWhat EXCEPT ![chTask.id] = chTask.env]
        /\ chTask' = [chTask EXCEPT !.at = "remember", !.rev = chRows'[chTask.id]]
        /\ chEnded' = chEnded
    BY <1>3 DEF CommitSave
  <2>2. /\ chTask \in BoundTask /\ chTask.env \in Frozen /\ Saver \in Drafts
        /\ chTask.id = chBound[Saver].id /\ chTask.rev = chBound[Saver].rev
        /\ ~Conflicts /\ Saver \notin chLost /\ ~chBound[Saver].sup
    BY <1>1, TaskFields DEF SaverHolds, Saving
  <2>3. /\ chRows \in [Ids -> Nat] /\ chWhat \in [Ids -> 0..MaxEnvelopes] /\ chOpen \subseteq Drafts
        /\ chTask.id \in Ids /\ chTask.env \in Envelopes
    BY <1>1, <2>2 DEF HistoryTypes, BoundTask
  <2>4. chTask.id # 0 /\ chTask.env \in 0..MaxEnvelopes
    BY <2>3, CultivationAssumption DEF Ids, Envelopes
  <2>5. /\ chRows' \in [Ids -> Nat] /\ chWhat' \in [Ids -> 0..MaxEnvelopes]
        /\ \A j \in Ids : j # chTask.id => chRows'[j] = chRows[j]
        /\ chRows'[chTask.id] # 0
    <3>1. chRows[chTask.id] \in Nat
      BY <2>3
    <3>2. SameContent => chRows[chTask.id] # 0
      BY <2>2 DEF SameContent, Conflicts
    <3> QED
      BY <2>1, <2>3, <2>4, <3>1, <3>2
  <2>6. /\ chTask' \in BoundTask /\ chTask'.at = "remember" /\ chTask'.env = chTask.env
        /\ chTask'.id = chTask.id /\ chTask'.rev = chRows'[chTask.id]
    <3>1. chRows'[chTask.id] \in Nat
      BY <2>3, <2>5
    <3> QED
      BY <2>1, <2>2, <3>1 DEF BoundTask, Saving
  <2>7. Saver' = Saver
    BY <1>1, <2>6 DEF Saver
  <2>8. HistoryTypes' /\ FrozenInOrder'
    BY <1>1, <2>1, <2>5, <2>6 DEF HistoryTypes, FrozenInOrder, Task
  <2>9. OwnIds'
    <3>1. chTask.id <= chIds /\ chIds \in Int /\ chTask.id \in Int
      BY <1>1, <2>2, <2>3, BoundIds DEF OwnIds
    <3>2. \A j \in Ids : j > chIds' => chRows'[j] = 0
      <4> SUFFICES ASSUME NEW j \in Ids, j > chIds PROVE chRows'[j] = 0
        BY <1>1
      <4>1. j \in Int
        BY CultivationAssumption DEF Ids
      <4>2. j # chTask.id
        BY <3>1, <4>1
      <4> QED
        BY <1>1, <2>5, <4>2 DEF OwnIds
    <3> QED
      BY <1>1, <3>2 DEF OwnIds
  <2>10. SaverHolds' /\ ConflictIsReal'
    BY <1>1, <2>2, <2>5, <2>6, <2>7 DEF SaverHolds, ConflictIsReal, Saving, Frozen
  <2>11. \A d \in chOpen : d # Saver /\ chBound[d].id # 0 =>
             chBound[d].id \in Ids /\ chRows'[chBound[d].id] = chRows[chBound[d].id]
    <3> SUFFICES ASSUME NEW d \in chOpen, d # Saver, chBound[d].id # 0
                 PROVE  chBound[d].id \in Ids /\ chRows'[chBound[d].id] = chRows[chBound[d].id]
      OBVIOUS
    <3>1. chBound[d].id # chTask.id
      BY <1>1, <2>2, <2>3 DEF OwnIds
    <3>2. chBound[d].id \in Ids
      BY <1>1, <2>3, BoundIds
    <3> QED
      BY <2>5, <3>1, <3>2
  <2>12. LostIsClosed' /\ OwnRowIsKnown'
    BY <1>1, <2>2, <2>6, <2>7, <2>11 DEF LostIsClosed, OwnRowIsKnown
  <2> QED
    BY <2>8, <2>9, <2>10, <2>12 DEF HistoryInv
<1> QED
  BY <1>2, <1>3

LEMMA RememberKeeps == HistoryInv /\ (Remember \/ SuppressSaver) => HistoryInv'
<1> SUFFICES ASSUME HistoryInv, Remember \/ SuppressSaver PROVE HistoryInv'
  OBVIOUS
<1>1. /\ HistoryTypes /\ FrozenInOrder /\ OwnIds /\ SaverHolds /\ LostIsClosed /\ OwnRowIsKnown
      /\ UNCHANGED <<chOpen, chEnv, chIds, chRows, chWhat, chLost, chForeign>>
      /\ chTask' = NoTask /\ chTask.at \in {"remember", "conflict"}
      /\ chEnded' \in {"saved", "conflict"}
      /\ chBound \in [Drafts -> Binding] /\ chOpen \subseteq Drafts
  BY DEF HistoryInv, HistoryTypes, Remember, SuppressSaver, rowVars
<1>2. /\ chTask \in BoundTask /\ Saver \in Drafts /\ chTask.id = chBound[Saver].id
      /\ ~chBound[Saver].sup /\ chTask.rev \in Nat
  BY <1>1, TaskFields DEF SaverHolds, Saving, BoundTask
<1>3. SaverHolds' /\ ConflictIsReal' /\ chTask'.at = "none" /\ chTask' \in Task
  BY <1>1, NoTaskHolds
<1>4. /\ chBound' \in [Drafts -> Binding]
      /\ \A c \in Drafts : chBound'[c].id = chBound[c].id
      /\ \A c \in Drafts : c # Saver => chBound'[c] = chBound[c]
      /\ chTask.at = "remember" /\ Saver \in chOpen =>
           chBound'[Saver].rev = chTask.rev /\ ~chBound'[Saver].sup
      /\ chTask.at = "conflict" /\ Saver \in chOpen => chBound'[Saver].sup
      /\ chBound'[Saver].rev = chBound[Saver].rev
         \/ (chTask.at = "remember" /\ chBound'[Saver].rev = chTask.rev)
  <2>1. chBound[Saver] \in Binding
    BY <1>1, <1>2
  <2>2. CASE Remember
    <3>1. chBound' = IF Saver \in chOpen THEN [chBound EXCEPT ![Saver].rev = chTask.rev]
                     ELSE chBound
      BY <1>2, <2>2 DEF Remember, StillBound
    <3> QED
      BY <1>1, <1>2, <2>1, <2>2, <3>1 DEF Binding, Remember
  <2>3. CASE SuppressSaver
    <3>1. chBound' = IF Saver \in chOpen
                     THEN [chBound EXCEPT ![Saver].sup = TRUE, ![Saver].epoch = @ + 1]
                     ELSE chBound
      BY <1>2, <2>3 DEF SuppressSaver, StillBound
    <3> QED
      BY <1>1, <1>2, <2>1, <2>3, <3>1 DEF Binding, SuppressSaver
  <2> QED
    BY <2>2, <2>3
<1>5. HistoryTypes' /\ FrozenInOrder'
  BY <1>1, <1>3, <1>4 DEF HistoryTypes, FrozenInOrder
<1>6. OwnIds'
  <2>1. \A c \in Drafts : chBound'[c].id = 0 => chBound'[c].rev = 0
    <3>1. chBound[Saver].id # 0
      BY <1>2, CultivationAssumption DEF BoundTask, Ids
    <3> QED
      BY <1>1, <1>4, <3>1 DEF OwnIds
  <2> QED
    BY <1>1, <1>4, <2>1 DEF OwnIds
<1>7. chTask.at = "remember" =>
        /\ chTask.rev # 0 /\ (chTask.id \notin chForeign => chRows[chTask.id] = chTask.rev)
  BY <1>1 DEF SaverHolds
<1>8. LostIsClosed'
  <2> SUFFICES ASSUME NEW d \in chOpen \cap chLost
               PROVE  LET x == chBound'[d] IN
                      x.sup \/ (x.id # 0 /\ chRows[x.id] = 0 /\ x.rev # 0)
    BY <1>1 DEF LostIsClosed
  <2>1. LET x == chBound[d] IN
        \/ x.sup
        \/ x.id # 0 /\ chRows[x.id] = 0 /\ (x.rev # 0 \/ (chTask.at = "remember" /\ Saver = d))
    BY <1>1 DEF LostIsClosed
  <2>2. CASE d = Saver
    BY <1>1, <1>2, <1>4, <1>7, <2>1, <2>2
  <2>3. CASE d # Saver
    BY <1>1, <1>4, <2>1, <2>3
  <2> QED
    BY <2>2, <2>3
<1>9. OwnRowIsKnown'
  <2> SUFFICES ASSUME NEW d \in chOpen,
                      LET x == chBound'[d] IN x.id # 0 /\ ~x.sup /\ x.id \notin chForeign
               PROVE  chRows[chBound'[d].id] = chBound'[d].rev
    BY <1>1 DEF OwnRowIsKnown
  <2>1. LET x == chBound[d] IN x.id # 0 /\ ~x.sup /\ x.id \notin chForeign =>
          chRows[x.id] = x.rev \/ (chTask.at = "remember" /\ Saver = d)
    BY <1>1 DEF OwnRowIsKnown
  <2>2. CASE d = Saver
    BY <1>1, <1>2, <1>4, <1>7, <2>1, <2>2
  <2>3. CASE d # Saver
    BY <1>1, <1>4, <2>1, <2>3
  <2> QED
    BY <2>2, <2>3
<1> QED
  BY <1>3, <1>5, <1>6, <1>8, <1>9 DEF HistoryInv

LEMMA CommitDeleteKeeps == HistoryInv /\ CommitDelete => HistoryInv'
<1> SUFFICES ASSUME HistoryInv, CommitDelete PROVE HistoryInv'
  OBVIOUS
<1>1. /\ HistoryTypes /\ FrozenInOrder /\ OwnIds /\ LostIsClosed /\ OwnRowIsKnown
      /\ UNCHANGED <<bindingVars, chWhat, chForeign>> /\ chTask.at = "delete"
      /\ UNCHANGED <<chBound, chEnv, chOpen, chIds>>
      /\ chRows \in [Ids -> Nat] /\ chOpen \subseteq Drafts
  BY DEF HistoryInv, HistoryTypes, CommitDelete, bindingVars
<1>2. CASE chTask' = NoTask
  <2>1. chEnded' = "failed" /\ UNCHANGED <<rowVars, chLost>>
    BY <1>1, <1>2 DEF CommitDelete, NoTask, rowVars
  <2> QED
    BY <1>1, <1>2, <2>1, NoTaskHolds, TaskMovesOn
<1>3. CASE chTask' # NoTask
  <2>1. /\ chRows' = [chRows EXCEPT ![chTask.id] = 0] /\ chEnded' = chEnded
        /\ chTask' = [chTask EXCEPT !.at = "unbind"]
        /\ chLost' = chLost \cup {d \in Drafts : chBound[d].id = chTask.id}
    BY <1>3 DEF CommitDelete
  <2>2. /\ chTask \in DeleteTask /\ chTask.id \in Ids
    BY <1>1, TaskFields DEF DeleteTask
  <2>3. chTask' \in DeleteTask /\ chTask'.at = "unbind" /\ chTask'.id = chTask.id
    BY <2>1, <2>2 DEF DeleteTask
  <2>4. /\ chRows' \in [Ids -> Nat] /\ chRows'[chTask.id] = 0
        /\ \A j \in Ids : j # chTask.id => chRows'[j] = chRows[j]
    BY <1>1, <2>1, <2>2
  <2>5. HistoryTypes' /\ FrozenInOrder'
    BY <1>1, <2>1, <2>3, <2>4 DEF HistoryTypes, FrozenInOrder, Task
  <2>6. OwnIds'
    BY <1>1, <2>4 DEF OwnIds
  <2>7. SaverHolds' /\ ConflictIsReal'
    BY <2>3 DEF SaverHolds, ConflictIsReal, Saving
  <2>8. \A d \in chOpen : chBound[d].id # 0 =>
          \/ chBound[d].id = chTask.id
          \/ chRows'[chBound[d].id] = chRows[chBound[d].id]
    BY <1>1, <2>4, BoundIds
  <2>9. LostIsClosed' /\ OwnRowIsKnown'
    BY <1>1, <2>1, <2>3, <2>8 DEF LostIsClosed, OwnRowIsKnown
  <2> QED
    BY <2>5, <2>6, <2>7, <2>9 DEF HistoryInv
<1> QED
  BY <1>2, <1>3

LEMMA UnbindKeeps == HistoryInv /\ UnbindDeleted => HistoryInv'
<1> SUFFICES ASSUME HistoryInv, UnbindDeleted PROVE HistoryInv'
  OBVIOUS
<1>1. /\ HistoryTypes /\ FrozenInOrder /\ OwnIds /\ LostIsClosed /\ OwnRowIsKnown
      /\ UNCHANGED <<chOpen, chEnv, chIds, chRows, chWhat, chLost, chForeign>>
      /\ chTask' = NoTask /\ chTask.at = "unbind" /\ chEnded' = "deleted"
      /\ chBound \in [Drafts -> Binding] /\ chOpen \subseteq Drafts
  BY DEF HistoryInv, HistoryTypes, UnbindDeleted, rowVars
<1>2. SaverHolds' /\ ConflictIsReal' /\ chTask'.at = "none" /\ chTask' \in Task
  BY <1>1, NoTaskHolds
<1>3. /\ chBound' \in [Drafts -> Binding]
      /\ \A d \in Drafts : /\ chBound'[d].id = chBound[d].id /\ chBound'[d].rev = chBound[d].rev
                           /\ chBound[d].sup => chBound'[d].sup
                           /\ d \in chOpen /\ chBound[d].id = chTask.id => chBound'[d].sup
  <2> DEFINE closed(d) == [chBound[d] EXCEPT !.sup = TRUE, !.epoch = @ + 1, !.req = @ + 1]
  <2>1. chBound' = [d \in Drafts |-> IF d \in chOpen /\ chBound[d].id = chTask.id
                                       THEN closed(d) ELSE chBound[d]]
    BY DEF UnbindDeleted
  <2>2. \A d \in Drafts : /\ closed(d) \in Binding /\ closed(d).id = chBound[d].id
                          /\ closed(d).rev = chBound[d].rev /\ closed(d).sup
    <3> SUFFICES ASSUME NEW d \in Drafts
                 PROVE  /\ closed(d) \in Binding /\ closed(d).id = chBound[d].id
                        /\ closed(d).rev = chBound[d].rev /\ closed(d).sup
      OBVIOUS
    <3>1. PICK b \in Binding : b = chBound[d]
      BY <1>1
    <3>2. closed(d) = [b EXCEPT !.sup = TRUE, !.epoch = b.epoch + 1, !.req = b.req + 1]
      BY <3>1
    <3> HIDE DEF closed
    <3>3. closed(d) \in Binding
      <4>1. PICK e \in Nat, q \in Nat : e = b.epoch + 1 /\ q = b.req + 1
        BY DEF Binding
      <4>2. closed(d) = [b EXCEPT !.sup = TRUE, !.epoch = e, !.req = q]
        BY <3>2, <4>1
      <4> QED
        BY <4>2 DEF Binding
    <3>4. closed(d).id = b.id /\ closed(d).rev = b.rev
      BY <3>2 DEF Binding
    <3>5. closed(d).sup = TRUE
      BY <3>2 DEF Binding
    <3> QED
      BY <3>1, <3>3, <3>4, <3>5
  <2> HIDE DEF closed
  <2> QED
    BY <1>1, <2>1, <2>2
<1>4. HistoryTypes' /\ FrozenInOrder'
  BY <1>1, <1>2, <1>3 DEF HistoryTypes, FrozenInOrder
<1>5. OwnIds'
  BY <1>1, <1>3 DEF OwnIds
<1>6. LostIsClosed'
  BY <1>1, <1>3 DEF LostIsClosed
<1>7. OwnRowIsKnown'
  BY <1>1, <1>3 DEF OwnRowIsKnown
<1> QED
  BY <1>2, <1>4, <1>5, <1>6, <1>7 DEF HistoryInv

LEMMA OtherWriterKeeps == \A i \in Ids : HistoryInv /\ OtherWriter(i) => HistoryInv'
<1> SUFFICES ASSUME NEW i \in Ids, HistoryInv, OtherWriter(i) PROVE HistoryInv'
  OBVIOUS
<1>1. /\ HistoryTypes /\ FrozenInOrder /\ OwnIds /\ SaverHolds /\ LostIsClosed /\ OwnRowIsKnown
      /\ ConflictIsReal
      /\ UNCHANGED <<bindingVars, chTask, chEnded>> /\ UNCHANGED <<chBound, chEnv, chOpen, chIds>>
      /\ chTask.at \notin {"written", "commit"} /\ chForeign' = chForeign \cup {i}
      /\ chRows[i] # 0 /\ i \notin chForeign
      /\ chRows \in [Ids -> Nat] /\ chOpen \subseteq Drafts /\ chForeign \subseteq Ids
  BY DEF HistoryInv, HistoryTypes, OtherWriter, bindingVars
<1>2. /\ chRows' \in [Ids -> Nat] /\ \A j \in Ids : j # i => chRows'[j] = chRows[j]
      /\ chWhat' \in [Ids -> 0..MaxEnvelopes]
  <2>1. chRows[i] + 1 \in Nat /\ 0 \in 0..MaxEnvelopes
    BY <1>1, CultivationAssumption
  <2>2. chWhat' = [chWhat EXCEPT ![i] = 0] /\ chWhat \in [Ids -> 0..MaxEnvelopes]
    BY <1>1 DEF OtherWriter, HistoryTypes
  <2>3. PICK rev \in {0, chRows[i] + 1} : chRows' = [chRows EXCEPT ![i] = rev]
    BY DEF OtherWriter
  <2> QED
    BY <1>1, <2>1, <2>2, <2>3
<1>3. chLost' = IF chRows'[i] = 0 THEN chLost \cup {d \in Drafts : chBound[d].id = i} ELSE chLost
  BY DEF OtherWriter
<1>4. HistoryTypes' /\ FrozenInOrder'
  BY <1>1, <1>2 DEF HistoryTypes, FrozenInOrder
<1>5. OwnIds'
  <2>1. i <= chIds
    BY <1>1, BoundIds DEF OwnIds
  <2>2. \A j \in Ids : j > chIds => j # i
    BY <1>1, <2>1, BoundIds
  <2> QED
    BY <1>1, <1>2, <2>2 DEF OwnIds
<1>6. Saver' = Saver
  BY <1>1 DEF Saver
<1>7. SaverHolds' /\ ConflictIsReal'
  <2>1. chTask.at \in Saving \ {"bind"} => chTask.id \in Ids
    BY <1>1, TaskFields DEF BoundTask
  <2> QED
    BY <1>1, <1>2, <1>6, <2>1 DEF SaverHolds, ConflictIsReal, Saving, Frozen
<1>8. LostIsClosed'
  <2> SUFFICES ASSUME NEW d \in chOpen, d \in chLost', ~chBound[d].sup,
                      ~(chTask.at = "unbind" /\ chTask.id = chBound[d].id)
               PROVE  LET b == chBound[d] IN
                      /\ b.id # 0 /\ chRows'[b.id] = 0
                      /\ b.rev # 0 \/ (chTask.at = "remember" /\ Saver = d)
    BY <1>1, <1>6 DEF LostIsClosed
  <2>1. CASE d \in chLost
    <3>1. chBound[d].id # 0 /\ chRows[chBound[d].id] = 0 /\ chBound[d].id # i
      BY <1>1, <2>1 DEF LostIsClosed
    <3>2. chRows'[chBound[d].id] = 0
      BY <1>1, <1>2, <3>1, BoundIds
    <3> QED
      BY <1>1, <2>1, <3>1, <3>2 DEF LostIsClosed
  <2>2. CASE d \notin chLost
    <3>1. chBound[d].id = i /\ chRows'[i] = 0 /\ i # 0
      BY <1>3, <2>2, CultivationAssumption DEF Ids
    <3>2. chRows[i] = chBound[d].rev \/ (chTask.at = "remember" /\ Saver = d)
      BY <1>1, <3>1 DEF OwnRowIsKnown
    <3> QED
      BY <1>1, <3>1, <3>2
  <2> QED
    BY <2>1, <2>2
<1>9. OwnRowIsKnown'
  <2> SUFFICES ASSUME NEW d \in chOpen, chBound[d].id # 0, ~chBound[d].sup,
                      chBound[d].id \notin chForeign'
               PROVE  LET b == chBound[d] IN
                      \/ chRows'[b.id] = b.rev
                      \/ chTask.at = "unbind" /\ chTask.id = b.id
                      \/ chTask.at = "remember" /\ Saver = d
    BY <1>1, <1>6 DEF OwnRowIsKnown
  <2>1. chRows'[chBound[d].id] = chRows[chBound[d].id]
    BY <1>1, <1>2, BoundIds
  <2> QED
    BY <1>1, <2>1 DEF OwnRowIsKnown
<1> QED
  BY <1>4, <1>5, <1>7, <1>8, <1>9 DEF HistoryInv

LEMMA HistoryInductive == HistoryInv /\ [CultivationNext]_chVars => HistoryInv'
<1> SUFFICES ASSUME HistoryInv, [CultivationNext]_chVars PROVE HistoryInv'
  OBVIOUS
<1>1. CASE UNCHANGED chVars
  <2>1. UNCHANGED <<chBound, chOpen, chEnv, chIds, chRows, chWhat, chTask, chEnded, chLost,
                    chForeign>>
    BY <1>1 DEF chVars, bindingVars, rowVars
  <2>2. HistoryTypes' /\ FrozenInOrder' /\ OwnIds' /\ ConflictIsReal'
    BY <2>1 DEF HistoryInv, HistoryTypes, FrozenInOrder, OwnIds, ConflictIsReal
  <2>3. SaverHolds' /\ LostIsClosed' /\ OwnRowIsKnown'
    BY <2>1 DEF HistoryInv, SaverHolds, LostIsClosed, OwnRowIsKnown, Saver, Conflicts, Frozen
  <2> QED
    BY <2>2, <2>3 DEF HistoryInv
<1> QED
  BY <1>1, FreezeKeeps, EditKeeps, BeginsKeep, BindKeeps, WriteKeeps, CheckKeeps, CommitSaveKeeps,
     RememberKeeps, CommitDeleteKeeps, UnbindKeeps, OtherWriterKeeps
  DEF CultivationNext, HistoryRun

\* Types of the state of the cultivation records.
THEOREM HistoryTyped == CultivationSpec => []CultivationTypeOK
<1>1. HistoryInv => CultivationTypeOK
  <2> SUFFICES ASSUME HistoryInv PROVE CultivationTypeOK
    OBVIOUS
  <2>1. HistoryTypes /\ FrozenInOrder
    BY DEF HistoryInv
  <2>2. Frozen \subseteq Envelopes
    <3>1. PICK n \in 0..MaxEnvelopes : chEnv \in [1..n -> Envelope]
      BY <2>1 DEF FrozenInOrder
    <3> QED
      BY <3>1, CultivationAssumption DEF Frozen, Envelopes
  <2>3. \A d \in Drafts : /\ chBound[d].id \in 0..MaxIds /\ chBound[d].sup \in BOOLEAN
                          /\ {chBound[d].rev, chBound[d].req, chBound[d].epoch} \subseteq Nat
    <3> SUFFICES ASSUME NEW d \in Drafts
                 PROVE  /\ chBound[d].id \in 0..MaxIds /\ chBound[d].sup \in BOOLEAN
                        /\ {chBound[d].rev, chBound[d].req, chBound[d].epoch} \subseteq Nat
      OBVIOUS
    <3>1. chBound[d] \in Binding
      BY <2>1 DEF HistoryTypes
    <3> QED
      BY <3>1 DEF Binding
  <2>4. chTask.at \in {"none", "bind", "write", "conflict", "written", "commit", "remember",
                       "delete", "unbind"}
    BY <2>1, TaskFields DEF Saving
  <2> QED
    BY <2>1, <2>2, <2>3, <2>4 DEF HistoryTypes, CultivationTypeOK
<1> QED
  BY <1>1, HistoryInitially, HistoryInductive, PTL DEF CultivationSpec

\* No save brings back a record that was deleted, by this service or another, unless the
\* user calculated the draft again (HistoryService.save, the check before the commit).
THEOREM DeletedStaysDeleted == CultivationSpec => NotRevived
<1>1. HistoryInv /\ [CultivationNext]_chVars =>
        [CommitSave /\ chTask'.at = "remember" => Saver \notin chLost]_chVars
  BY DEF HistoryInv, SaverHolds, CommitSave
<1> QED
  BY <1>1, HistoryInitially, HistoryInductive, PTL DEF CultivationSpec, NotRevived

\* A draft is refused for a conflict only when another service changed its record, and
\* between operations a live draft knows the revision of its record.
THEOREM ConflictsAreForeign == CultivationSpec => [](ConflictIsReal /\ BindingIsFresh)
<1>1. HistoryInv => ConflictIsReal /\ BindingIsFresh
  BY DEF HistoryInv, OwnRowIsKnown, BindingIsFresh
<1> QED
  BY <1>1, HistoryInitially, HistoryInductive, PTL DEF CultivationSpec

-----------------------------------------------------------------------------
(* The streaming scan *)

Seen == spParsed \cup spPending \cup spLost \cup spErrors
Waiting == IF spMode = "during" THEN spQueue ELSE spBatch
OpenTasks == Len(spQueue) + (IF spWorker = "parse" THEN 1 ELSE 0)

\* Screenshots are parsed in the order in which they were taken, each once: what waits is
\* younger than the one that is parsed, and that one younger than those that were.
InOrder ==
  /\ \A i, j \in 1..Len(Waiting) :
       i < j => Waiting[i] # 0 /\ (Waiting[j] # 0 => Waiting[i] < Waiting[j])
  /\ \A i \in 1..Len(Waiting) :
       Waiting[i] # 0 =>
         /\ \A x \in Seen : x < Waiting[i]
         /\ spWorker = "parse" => spItem < Waiting[i]
         /\ Waiting[i] <= spTaken /\ (spAt = "put" => Waiting[i] < spTaken)
  /\ spWorker = "parse" =>
       /\ \A x \in Seen : x < spItem
       /\ spItem # 0 /\ spItem <= spTaken /\ (spAt = "put" => spItem < spTaken)
  /\ \A x \in Seen : x <= spTaken /\ (spAt = "put" => x < spTaken)
  /\ spAt = "put" => spTaken # 0
  /\ spAt \in {"idle", "scan", "put", "stop"} => \A i \in 1..Len(Waiting) : Waiting[i] # 0

\* Nothing is lost on the way, unless the scanner has raised.
NothingMissing ==
  ~spRaised =>
    \A x \in 1..spTaken :
      \/ x \in Seen
      \/ \E i \in 1..Len(Waiting) : Waiting[i] = x
      \/ spWorker = "parse" /\ x = spItem
      \/ spAt = "put" /\ x = spTaken

Late == {"tail", "fresh", "settle", "fresh_again", "deliver", "store", "commit", "end"}
Decided == {"fresh", "settle", "fresh_again", "deliver", "store", "commit"}

\* Where the two threads stand, against the queue and the batch.
ThreadsFit ==
  /\ spMode = "after" => spWorker = "none" /\ spQueue = <<>> /\ spAt \notin {"put", "join"}
  /\ spMode = "after" /\ spAt # "end" => spErrors = {}
  /\ spMode = "during" => spBatch = <<>>
  /\ spOpen = OpenTasks
  /\ spAt = "idle" => spWorker = "none"
  /\ spMode = "during" /\ spAt \in Late => spWorker = "end" /\ spQueue = <<>>

ResultKnown ==
  /\ (spParsed \cup spPending) \cap (spLost \cup spErrors) = {}
  /\ spCount = Total => spTaken = Total
  /\ spAt \in Decided =>
       /\ ~spRaised /\ spErrors = {}
       /\ spCount = Total => spParsed \cup spPending \cup spLost = Shots
  /\ spAt \in {"store", "commit"} => spCount = Total
  /\ spArchived => spAt \in {"fresh_again", "deliver", "store", "commit", "end"}
  /\ spStored => spAt = "end"

ScanInv ==
  /\ PipelineTypeOK /\ InOrder /\ NothingMissing /\ ThreadsFit /\ ResultKnown
  /\ ArchivedIsComplete /\ StoredIsWhole

LEMMA ScanInitially == PipelineInit => ScanInv
<1> SUFFICES ASSUME PipelineInit PROVE ScanInv
  OBVIOUS
<1>1. /\ spTaken = 0 /\ spCount = 0 /\ spItem = 0 /\ spOpen = 0 /\ spAt = "idle"
      /\ spWorker = "none" /\ spOutcome = "none"
  BY DEF PipelineInit
<1>2. /\ spRaised = FALSE /\ spStopped = FALSE /\ spStale = FALSE /\ spArchived = FALSE
      /\ spStored = FALSE /\ spMode \in {"during", "after"}
  BY DEF PipelineInit
<1>3. /\ spParsed = {} /\ spPending = {} /\ spLost = {} /\ spErrors = {}
      /\ spQueue = <<>> /\ spBatch = <<>>
  BY DEF PipelineInit
<1>4. PipelineTypeOK
  <2>1. 0 \in 0..Total
    BY PipelineAssumption
  <2>2. spBatch \in Seq(Shots) /\ spQueue \in Seq(0..Total)
    BY <1>3
  <2>3. {spParsed, spPending, spLost, spErrors} \subseteq SUBSET Shots
    BY <1>3
  <2> QED
    BY <1>1, <1>2, <2>1, <2>2, <2>3 DEF PipelineTypeOK
<1>5. Waiting = <<>> /\ Len(Waiting) = 0 /\ Seen = {}
  BY <1>3 DEF Waiting, Seen
<1>6. InOrder /\ NothingMissing
  BY <1>1, <1>5 DEF InOrder, NothingMissing
<1>7. ThreadsFit
  BY <1>1, <1>3 DEF ThreadsFit, OpenTasks, Late
<1>8. ResultKnown
  BY <1>1, <1>2, <1>3 DEF ResultKnown, Decided
<1> QED
  BY <1>2, <1>4, <1>6, <1>7, <1>8 DEF ScanInv, ArchivedIsComplete, StoredIsWhole

LEMMA InSequence ==
  ASSUME NEW S, NEW s \in Seq(S)
  PROVE  Len(s) \in Nat /\ \A i \in 1..Len(s) : s[i] \in S
  OBVIOUS

LEMMA TakenFirst ==
  ASSUME NEW S, NEW s \in Seq(S), s # <<>>
  PROVE  /\ Tail(s) \in Seq(S) /\ Len(s) \in Nat /\ Len(s) >= 1 /\ Len(Tail(s)) = Len(s) - 1
         /\ Head(s) = s[1] /\ s[1] \in S
         /\ \A i \in 1..Len(Tail(s)) : Tail(s)[i] = s[i + 1]
  OBVIOUS

LEMMA WaitingShots ==
  ASSUME PipelineTypeOK
  PROVE  /\ Len(Waiting) \in Nat /\ \A i \in 1..Len(Waiting) : Waiting[i] \in Int
         /\ \A x \in Seen : x \in Int
<1>1. spQueue \in Seq(0..Total) /\ spBatch \in Seq(Shots)
  BY DEF PipelineTypeOK
<1>4. \A x \in Seen : x \in Int
  <2>1. Seen \subseteq 1..Total
    BY DEF PipelineTypeOK, Seen, Shots
  <2> QED
    BY <2>1, PipelineAssumption
<1>2. CASE spMode = "during"
  <2>1. Waiting = spQueue
    BY <1>2 DEF Waiting
  <2>2. \A i \in 1..Len(spQueue) : spQueue[i] \in 0..Total
    BY <1>1, InSequence
  <2>4. Len(spQueue) \in Nat
    BY <1>1, InSequence
  <2>3. \A i \in 1..Len(spQueue) : spQueue[i] \in Int
    BY <2>2, PipelineAssumption
  <2> QED
    BY <1>4, <2>1, <2>3, <2>4
<1>3. CASE spMode # "during"
  <2>1. Waiting = spBatch
    BY <1>3 DEF Waiting
  <2>2. Len(spBatch) \in Nat /\ \A i \in 1..Len(spBatch) : spBatch[i] \in Shots
    BY <1>1
  <2>3. \A i \in 1..Len(spBatch) : spBatch[i] \in Int
    BY <2>2, PipelineAssumption DEF Shots
  <2> QED
    BY <1>4, <2>1, <2>2, <2>3
<1> QED
  BY <1>2, <1>3

\* The steps that take, move and parse no screenshot.
LEMMA NothingMoves ==
  ASSUME InOrder, NothingMissing,
         UNCHANGED <<spMode, spTaken, spBatch, queueVars, parseVars>>,
         spRaised => spRaised', spAt # "put", spAt' # "put",
         spWorker = "parse" <=> spWorker' = "parse",
         spAt' \in {"idle", "scan", "stop"} => spAt \in {"idle", "scan", "stop"}
  PROVE  InOrder' /\ NothingMissing'
<1>1. /\ UNCHANGED <<spMode, spTaken, spBatch, spQueue, spItem, spParsed, spPending, spLost,
                     spErrors>>
  BY DEF queueVars, parseVars
<1>2. Waiting' = Waiting /\ Seen' = Seen
  BY <1>1 DEF Waiting, Seen
<1>3. InOrder'
  BY <1>1, <1>2 DEF InOrder
<1>4. NothingMissing'
  BY <1>1, <1>2 DEF NothingMissing
<1> QED
  BY <1>3, <1>4

\* The steps before anything is decided.
LEMMA Undecided ==
  ASSUME ScanInv, spAt' \notin Decided, spAt \notin Late, UNCHANGED <<spArchived, spStored>>,
         spCount' = Total => spTaken' = Total,
         (spParsed' \cup spPending') \cap (spLost' \cup spErrors') = {}
  PROVE  ResultKnown' /\ ArchivedIsComplete' /\ StoredIsWhole'
<1>1. ~spArchived /\ ~spStored
  BY DEF ScanInv, ResultKnown, Late
<1> QED
  BY <1>1 DEF ResultKnown, Decided, ArchivedIsComplete, StoredIsWhole

LEMMA BeginScanKeeps == ScanInv /\ BeginScan => ScanInv'
<1> SUFFICES ASSUME ScanInv, BeginScan PROVE ScanInv'
  OBVIOUS
<1>1. /\ PipelineTypeOK /\ InOrder /\ NothingMissing /\ ThreadsFit /\ ResultKnown
      /\ UNCHANGED <<scanVars, queueVars, parseVars, askedVars, endVars>>
      /\ UNCHANGED <<spMode, spTaken, spCount, spBatch, spRaised, spQueue, spOpen, spItem, spParsed,
                     spPending, spLost, spErrors, spStopped, spStale, spArchived, spOutcome, spStored>>
      /\ spAt = "idle" /\ spAt' = "scan" /\ spWorker = "none"
      /\ spWorker' = IF spMode = "during" THEN "get" ELSE "none"
  BY DEF ScanInv, BeginScan, ThreadsFit, scanVars, queueVars, parseVars, askedVars, endVars
<1>2. PipelineTypeOK'
  BY <1>1 DEF PipelineTypeOK
<1>3. InOrder' /\ NothingMissing'
  BY <1>1, NothingMoves
<1>4. ThreadsFit'
  BY <1>1 DEF ThreadsFit, OpenTasks, Late
<1>5. ResultKnown' /\ ArchivedIsComplete' /\ StoredIsWhole'
  BY <1>1, Undecided DEF ResultKnown, Decided, Late
<1> QED
  BY <1>2, <1>3, <1>4, <1>5 DEF ScanInv

LEMMA ScanEndsKeeps == ScanInv /\ (ScanEnds \/ JoinQueue) => ScanInv'
<1> SUFFICES ASSUME ScanInv, ScanEnds \/ JoinQueue PROVE ScanInv'
  OBVIOUS
<1>1. /\ PipelineTypeOK /\ InOrder /\ NothingMissing /\ ThreadsFit /\ ResultKnown
      /\ UNCHANGED <<queueVars, parseVars, askedVars, endVars>>
      /\ UNCHANGED <<spMode, spTaken, spBatch, spQueue, spOpen, spItem, spParsed, spWorker,
                     spPending, spLost, spErrors, spStopped, spStale, spArchived, spOutcome, spStored>>
      /\ \/ spAt = "scan" /\ spAt' = "stop"
         \/ spAt = "join" /\ spAt' = "tail" /\ spOpen = 0 /\ spWorker = "end"
  BY DEF ScanInv, ScanEnds, JoinQueue, scanVars, queueVars, parseVars, askedVars, endVars
<1>2. /\ spRaised' \in BOOLEAN /\ (spRaised => spRaised') /\ spCount' \in {0, Total}
      /\ spCount' = Total => spTaken = Total
  BY <1>1, PipelineAssumption
  DEF ScanEnds, JoinQueue, scanVars, PipelineTypeOK, ResultKnown
<1>3. PipelineTypeOK'
  BY <1>1, <1>2 DEF PipelineTypeOK
<1>4. InOrder' /\ NothingMissing'
  BY <1>1, <1>2, NothingMoves
<1>5. ThreadsFit'
  <2>1. spAt = "join" => spMode = "during" /\ spQueue = <<>>
    BY <1>1 DEF ThreadsFit, OpenTasks, PipelineTypeOK
  <2> QED
    BY <1>1, <2>1 DEF ThreadsFit, OpenTasks, Late
<1>6. ResultKnown' /\ ArchivedIsComplete' /\ StoredIsWhole'
  BY <1>1, <1>2, Undecided DEF ResultKnown, Decided, Late
<1> QED
  BY <1>3, <1>4, <1>5, <1>6 DEF ScanInv

LEMMA CaptureKeeps == ScanInv /\ Capture => ScanInv'
<1> SUFFICES ASSUME ScanInv, Capture PROVE ScanInv'
  OBVIOUS
<1>1. /\ PipelineTypeOK /\ InOrder /\ NothingMissing /\ ThreadsFit /\ ResultKnown
      /\ UNCHANGED <<queueVars, parseVars, askedVars, endVars>>
      /\ UNCHANGED <<spMode, spCount, spQueue, spOpen, spItem, spParsed, spWorker,
                     spPending, spLost, spErrors, spStopped, spStale, spArchived, spOutcome, spStored>>
      /\ spAt = "scan" /\ spTaken < Total /\ spTaken' = spTaken + 1
  BY DEF ScanInv, Capture, queueVars, parseVars, askedVars, endVars
<1>2. /\ spTaken \in Nat /\ spTaken' \in Shots /\ spTaken' \in 0..Total /\ Seen' = Seen
      /\ spCount \in {0, Total} /\ spCount # Total
      /\ spBatch \in Seq(Shots) /\ spQueue \in Seq(0..Total)
  BY <1>1, PipelineAssumption DEF PipelineTypeOK, Shots, Seen, ResultKnown
<1>3. ResultKnown' /\ ArchivedIsComplete' /\ StoredIsWhole'
  BY <1>1, <1>2, Undecided DEF ResultKnown, Decided, Late, Capture
<1>4. CASE spBatch' = spBatch
  <2>1. Waiting' = Waiting
    BY <1>1, <1>4 DEF Waiting
  <2>2. \/ spRaised' = TRUE /\ spAt' = "stop"
        \/ spMode = "during" /\ spAt' = "put" /\ spRaised' = spRaised
    <3>1. Len(Append(spBatch, spTaken')) # Len(spBatch)
      BY <1>2
    <3> QED
      BY <1>4, <3>1 DEF Capture
  <2>3. PipelineTypeOK'
    BY <1>1, <1>2, <1>4, <2>2 DEF PipelineTypeOK
  <2>4. InOrder'
    <3>1. \A i \in 1..Len(Waiting) : Waiting[i] # 0 => Waiting[i] \in Int
      BY <1>1, WaitingShots
    <3>2. \A x \in Seen : x \in Int
      BY <1>1 DEF PipelineTypeOK, Seen, Shots
    <3>3. spItem \in Int
      BY <1>1 DEF PipelineTypeOK
    <3> QED
      BY <1>1, <1>2, <2>1, <2>2, <3>1, <3>2, <3>3 DEF InOrder
  <2>5. NothingMissing'
    <3> SUFFICES ASSUME ~spRaised', NEW x \in 1..spTaken'
                 PROVE  \/ x \in Seen
                        \/ \E i \in 1..Len(Waiting) : Waiting[i] = x
                        \/ spWorker = "parse" /\ x = spItem
                        \/ spAt' = "put" /\ x = spTaken'
      BY <1>1, <1>2, <2>1 DEF NothingMissing
    <3> QED
      BY <1>1, <1>2, <2>2 DEF NothingMissing
  <2>6. ThreadsFit'
    BY <1>1, <1>4, <2>2 DEF ThreadsFit, OpenTasks, Late
  <2> QED
    BY <1>3, <2>3, <2>4, <2>5, <2>6 DEF ScanInv
<1>5. CASE spBatch' # spBatch
  <2>1. /\ spMode = "after" /\ spBatch' = Append(spBatch, spTaken') /\ spAt' = spAt
        /\ spRaised' = spRaised /\ spErrors = {}
    BY <1>5 DEF Capture
  <2>2. /\ Waiting = spBatch /\ Waiting' = spBatch' /\ spWorker = "none"
        /\ spBatch' \in Seq(Shots) /\ Len(spBatch') = Len(spBatch) + 1 /\ Len(spBatch) \in Nat
        /\ spBatch'[Len(spBatch) + 1] = spTaken'
        /\ \A i \in 1..Len(spBatch) : spBatch'[i] = spBatch[i] /\ spBatch[i] \in Shots
    BY <1>1, <1>2, <2>1 DEF Waiting, ThreadsFit
  <2>3. PipelineTypeOK'
    BY <1>1, <1>2, <2>1, <2>2 DEF PipelineTypeOK
  <2>4. /\ \A i \in 1..Len(spBatch) : spBatch[i] \in Int /\ spBatch[i] <= spTaken
        /\ \A x \in Seen : x \in Int /\ x <= spTaken
    BY <1>1, <2>2 DEF InOrder, Shots, Seen, PipelineTypeOK
  <2>5. InOrder'
    <3>1. \A i, j \in 1..Len(spBatch') :
            i < j => spBatch'[i] # 0 /\ (spBatch'[j] # 0 => spBatch'[i] < spBatch'[j])
      <4> SUFFICES ASSUME NEW i \in 1..Len(spBatch'), NEW j \in 1..Len(spBatch'), i < j
                   PROVE  spBatch'[i] # 0 /\ (spBatch'[j] # 0 => spBatch'[i] < spBatch'[j])
        OBVIOUS
      <4>1. i \in 1..Len(spBatch) /\ (j \in 1..Len(spBatch) \/ j = Len(spBatch) + 1)
        BY <2>2
      <4>2. CASE j \in 1..Len(spBatch)
        BY <1>1, <2>2, <4>1, <4>2 DEF InOrder
      <4>3. CASE j = Len(spBatch) + 1
        BY <1>1, <1>2, <2>2, <2>4, <4>1, <4>3 DEF Shots
      <4> QED
        BY <4>1, <4>2, <4>3
    <3>2. \A i \in 1..Len(spBatch') : /\ spBatch'[i] # 0 /\ spBatch'[i] <= spTaken'
                                      /\ \A x \in Seen : x < spBatch'[i]
      <4> SUFFICES ASSUME NEW i \in 1..Len(spBatch')
                   PROVE  /\ spBatch'[i] # 0 /\ spBatch'[i] <= spTaken'
                          /\ \A x \in Seen : x < spBatch'[i]
        OBVIOUS
      <4>1. CASE i \in 1..Len(spBatch)
        BY <1>1, <1>2, <2>2, <2>4, <4>1 DEF InOrder, Shots
      <4>2. CASE i = Len(spBatch) + 1
        BY <1>1, <1>2, <2>2, <2>4, <4>2
      <4> QED
        BY <2>2, <4>1, <4>2
    <3>3. \A x \in Seen : x <= spTaken'
      BY <1>1, <1>2, <2>4
    <3> QED
      BY <1>1, <1>2, <2>1, <2>2, <3>1, <3>2, <3>3 DEF InOrder
  <2>6. NothingMissing'
    <3> SUFFICES ASSUME ~spRaised, NEW x \in 1..spTaken'
                 PROVE  x \in Seen \/ \E i \in 1..Len(spBatch') : spBatch'[i] = x
      BY <1>1, <1>2, <2>1, <2>2 DEF NothingMissing
    <3>1. CASE x = spTaken'
      BY <2>2, <3>1
    <3>2. CASE x # spTaken'
      <4>1. x \in 1..spTaken
        BY <1>1, <1>2, <3>2
      <4>2. x \in Seen \/ \E i \in 1..Len(spBatch) : spBatch[i] = x
        BY <1>1, <2>2, <4>1 DEF NothingMissing
      <4> QED
        BY <2>2, <4>2
    <3> QED
      BY <3>1, <3>2
  <2>7. ThreadsFit'
    BY <1>1, <2>1 DEF ThreadsFit, OpenTasks, Late
  <2> QED
    BY <1>3, <2>3, <2>5, <2>6, <2>7 DEF ScanInv
<1> QED
  BY <1>4, <1>5

LEMMA PutKeeps == ScanInv /\ Put => ScanInv'
<1> SUFFICES ASSUME ScanInv, Put PROVE ScanInv'
  OBVIOUS
<1>1. /\ PipelineTypeOK /\ InOrder /\ NothingMissing /\ ThreadsFit /\ ResultKnown
      /\ UNCHANGED <<spMode, spCount, spTaken, spBatch, spRaised, spItem, spParsed, spWorker,
                     spPending, spLost, spErrors, spStopped, spStale, spArchived, spOutcome, spStored>>
      /\ spAt = "put" /\ spAt' = "scan"
      /\ spQueue' = Append(spQueue, spTaken) /\ spOpen' = spOpen + 1
  BY DEF ScanInv, Put, scanVars, parseVars, askedVars, endVars
<1>2. /\ spTaken \in 0..Total /\ spTaken \in Nat /\ spTaken # 0 /\ spQueue \in Seq(0..Total)
      /\ spOpen \in Nat /\ Seen' = Seen /\ spMode \in {"during", "after"}
  BY <1>1, PipelineAssumption DEF PipelineTypeOK, Seen, InOrder
<1>3. /\ spMode = "during" /\ Waiting = spQueue /\ Waiting' = spQueue'
  BY <1>1, <1>2 DEF Waiting, ThreadsFit
<1>4. /\ spQueue' \in Seq(0..Total) /\ Len(spQueue') = Len(spQueue) + 1 /\ Len(spQueue) \in Nat
      /\ spQueue'[Len(spQueue) + 1] = spTaken
      /\ \A i \in 1..Len(spQueue) : spQueue'[i] = spQueue[i]
  BY <1>1, <1>2
<1>5. \A i \in 1..Len(spQueue) : spQueue[i] \in Int /\ spQueue[i] < spTaken /\ spQueue[i] # 0
  BY <1>1, <1>3, WaitingShots DEF InOrder
<1>6. PipelineTypeOK'
  BY <1>1, <1>2, <1>4 DEF PipelineTypeOK
<1>7. InOrder'
  <2>1. \A i, j \in 1..Len(spQueue') :
          i < j => spQueue'[i] # 0 /\ (spQueue'[j] # 0 => spQueue'[i] < spQueue'[j])
    <3> SUFFICES ASSUME NEW i \in 1..Len(spQueue'), NEW j \in 1..Len(spQueue'), i < j
                 PROVE  spQueue'[i] # 0 /\ (spQueue'[j] # 0 => spQueue'[i] < spQueue'[j])
      OBVIOUS
    <3>1. i \in 1..Len(spQueue) /\ (j \in 1..Len(spQueue) \/ j = Len(spQueue) + 1)
      BY <1>4
    <3>2. CASE j \in 1..Len(spQueue)
      BY <1>1, <1>3, <1>4, <3>1, <3>2 DEF InOrder
    <3>3. CASE j = Len(spQueue) + 1
      BY <1>4, <1>5, <3>1, <3>3
    <3> QED
      BY <3>1, <3>2, <3>3
  <2>2. \A i \in 1..Len(spQueue') : /\ spQueue'[i] # 0 /\ spQueue'[i] <= spTaken
                                    /\ \A x \in Seen : x < spQueue'[i]
                                    /\ spWorker = "parse" => spItem < spQueue'[i]
    <3> SUFFICES ASSUME NEW i \in 1..Len(spQueue')
                 PROVE  /\ spQueue'[i] # 0 /\ spQueue'[i] <= spTaken
                        /\ \A x \in Seen : x < spQueue'[i]
                        /\ spWorker = "parse" => spItem < spQueue'[i]
      OBVIOUS
    <3>1. CASE i \in 1..Len(spQueue)
      BY <1>1, <1>2, <1>3, <1>4, <1>5, <3>1 DEF InOrder
    <3>2. CASE i = Len(spQueue) + 1
      BY <1>1, <1>2, <1>4, <3>2 DEF InOrder
    <3> QED
      BY <1>4, <3>1, <3>2
  <2> QED
    BY <1>1, <1>2, <1>3, <2>1, <2>2 DEF InOrder
<1>8. NothingMissing'
  <2> SUFFICES ASSUME ~spRaised, NEW x \in 1..spTaken
               PROVE  \/ x \in Seen \/ \E i \in 1..Len(spQueue') : spQueue'[i] = x
                      \/ spWorker = "parse" /\ x = spItem
    BY <1>1, <1>2, <1>3 DEF NothingMissing
  <2>1. \/ x \in Seen \/ \E i \in 1..Len(spQueue) : spQueue[i] = x
        \/ spWorker = "parse" /\ x = spItem
        \/ x = spTaken
    BY <1>1, <1>3 DEF NothingMissing
  <2> QED
    BY <1>4, <2>1
<1>9. ThreadsFit'
  BY <1>1, <1>2, <1>3, <1>4 DEF ThreadsFit, OpenTasks, Late
<1>10. ResultKnown' /\ ArchivedIsComplete' /\ StoredIsWhole'
  BY <1>1, Undecided DEF ResultKnown, Decided, Late
<1> QED
  BY <1>6, <1>7, <1>8, <1>9, <1>10 DEF ScanInv

LEMMA PutStopKeeps == ScanInv /\ PutStop => ScanInv'
<1> SUFFICES ASSUME ScanInv, PutStop PROVE ScanInv'
  OBVIOUS
<1>1. /\ PipelineTypeOK /\ InOrder /\ NothingMissing /\ ThreadsFit /\ ResultKnown
      /\ UNCHANGED parseVars
      /\ UNCHANGED <<spMode, spCount, spTaken, spBatch, spRaised, spItem, spParsed, spWorker,
                     spPending, spLost, spErrors, spStopped, spStale, spArchived, spOutcome, spStored>>
      /\ spAt = "stop"
  BY DEF ScanInv, PutStop, scanVars, parseVars, askedVars, endVars
<1>2. CASE spMode = "after"
  <2>1. UNCHANGED queueVars /\ UNCHANGED <<spQueue, spOpen>> /\ spAt' = "tail"
    BY <1>2 DEF PutStop, queueVars
  <2>2. PipelineTypeOK'
    BY <1>1, <2>1 DEF PipelineTypeOK
  <2>3. InOrder' /\ NothingMissing'
    BY <1>1, <2>1, NothingMoves
  <2>4. ThreadsFit'
    BY <1>1, <1>2, <2>1 DEF ThreadsFit, OpenTasks, Late
  <2>5. ResultKnown' /\ ArchivedIsComplete' /\ StoredIsWhole'
    BY <1>1, <2>1, Undecided DEF ResultKnown, Decided, Late
  <2> QED
    BY <2>2, <2>3, <2>4, <2>5 DEF ScanInv
<1>3. CASE spMode # "after"
  <2>1. /\ spMode = "during" /\ spAt' = "join"
        /\ spQueue' = Append(spQueue, 0) /\ spOpen' = spOpen + 1
    BY <1>3 DEF PutStop
  <2>2. /\ spQueue \in Seq(0..Total) /\ spOpen \in Nat /\ 0 \in 0..Total
        /\ Seen' = Seen /\ Waiting = spQueue /\ Waiting' = spQueue'
    BY <1>1, <2>1, PipelineAssumption DEF PipelineTypeOK, Seen, Waiting
  <2>3. /\ spQueue' \in Seq(0..Total) /\ Len(spQueue') = Len(spQueue) + 1 /\ Len(spQueue) \in Nat
        /\ spQueue'[Len(spQueue) + 1] = 0
        /\ \A i \in 1..Len(spQueue) : spQueue'[i] = spQueue[i]
    BY <2>1, <2>2
  <2>4. PipelineTypeOK'
    BY <1>1, <2>1, <2>2, <2>3 DEF PipelineTypeOK
  <2>5. InOrder'
    <3>1. \A i, j \in 1..Len(spQueue') :
            i < j => spQueue'[i] # 0 /\ (spQueue'[j] # 0 => spQueue'[i] < spQueue'[j])
      <4> SUFFICES ASSUME NEW i \in 1..Len(spQueue'), NEW j \in 1..Len(spQueue'), i < j
                   PROVE  spQueue'[i] # 0 /\ (spQueue'[j] # 0 => spQueue'[i] < spQueue'[j])
        OBVIOUS
      <4>1. i \in 1..Len(spQueue) /\ (j \in 1..Len(spQueue) \/ j = Len(spQueue) + 1)
        BY <2>3
      <4>2. CASE j \in 1..Len(spQueue)
        BY <1>1, <2>2, <2>3, <4>1, <4>2 DEF InOrder
      <4>3. CASE j = Len(spQueue) + 1
        BY <1>1, <2>2, <2>3, <4>1, <4>3 DEF InOrder
      <4> QED
        BY <4>1, <4>2, <4>3
    <3>2. \A i \in 1..Len(spQueue') :
            spQueue'[i] # 0 => i \in 1..Len(spQueue) /\ spQueue'[i] = spQueue[i]
      BY <2>3
    <3> QED
      BY <1>1, <2>1, <2>2, <3>1, <3>2 DEF InOrder
  <2>6. NothingMissing'
    <3> SUFFICES ASSUME ~spRaised, NEW x \in 1..spTaken
                 PROVE  \/ x \in Seen \/ \E i \in 1..Len(spQueue') : spQueue'[i] = x
                        \/ spWorker = "parse" /\ x = spItem
      BY <1>1, <2>2 DEF NothingMissing
    <3>1. \/ x \in Seen \/ \E i \in 1..Len(spQueue) : spQueue[i] = x
          \/ spWorker = "parse" /\ x = spItem
      BY <1>1, <2>2 DEF NothingMissing
    <3> QED
      BY <2>3, <3>1
  <2>7. ThreadsFit'
    BY <1>1, <2>1, <2>2, <2>3 DEF ThreadsFit, OpenTasks, Late
  <2>8. ResultKnown' /\ ArchivedIsComplete' /\ StoredIsWhole'
    BY <1>1, <2>1, Undecided DEF ResultKnown, Decided, Late
  <2> QED
    BY <2>4, <2>5, <2>6, <2>7, <2>8 DEF ScanInv
<1> QED
  BY <1>2, <1>3

LEMMA GetItemKeeps == ScanInv /\ GetItem => ScanInv'
<1> SUFFICES ASSUME ScanInv, GetItem PROVE ScanInv'
  OBVIOUS
<1>1. /\ PipelineTypeOK /\ InOrder /\ NothingMissing /\ ThreadsFit /\ ResultKnown
      /\ UNCHANGED <<spAt, spMode, spCount, spTaken, spBatch, spRaised, spParsed, spPending,
                     spLost, spErrors, spStopped, spStale, spArchived, spOutcome, spStored>>
      /\ spWorker = "get" /\ spQueue # <<>> /\ spQueue' = Tail(spQueue) /\ spItem' = Head(spQueue)
      /\ \/ Head(spQueue) # 0 /\ spWorker' = "parse" /\ spOpen' = spOpen
         \/ Head(spQueue) = 0 /\ spWorker' = "end" /\ spOpen' = spOpen - 1
  BY DEF ScanInv, GetItem, scanVars, askedVars, endVars
<1>2. /\ spMode = "during" /\ spAt \notin Late /\ Seen' = Seen
      /\ Waiting = spQueue /\ Waiting' = spQueue' /\ spQueue \in Seq(0..Total) /\ spOpen \in Nat
      /\ spOpen = Len(spQueue) /\ spAt # "idle"
  BY <1>1 DEF PipelineTypeOK, ThreadsFit, OpenTasks, Seen, Waiting
<1>3. /\ spQueue' \in Seq(0..Total) /\ Len(spQueue') = Len(spQueue) - 1 /\ Len(spQueue) \in Nat
      /\ Len(spQueue) >= 1 /\ spItem' = spQueue[1] /\ spItem' \in 0..Total
      /\ \A i \in 1..Len(spQueue') : spQueue'[i] = spQueue[i + 1]
  <2>1. /\ Tail(spQueue) \in Seq(0..Total) /\ Len(spQueue) \in Nat /\ Len(spQueue) >= 1
        /\ Len(Tail(spQueue)) = Len(spQueue) - 1
        /\ Head(spQueue) = spQueue[1] /\ spQueue[1] \in 0..Total
        /\ \A i \in 1..Len(Tail(spQueue)) : Tail(spQueue)[i] = spQueue[i + 1]
    BY <1>1, <1>2, TakenFirst
  <2> QED
    BY <1>1, <2>1
<1>4. /\ \A i \in 1..Len(spQueue) : spQueue[i] \in Int
      /\ \A x \in Seen : x \in Int /\ spItem' \in Int
  BY <1>1, <1>2, <1>3, WaitingShots, PipelineAssumption
<1>5. PipelineTypeOK'
  BY <1>1, <1>2, <1>3 DEF PipelineTypeOK
<1>6. InOrder'
  <2>1. \A i, j \in 1..Len(spQueue') :
          i < j => spQueue'[i] # 0 /\ (spQueue'[j] # 0 => spQueue'[i] < spQueue'[j])
    <3> SUFFICES ASSUME NEW i \in 1..Len(spQueue'), NEW j \in 1..Len(spQueue'), i < j
                 PROVE  spQueue'[i] # 0 /\ (spQueue'[j] # 0 => spQueue'[i] < spQueue'[j])
      OBVIOUS
    <3>1. i + 1 \in 1..Len(spQueue) /\ j + 1 \in 1..Len(spQueue) /\ i + 1 < j + 1
      BY <1>3
    <3> QED
      BY <1>1, <1>2, <1>3, <3>1 DEF InOrder
  <2>2. \A i \in 1..Len(spQueue') :
          /\ i + 1 \in 1..Len(spQueue) /\ 1 \in 1..Len(spQueue) /\ 1 < i + 1
          /\ spQueue'[i] = spQueue[i + 1]
    BY <1>3
  <2>3. \A i \in 1..Len(spQueue') : spQueue'[i] # 0 => spItem' < spQueue'[i]
    BY <1>1, <1>2, <1>3, <2>2 DEF InOrder
  <2>4. spWorker' = "parse" =>
          /\ \A x \in Seen : x < spItem'
          /\ spItem' # 0 /\ spItem' <= spTaken /\ (spAt = "put" => spItem' < spTaken)
    <3>1. 1 \in 1..Len(spQueue) /\ Waiting[1] = spItem'
      BY <1>2, <1>3
    <3> QED
      BY <1>1, <1>2, <1>3, <3>1 DEF InOrder
  <2> QED
    BY <1>1, <1>2, <2>1, <2>2, <2>3, <2>4 DEF InOrder
<1>7. NothingMissing'
  <2> SUFFICES ASSUME ~spRaised, NEW x \in 1..spTaken
               PROVE  \/ x \in Seen \/ \E i \in 1..Len(spQueue') : spQueue'[i] = x
                      \/ spWorker' = "parse" /\ x = spItem'
                      \/ spAt = "put" /\ x = spTaken
    BY <1>1, <1>2 DEF NothingMissing
  <2>1. CASE \E i \in 1..Len(spQueue) : spQueue[i] = x
    <3>1. PICK i \in 1..Len(spQueue) : spQueue[i] = x
      BY <2>1
    <3>2. CASE i = 1
      BY <1>1, <1>2, <1>3, <3>1, <3>2 DEF PipelineTypeOK
    <3>3. CASE i # 1
      <4>1. i - 1 \in 1..Len(spQueue') /\ spQueue'[i - 1] = spQueue[i]
        BY <1>3, <3>1, <3>3
      <4> QED
        BY <3>1, <4>1
    <3> QED
      BY <3>2, <3>3
  <2> QED
    BY <1>1, <1>2, <2>1 DEF NothingMissing
<1>8. ThreadsFit'
  <2>1. spOpen' = Len(spQueue') + (IF spWorker' = "parse" THEN 1 ELSE 0)
    BY <1>1, <1>2, <1>3
  <2> QED
    BY <1>1, <1>2, <2>1 DEF ThreadsFit, OpenTasks
<1>9. ResultKnown' /\ ArchivedIsComplete' /\ StoredIsWhole'
  BY <1>1, <1>2, Undecided DEF ResultKnown, Decided, Late
<1> QED
  BY <1>5, <1>6, <1>7, <1>8, <1>9 DEF ScanInv

\* A screenshot that is parsed ends in one of the four sets.
LEMMA ParsedOnce ==
  ASSUME PipelineTypeOK, NEW shot \in Shots, shot \notin Seen,
         (spParsed \cup spPending) \cap (spLost \cup spErrors) = {},
         \/ Recognise(shot) /\ spErrors' = spErrors
         \/ UNCHANGED <<spParsed, spPending, spLost>> /\ spErrors' = spErrors \cup {shot}
  PROVE  /\ {spParsed', spPending', spLost', spErrors'} \subseteq SUBSET Shots
         /\ Seen' = Seen \cup {shot}
         /\ (spParsed' \cup spPending') \cap (spLost' \cup spErrors') = {}
<1>1. /\ spParsed \subseteq Shots /\ spPending \subseteq Shots /\ spLost \subseteq Shots
      /\ spErrors \subseteq Shots
  BY DEF PipelineTypeOK
<1>2. CASE spParsed' = spParsed \cup {shot} /\ UNCHANGED <<spPending, spLost, spErrors>>
  BY <1>1, <1>2 DEF Seen
<1>3. CASE spPending' = spPending \cup {shot} /\ UNCHANGED <<spParsed, spLost, spErrors>>
  BY <1>1, <1>3 DEF Seen
<1>4. CASE spLost' = spLost \cup {shot} /\ UNCHANGED <<spParsed, spPending, spErrors>>
  BY <1>1, <1>4 DEF Seen
<1>5. CASE UNCHANGED <<spParsed, spPending, spLost>> /\ spErrors' = spErrors \cup {shot}
  BY <1>1, <1>5 DEF Seen
<1> QED
  BY <1>2, <1>3, <1>4, <1>5 DEF Recognise

LEMMA ParseItemKeeps == ScanInv /\ ParseItem => ScanInv'
<1> SUFFICES ASSUME ScanInv, ParseItem PROVE ScanInv'
  OBVIOUS
<1>1. /\ PipelineTypeOK /\ InOrder /\ NothingMissing /\ ThreadsFit /\ ResultKnown
      /\ UNCHANGED <<spAt, spMode, spCount, spTaken, spBatch, spRaised, spItem, spQueue,
                     spStopped, spStale, spArchived, spOutcome, spStored>>
      /\ spWorker = "parse" /\ spWorker' = "get" /\ spOpen' = spOpen - 1
      /\ \/ Recognise(spItem) /\ spErrors' = spErrors
         \/ spErrors' = spErrors \cup {spItem} /\ UNCHANGED <<spParsed, spPending, spLost>>
  BY DEF ScanInv, ParseItem, scanVars, askedVars, endVars
<1>2. /\ spMode = "during" /\ spAt \notin Late /\ spAt # "idle" /\ Waiting' = Waiting
      /\ spOpen = Len(spQueue) + 1 /\ spQueue \in Seq(0..Total) /\ spItem \in 0..Total
      /\ spItem # 0 /\ spTaken \in 0..Total
  BY <1>1 DEF PipelineTypeOK, ThreadsFit, OpenTasks, Waiting, InOrder
<1>3. spItem \in Shots /\ spItem \in Int /\ Len(spQueue) \in Nat /\ spItem \notin Seen
  BY <1>1, <1>2, PipelineAssumption, InSequence DEF Shots, InOrder
<1>4. /\ {spParsed', spPending', spLost', spErrors'} \subseteq SUBSET Shots
      /\ Seen' = Seen \cup {spItem}
      /\ (spParsed' \cup spPending') \cap (spLost' \cup spErrors') = {}
  BY <1>1, <1>3, ParsedOnce DEF ResultKnown
<1>5. PipelineTypeOK'
  BY <1>1, <1>2, <1>3, <1>4 DEF PipelineTypeOK
<1>6. InOrder'
  BY <1>1, <1>2, <1>4 DEF InOrder
<1>7. NothingMissing'
  BY <1>1, <1>2, <1>4 DEF NothingMissing
<1>8. ThreadsFit'
  BY <1>1, <1>2, <1>3 DEF ThreadsFit, OpenTasks
<1>9. ResultKnown' /\ ArchivedIsComplete' /\ StoredIsWhole'
  BY <1>1, <1>2, <1>4, Undecided DEF ResultKnown, Decided, Late
<1> QED
  BY <1>5, <1>6, <1>7, <1>8, <1>9 DEF ScanInv

LEMMA ParseBatchKeeps == ScanInv /\ ParseBatch => ScanInv'
<1> SUFFICES ASSUME ScanInv, ParseBatch PROVE ScanInv'
  OBVIOUS
<1> DEFINE shot == Head(spBatch)
<1>1. /\ PipelineTypeOK /\ InOrder /\ NothingMissing /\ ThreadsFit /\ ResultKnown
      /\ UNCHANGED <<spMode, spCount, spTaken, spRaised, spItem, spQueue, spOpen, spWorker,
                     spStopped, spStale, spArchived, spStored>>
      /\ spAt = "tail" /\ BatchIsDue /\ spBatch' = Tail(spBatch)
      /\ \/ Recognise(shot) /\ UNCHANGED <<spErrors, spAt, spOutcome>>
         \/ /\ spErrors' = {shot} /\ spOutcome' = "error" /\ spAt' = "end"
            /\ UNCHANGED <<spParsed, spPending, spLost>>
  BY DEF ScanInv, ParseBatch, Failed, queueVars, askedVars
<1>2. /\ spMode = "after" /\ spErrors = {} /\ spWorker = "none" /\ spBatch # <<>>
      /\ Waiting = spBatch /\ Waiting' = spBatch' /\ spBatch \in Seq(Shots)
  BY <1>1 DEF BatchIsDue, PipelineTypeOK, ThreadsFit, Waiting
<1>3. /\ spBatch' \in Seq(Shots) /\ Len(spBatch') = Len(spBatch) - 1 /\ Len(spBatch) \in Nat
      /\ Len(spBatch) >= 1 /\ shot = spBatch[1] /\ shot \in Shots
      /\ \A i \in 1..Len(spBatch') : spBatch'[i] = spBatch[i + 1]
  <2>1. /\ Tail(spBatch) \in Seq(Shots) /\ Len(spBatch) \in Nat /\ Len(spBatch) >= 1
        /\ Len(Tail(spBatch)) = Len(spBatch) - 1
        /\ Head(spBatch) = spBatch[1] /\ spBatch[1] \in Shots
        /\ \A i \in 1..Len(Tail(spBatch)) : Tail(spBatch)[i] = spBatch[i + 1]
    BY <1>2, TakenFirst
  <2> QED
    BY <1>1, <2>1
<1> HIDE DEF shot
<1>4. /\ \A i \in 1..Len(spBatch) : spBatch[i] \in Int
      /\ \A x \in Seen : x \in Int
      /\ shot \in Int /\ shot # 0
  BY <1>1, <1>2, <1>3, WaitingShots, PipelineAssumption DEF Shots
<1>5. /\ 1 \in 1..Len(Waiting) /\ Waiting[1] = shot
      /\ \A x \in Seen : x < shot
      /\ shot <= spTaken /\ shot \notin Seen
  <2>1. 1 \in 1..Len(Waiting) /\ Waiting[1] = shot
    BY <1>2, <1>3
  <2>2. (\A x \in Seen : x < shot) /\ shot <= spTaken
    BY <1>1, <1>4, <2>1 DEF InOrder
  <2>3. shot \notin Seen
    BY <1>4, <2>2
  <2> QED
    BY <2>1, <2>2, <2>3
<1>6. /\ {spParsed', spPending', spLost', spErrors'} \subseteq SUBSET Shots
      /\ Seen' = Seen \cup {shot}
      /\ (spParsed' \cup spPending') \cap (spLost' \cup spErrors') = {}
  <2>1. \/ Recognise(shot) /\ spErrors' = spErrors
        \/ UNCHANGED <<spParsed, spPending, spLost>> /\ spErrors' = spErrors \cup {shot}
    BY <1>1, <1>2
  <2> QED
    BY <1>1, <1>3, <1>5, <2>1, ParsedOnce DEF ResultKnown
<1>7. spAt' \in {"tail", "end"} /\ (spAt' = "tail" => spErrors' = {})
  BY <1>1, <1>2
<1>8. PipelineTypeOK'
  BY <1>1, <1>3, <1>6 DEF PipelineTypeOK
<1>9. InOrder'
  <2>1. \A i, j \in 1..Len(spBatch') :
          i < j => spBatch'[i] # 0 /\ (spBatch'[j] # 0 => spBatch'[i] < spBatch'[j])
    <3> SUFFICES ASSUME NEW i \in 1..Len(spBatch'), NEW j \in 1..Len(spBatch'), i < j
                 PROVE  spBatch'[i] # 0 /\ (spBatch'[j] # 0 => spBatch'[i] < spBatch'[j])
      OBVIOUS
    <3>1. i + 1 \in 1..Len(spBatch) /\ j + 1 \in 1..Len(spBatch) /\ i + 1 < j + 1
      BY <1>3
    <3> QED
      BY <1>1, <1>2, <1>3, <3>1 DEF InOrder
  <2>2. \A i \in 1..Len(spBatch') :
          /\ i + 1 \in 1..Len(spBatch) /\ 1 < i + 1 /\ spBatch'[i] = spBatch[i + 1]
    BY <1>3
  <2>3. \A i \in 1..Len(spBatch') :
          spBatch'[i] # 0 => /\ \A x \in Seen' : x < spBatch'[i]
                             /\ spBatch'[i] <= spTaken
    BY <1>1, <1>2, <1>5, <1>6, <2>2 DEF InOrder
  <2>4. \A x \in Seen' : x <= spTaken
    BY <1>1, <1>5, <1>6 DEF InOrder
  <2> QED
    BY <1>1, <1>2, <1>7, <2>1, <2>3, <2>4 DEF InOrder
<1>10. NothingMissing'
  <2> SUFFICES ASSUME ~spRaised, NEW x \in 1..spTaken
               PROVE  x \in Seen' \/ \E i \in 1..Len(spBatch') : spBatch'[i] = x
    BY <1>1, <1>2 DEF NothingMissing
  <2>1. CASE \E i \in 1..Len(spBatch) : spBatch[i] = x
    <3>1. PICK i \in 1..Len(spBatch) : spBatch[i] = x
      BY <2>1
    <3>2. CASE i = 1
      BY <1>3, <1>6, <3>1, <3>2
    <3>3. CASE i # 1
      <4>1. i - 1 \in 1..Len(spBatch') /\ spBatch'[i - 1] = spBatch[i]
        BY <1>3, <3>1, <3>3
      <4> QED
        BY <3>1, <4>1
    <3> QED
      BY <3>2, <3>3
  <2>2. CASE x \in Seen
    BY <1>6, <2>2
  <2> QED
    BY <1>1, <1>2, <2>1, <2>2 DEF NothingMissing
<1>11. ThreadsFit'
  BY <1>1, <1>2, <1>7 DEF ThreadsFit, OpenTasks
<1>12. ResultKnown' /\ ArchivedIsComplete' /\ StoredIsWhole'
  <2>1. ~spArchived /\ ~spStored
    BY <1>1 DEF ResultKnown
  <2> QED
    BY <1>1, <1>6, <1>7, <2>1 DEF ResultKnown, Decided, ArchivedIsComplete, StoredIsWhole
<1> QED
  BY <1>8, <1>9, <1>10, <1>11, <1>12 DEF ScanInv

\* Once the consumer is joined, or the batch parsed, every screenshot has been seen.
LEMMA AllSeen ==
  ASSUME ScanInv, spAt \in Late, ~spRaised, spMode = "during" \/ spBatch = <<>>
  PROVE  Seen = 1..spTaken
<1>1. /\ PipelineTypeOK /\ InOrder /\ NothingMissing /\ ThreadsFit
      /\ spAt # "put" /\ spMode \in {"during", "after"}
  BY DEF ScanInv, PipelineTypeOK, Late
<1>2. spWorker # "parse" /\ Waiting = <<>>
  BY <1>1 DEF ThreadsFit, Waiting
<1>3. Len(Waiting) = 0
  BY <1>2
<1>4. 1..spTaken \subseteq Seen
  BY <1>1, <1>2, <1>3 DEF NothingMissing
<1>5. Seen \subseteq 1..spTaken
  <2>1. spTaken \in Int
    BY <1>1, PipelineAssumption DEF PipelineTypeOK
  <2>2. Seen \subseteq 1..Total
    BY <1>1 DEF PipelineTypeOK, Seen, Shots
  <2> QED
    BY <1>1, <2>1, <2>2, PipelineAssumption DEF InOrder
<1> QED
  BY <1>4, <1>5

\* From the end of the pipeline to the end of the scan.
LEMMA EndsKeep ==
  ScanInv /\ (RunReturns \/ CheckFresh \/ SettleScan \/ DeliverScan \/ AskUser \/ CommitScan)
    => ScanInv'
<1> SUFFICES ASSUME ScanInv,
                    RunReturns \/ CheckFresh \/ SettleScan \/ DeliverScan \/ AskUser \/ CommitScan
             PROVE  ScanInv'
  OBVIOUS
<1>1. /\ PipelineTypeOK /\ InOrder /\ NothingMissing /\ ThreadsFit /\ ResultKnown
      /\ ArchivedIsComplete /\ StoredIsWhole
      /\ UNCHANGED <<queueVars, parseVars>>
      /\ UNCHANGED <<spMode, spCount, spTaken, spBatch, spRaised, spItem, spQueue, spOpen, spWorker,
                     spParsed, spPending, spLost, spErrors, spStopped, spStale>>
      /\ spAt \in Late \ {"end"} /\ spAt' \in Late \ {"tail"}
  BY DEF ScanInv, RunReturns, CheckFresh, SettleScan, DeliverScan, AskUser, CommitScan, Failed,
         scanVars, queueVars, parseVars, askedVars, endVars, Late
<1>2. /\ spOutcome' \in {"none", "done", "cancelled", "partial", "stale", "error"}
      /\ spArchived' \in BOOLEAN /\ spStored' \in BOOLEAN
  BY <1>1 DEF PipelineTypeOK, RunReturns, CheckFresh, SettleScan, DeliverScan, AskUser, CommitScan,
              Failed, endVars, Whole
<1>3. PipelineTypeOK'
  <2>1. spAt' \in {"idle", "scan", "put", "stop", "join", "tail", "fresh", "settle", "fresh_again",
                   "deliver", "store", "commit", "end"}
    BY <1>1 DEF Late
  <2> QED
    BY <1>1, <1>2, <2>1 DEF PipelineTypeOK
<1>4. InOrder' /\ NothingMissing'
  BY <1>1, NothingMoves DEF Late
<1>5. ThreadsFit'
  BY <1>1 DEF ThreadsFit, OpenTasks, Late
<1>6. ~spStored
  BY <1>1 DEF ResultKnown
<1>7. CASE RunReturns
  <2>1. /\ spAt = "tail" /\ ~BatchIsDue /\ UNCHANGED <<spArchived, spStored>>
        /\ \/ spAt' = "end"
           \/ ~spRaised /\ spErrors = {} /\ spAt' = "fresh"
    BY <1>7 DEF RunReturns, Failed
  <2>2. ~spArchived /\ ~spStored
    BY <1>1, <2>1 DEF ResultKnown
  <2>3. /\ (spParsed \cup spPending) \cap (spLost \cup spErrors) = {}
        /\ spCount = Total => spTaken = Total
    BY <1>1 DEF ResultKnown
  <2>4. ArchivedIsComplete' /\ StoredIsWhole'
    BY <2>1, <2>2 DEF ArchivedIsComplete, StoredIsWhole
  <2>5. ASSUME spAt' = "fresh", spCount = Total
        PROVE  spParsed \cup spPending \cup spLost = Shots
    <3>1. spMode \in {"during", "after"}
      BY <1>1 DEF PipelineTypeOK
    <3>2. ~spRaised /\ spErrors = {} /\ spTaken = Total
      BY <2>1, <2>3, <2>5
    <3>3. spMode = "during" \/ spBatch = <<>>
      BY <2>1, <2>5, <3>1, <3>2 DEF BatchIsDue
    <3>4. Seen = 1..Total
      BY <2>1, <3>2, <3>3, AllSeen DEF Late
    <3> QED
      BY <3>2, <3>4 DEF Seen, Shots
  <2>6. ResultKnown'
    <3>1. /\ spAt' \notin {"store", "commit"} /\ ~spArchived' /\ ~spStored'
          /\ spAt' \in Decided => spAt' = "fresh" /\ ~spRaised /\ spErrors = {}
      BY <2>1, <2>2 DEF Decided
    <3>2. UNCHANGED <<spParsed, spPending, spLost, spErrors, spCount, spTaken, spRaised>>
      BY <1>1
    <3> QED
      BY <2>3, <2>5, <3>1, <3>2 DEF ResultKnown, Shots
  <2> QED
    BY <1>3, <1>4, <1>5, <2>4, <2>6 DEF ScanInv
<1>8. CASE ~RunReturns
  <2>1. spAt \in Decided
    BY <1>8 DEF CheckFresh, SettleScan, DeliverScan, AskUser, CommitScan, Decided
  <2>2. /\ ~spRaised /\ spErrors = {}
        /\ spCount = Total => spParsed \cup spPending \cup spLost = Shots
        /\ (spParsed \cup spPending) \cap (spLost \cup spErrors) = {}
        /\ spCount = Total => spTaken = Total
    BY <1>1, <2>1 DEF ResultKnown
  <2>3. spAt' \in {"store", "commit"} => spCount = Total
    BY <1>1, <1>8
    DEF CheckFresh, SettleScan, DeliverScan, AskUser, CommitScan, ResultKnown, Failed
  <2>4. spArchived' => /\ spCount = Total
                       /\ spAt' \in {"fresh_again", "deliver", "store", "commit", "end"}
    BY <1>1, <1>8
    DEF CheckFresh, SettleScan, DeliverScan, AskUser, CommitScan, ResultKnown, Failed,
        ArchivedIsComplete
  <2>5. spStored' => spAt = "commit" /\ spAt' = "end" /\ Whole
    BY <1>6, <1>8 DEF CheckFresh, SettleScan, DeliverScan, AskUser, CommitScan
  <2>6. ResultKnown'
    BY <1>1, <2>2, <2>3, <2>4, <2>5 DEF ResultKnown
  <2>7. ArchivedIsComplete'
    BY <1>1, <2>2, <2>4 DEF ArchivedIsComplete
  <2>8. StoredIsWhole'
    <3> SUFFICES ASSUME spStored'
                 PROVE  /\ spCount = Total /\ spErrors = {} /\ spLost = {}
                        /\ spParsed \cup spPending = Shots
      BY <1>1 DEF StoredIsWhole
    <3>1. spCount = Total
      BY <1>1, <2>5 DEF ResultKnown
    <3>2. spParsed \cup spPending = Shots
      BY <2>5 DEF Whole, Shots
    <3>3. spLost \subseteq Shots
      BY <1>1 DEF PipelineTypeOK
    <3> QED
      BY <2>2, <3>1, <3>2, <3>3
  <2> QED
    BY <1>3, <1>4, <1>5, <2>6, <2>7, <2>8 DEF ScanInv
<1> QED
  BY <1>7, <1>8

LEMMA AsksKeep == ScanInv /\ (StopKey \/ Outdate \/ UNCHANGED spVars) => ScanInv'
<1> SUFFICES ASSUME ScanInv, StopKey \/ Outdate \/ UNCHANGED spVars PROVE ScanInv'
  OBVIOUS
<1>1. /\ UNCHANGED <<spAt, spWorker, spMode, spCount, spTaken, spBatch, spRaised, spItem, spQueue,
                     spOpen, spParsed, spPending, spLost, spErrors, spArchived, spOutcome, spStored>>
      /\ PipelineTypeOK /\ spStopped' \in BOOLEAN /\ spStale' \in BOOLEAN
  BY DEF ScanInv, PipelineTypeOK, StopKey, Outdate, spVars, scanVars, queueVars, parseVars,
         askedVars, endVars
<1>2. PipelineTypeOK'
  BY <1>1 DEF PipelineTypeOK
<1>3. Waiting' = Waiting /\ Seen' = Seen
  BY <1>1 DEF Waiting, Seen
<1>4. InOrder' /\ NothingMissing'
  BY <1>1, <1>3 DEF ScanInv, InOrder, NothingMissing
<1>5. ThreadsFit' /\ ResultKnown' /\ ArchivedIsComplete' /\ StoredIsWhole'
  BY <1>1 DEF ScanInv, ThreadsFit, OpenTasks, ResultKnown, ArchivedIsComplete, StoredIsWhole
<1> QED
  BY <1>2, <1>4, <1>5 DEF ScanInv

LEMMA ScanInductive == ScanInv /\ [PipelineNext]_spVars => ScanInv'
  BY BeginScanKeeps, CaptureKeeps, PutKeeps, ScanEndsKeeps, PutStopKeeps, GetItemKeeps,
     ParseItemKeeps, ParseBatchKeeps, EndsKeep, AsksKeep
  DEF PipelineNext, ScannerRun, ConsumerRun

\* Types of the state of a scan.
THEOREM ScanTyped == PipelineSpec => []PipelineTypeOK
<1>1. ScanInv => PipelineTypeOK
  BY DEF ScanInv
<1> QED
  BY <1>1, ScanInitially, ScanInductive, PTL DEF PipelineSpec

\* When the consumer is joined nothing is left unparsed (ScanParseCoordinator.run: the
\* sentinel goes through the same queue as the screenshots).
THEOREM NothingUnparsed == PipelineSpec => []JoinedIsParsed
<1>1. ScanInv => JoinedIsParsed
  <2> SUFFICES ASSUME ScanInv, spMode = "during", ~spRaised, spAt \in Late
               PROVE  1..spTaken = spParsed \cup spPending \cup spLost \cup spErrors
    BY DEF JoinedIsParsed, Late
  <2> QED
    BY AllSeen DEF Seen
<1> QED
  BY <1>1, ScanInitially, ScanInductive, PTL DEF PipelineSpec

\* Only a complete scan replaces the screenshots of the last one, and only one of which
\* every item is known replaces the inventory (full_visual_snapshot_commit.py).
THEOREM OnlyWholeScansCount == PipelineSpec => [](ArchivedIsComplete /\ StoredIsWhole)
<1>1. ScanInv => ArchivedIsComplete /\ StoredIsWhole
  BY DEF ScanInv
<1> QED
  BY <1>1, ScanInitially, ScanInductive, PTL DEF PipelineSpec
=============================================================================
