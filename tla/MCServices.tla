------------------------------ MODULE MCServices ------------------------------
(***************************************************************************)
(* Small instances of the services that keep their state to themselves.    *)
(* They do not interact, so each behaviour runs one of them: service says  *)
(* which, and the variables of the others keep their initial values.       *)
(***************************************************************************)
EXTENDS AutoSync, PageTasks, GameObservation, ScanPipeline, CultivationHistory,
        PluginUpdate, PluginDeploy, WorkMode, BattleCapture, MCDriveReservation, DriveMatching

VARIABLE service

suiteVars == <<service, asVars, pagesVars, goVars, spVars, chVars, updateVars, deployVars, workVars,
               captureVars, drVars, searchVars>>

SuiteInit ==
  /\ service \in {"sync", "pages", "commits", "observer", "scan", "history", "update",
                  "deploy", "mode", "capture", "reserve", "search"}
  /\ AutoSyncInit /\ PagesInit /\ ObservationInit /\ PipelineInit /\ CultivationInit
  /\ UpdateInit /\ DeployInit /\ WorkInit /\ CaptureInit /\ ReservationInit /\ MatchingInit
  /\ service # "scan" => spMode = "during"
  /\ service # "deploy" => ~pdBlocked /\ \A part \in Parts : pdFile[part] = "prior"
  /\ service # "capture" => bcNative
  /\ service # "search" => \A slot \in DOMAIN dmWanted : dmWanted[slot] = {}
  /\ service # "reserve" => drDemand = <<<<1>>, <<1>>, <<1>>>>

Syncs(action) ==
  /\ service = "sync" /\ action /\ UNCHANGED <<service, pagesVars, goVars, spVars, chVars>>
  /\ UNCHANGED <<updateVars, deployVars, workVars, captureVars, drVars, searchVars>>
Pages(lane, action) ==
  /\ service = lane /\ action /\ UNCHANGED <<service, asVars, goVars, spVars, chVars>>
  /\ UNCHANGED <<updateVars, deployVars, workVars, captureVars, drVars, searchVars>>
Observes(action) ==
  /\ service = "observer" /\ action /\ UNCHANGED <<service, asVars, pagesVars, spVars, chVars>>
  /\ UNCHANGED <<updateVars, deployVars, workVars, captureVars, drVars, searchVars>>
Scans(action) ==
  /\ service = "scan" /\ action /\ UNCHANGED <<service, asVars, pagesVars, goVars, chVars>>
  /\ UNCHANGED <<updateVars, deployVars, workVars, captureVars, drVars, searchVars>>

Others == <<service, asVars, pagesVars, goVars, spVars>>

Captures(action) ==
  /\ service = "capture" /\ action
  /\ UNCHANGED <<Others, chVars, updateVars, deployVars, workVars, drVars, searchVars>>

SuiteNext ==
  \/ Syncs(AutoSyncNext) \/ Pages("pages", LaneNext) \/ Pages("commits", CommitNext)
  \/ Observes(ObservationNext) \/ Scans(PipelineNext)
  \/ /\ service = "history" /\ CultivationNext
     /\ UNCHANGED <<Others, updateVars, deployVars, workVars, captureVars, drVars, searchVars>>
  \/ /\ service = "update" /\ UpdateNext
     /\ UNCHANGED <<Others, chVars, deployVars, workVars, captureVars, drVars, searchVars>>
  \/ /\ service = "deploy" /\ DeployNext
     /\ UNCHANGED <<Others, chVars, updateVars, workVars, captureVars, drVars, searchVars>>
  \/ /\ service = "mode" /\ WorkNext
     /\ UNCHANGED <<Others, chVars, updateVars, deployVars, captureVars, drVars, searchVars>>
  \/ Captures(CaptureNext)
  \/ /\ service = "reserve" /\ ReservationNext
     /\ UNCHANGED <<Others, chVars, updateVars, deployVars, workVars, captureVars, searchVars>>
  \/ /\ service = "search" /\ MatchingNext
     /\ UNCHANGED <<Others, chVars, updateVars, deployVars, workVars, captureVars, drVars>>

\* The threads run on; nobody has to cancel, close or press a key, and the interval of
\* the observer need not end.
SuiteFairness ==
  /\ WF_suiteVars(Syncs(Tick)) /\ WF_suiteVars(Syncs(Refresh)) /\ WF_suiteVars(Syncs(Waits))
  /\ WF_suiteVars(Syncs(JoinEnds)) /\ SF_suiteVars(Syncs(DeliverResult))
  /\ WF_suiteVars(Pages("pages", LaneRun)) /\ WF_suiteVars(Observes(ObserverRun))
  /\ WF_suiteVars(Scans(ScannerRun)) /\ WF_suiteVars(Scans(ConsumerRun))
  /\ WF_suiteVars(Captures(CaptureGoesOn))

\* Types of the state of these services.
SuiteTypeOK ==
  /\ AutoSyncTypeOK /\ PagesTypeOK /\ ObservationTypeOK /\ PipelineTypeOK /\ CultivationTypeOK
  /\ UpdateTypeOK /\ DeployTypeOK /\ WorkTypeOK /\ CaptureTypeOK
  /\ ReservationTypeOK

SuiteSpec == SuiteInit /\ [][SuiteNext]_suiteVars /\ SuiteFairness
=============================================================================
