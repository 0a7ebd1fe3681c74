------------------------------- MODULE AutoSync -------------------------------
(***************************************************************************)
(* Who starts, stops and restarts the synchronisation of the inventory:    *)
(* ui/controllers/auto_sync_controller.py with sync_recovery.py and        *)
(* inventory_sync_controller.py, start and stop of InventorySyncService,   *)
(* the teardown of work_mode_controller.py and the switch of the account   *)
(* (app/context.py, ui/app.py), for the source in the game.                *)
(*                                                                         *)
(* The UI thread runs one slot after the other; what a slot ends with, a   *)
(* refresh(), or waits for, the join of a worker, are steps of their own   *)
(* (asUi).  Beside it: the worker of each service, the threads that stop   *)
(* one (asJoins) and their results on the way to the UI (asResults).       *)
(* A context is all that _context() compares.                              *)
(***************************************************************************)
EXTENDS Naturals

CONSTANTS
  MaxServices,      \* bound: services made
  MaxAsks           \* bound: restarts, updates, battles and changes, together

ASSUME AutoSyncAssumption == MaxServices \in Nat /\ MaxAsks \in Nat

VARIABLES
  asUi,             \* the UI thread: free; refresh: a slot ends with it; join, switch: in a
                    \* switch; pause: a battle report that waits for the worker
  asRun,            \* the worker of each service: none, run, asked; lost, failed, stopped
  asService,        \* _inventory_sync_service (0: None)
  asToken,          \* the service whose notifications count (0: they are invalidated)
  asJoins,          \* threads in stop(): <<service, the context of a teardown or 0>>
  asResults,        \* their results: <<service, context, error>>
  asStopping,       \* _stopping
  asStopFailed, asCancelled, asRestarting, asMaintenance,   \* the flags of the controller
  asContext,        \* _context(), what it is now
  asKey,            \* _key, what it was at the last refresh
  asAttempt,        \* the context of _attempt (0: None)
  asAllowed,        \* allowed("native_sync", automatic=True)
  asProbe,          \* the context of a probe that found all ready (0: none)
  asAttempts, asLost, asDue,   \* SyncRecovery: attempts, service, due
  asIndexed,        \* the index of accounts names the active account
  asBattle,         \* a report is captured: none, on; resume: and has paused the worker
  asAsks            \* how many of them there were

workerVars == <<asRun, asJoins, asResults>>
flagVars == <<asStopFailed, asCancelled, asRestarting, asMaintenance>>
recoveryVars == <<asAttempts, asLost, asDue>>
asVars == <<asUi, workerVars, asService, asToken, asStopping, flagVars, asContext, asKey, asAttempt,
            asAllowed, asProbe, recoveryVars, asIndexed, asBattle, asAsks>>

Services == 1..MaxServices
Unused == {s \in Services : asRun[s] = "none"}
Alive(s) == s # 0 /\ asRun[s] \in {"run", "asked"}     \* is_running

AutoSyncInit ==
  /\ asUi = "free" /\ asRun = [s \in Services |-> "none"] /\ asJoins = {} /\ asResults = {}
  /\ asService = 0 /\ asToken = 0 /\ asStopping = 0
  /\ asStopFailed = FALSE /\ asCancelled = FALSE /\ asRestarting = FALSE /\ asMaintenance = FALSE
  /\ asContext = 1 /\ asKey = 1 /\ asAttempt = 0 /\ asAllowed = TRUE /\ asProbe = 0
  /\ asAttempts = 0 /\ asLost = 0 /\ asDue = FALSE
  /\ asIndexed = TRUE /\ asBattle = "none" /\ asAsks = 0

-----------------------------------------------------------------------------
(* refresh *)

Asked(s) == [asRun EXCEPT ![s] = IF @ = "run" THEN "asked" ELSE @]

\* _stop_inventory: a thread stops the service, unless one does already.
StopInventory ==
  IF asService = 0 \/ asStopping = asService
    THEN UNCHANGED <<asRun, asToken, asStopping, asJoins>>
    ELSE /\ asRun' = Asked(asService) /\ asToken' = 0 /\ asStopping' = asService
         /\ asJoins' = asJoins \cup {<<asService, 0>>}

ResetRecovery == asAttempts' = 0 /\ asLost' = 0 /\ asDue' = FALSE

Tick ==              \* the timer, every 250 ms
  /\ asUi = "free" /\ asUi' = "refresh"
  /\ UNCHANGED <<workerVars, asService, asToken, asStopping, flagVars, asContext, asKey, asAttempt,
                 asAllowed, asProbe, recoveryVars, asIndexed, asBattle, asAsks>>

NoteContext ==       \* the first half of refresh: the context is not the last one
  /\ asUi = "refresh" /\ ~asMaintenance /\ asKey # asContext
  /\ asKey' = asContext /\ asAttempt' = 0 /\ asCancelled' = FALSE /\ asRestarting' = FALSE
  /\ StopInventory /\ ResetRecovery
  /\ UNCHANGED <<asUi, asResults, asService, asStopFailed, asMaintenance, asContext, asAllowed,
                 asProbe, asIndexed, asBattle, asAsks>>

Noted == asUi = "refresh" /\ asUi' = "free" /\ (asMaintenance \/ asKey = asContext)
Ready == asProbe = asContext
TearingDown == \E join \in asJoins \cup asResults : join[2] # 0   \* _teardown_pending
CanStart ==
  /\ ~asMaintenance /\ asAllowed /\ Ready /\ asStopping = 0 /\ ~asStopFailed /\ ~asCancelled
  /\ ~TearingDown /\ asBattle = "none" /\ ~Alive(asService) /\ Unused # {}

HasLostCore == asService # 0 /\ asRun[asService] = "lost"

\* _start_inventory_sync
StartService ==
  LET s == CHOOSE s \in Unused : TRUE IN
  asRun' = [asRun EXCEPT ![s] = "run"] /\ asService' = s /\ asToken' = s

RefreshStarts ==
  /\ Noted /\ CanStart /\ ~HasLostCore /\ asAttempt # asContext
  /\ StartService /\ asAttempt' = asContext
  /\ UNCHANGED <<asJoins, asResults, asStopping, flagVars, asContext, asKey, asAllowed, asProbe,
                 recoveryVars, asIndexed, asBattle, asAsks>>

ScheduleRecovery ==  \* SyncRecovery.ready: a new loss, while there is a delay left
  /\ Noted /\ CanStart /\ HasLostCore /\ asLost # asService
  /\ asLost' = asService /\ asDue' = (asAttempts < 3)
  /\ UNCHANGED <<workerVars, asService, asToken, asStopping, flagVars, asContext, asKey, asAttempt,
                 asAllowed, asProbe, asAttempts, asIndexed, asBattle, asAsks>>

Recover ==           \* it is due
  /\ Noted /\ CanStart /\ HasLostCore /\ asLost = asService /\ asDue
  /\ asDue' = FALSE /\ asAttempts' = asAttempts + 1 /\ StartService /\ asAttempt' = asContext
  /\ UNCHANGED <<asJoins, asResults, asStopping, flagVars, asContext, asKey, asAllowed, asProbe,
                 asLost, asIndexed, asBattle, asAsks>>

RefreshIdles ==      \* nothing to start, or not due yet; what is not ready may be tried again
  /\ Noted
  /\ CanStart => IF HasLostCore THEN asLost = asService ELSE asAttempt = asContext
  /\ asAttempt' = IF ~asMaintenance /\ asAllowed /\ ~Ready THEN 0 ELSE asAttempt
  /\ UNCHANGED <<workerVars, asService, asToken, asStopping, flagVars, asContext, asKey, asAllowed,
                 asProbe, recoveryVars, asIndexed, asBattle, asAsks>>

-----------------------------------------------------------------------------
(* The workers, and the threads that stop them *)

\* It stops when it is asked to or finds its context outdated, loses the Core or fails.
WorkerEnds(s) ==
  /\ Alive(s)
  /\ \E end \in {"lost", "failed", "stopped"} :
       /\ end = "stopped" => asRun[s] = "asked" \/ asKey # asContext
       /\ asRun' = [asRun EXCEPT ![s] = end]
  /\ UNCHANGED <<asUi, asJoins, asResults, asService, asToken, asStopping, flagVars, asContext,
                 asKey, asAttempt, asAllowed, asProbe, recoveryVars, asIndexed, asBattle, asAsks>>

JoinEnds ==          \* stop: it is dead, or ten seconds are over
  /\ \E join \in asJoins :
       /\ asJoins' = asJoins \ {join}
       /\ asResults' = asResults \cup {<<join[1], join[2], Alive(join[1])>>}
  /\ UNCHANGED <<asUi, asRun, asService, asToken, asStopping, flagVars, asContext, asKey, asAttempt,
                 asAllowed, asProbe, recoveryVars, asIndexed, asBattle, asAsks>>

Stopped_Forgets(s, error) ==
  /\ asUi = "free" /\ <<s, 0, error>> \in asResults
  /\ asResults' = asResults \ {<<s, 0, error>>}
  /\ IF s # asStopping THEN UNCHANGED <<asUi, asStopping, asStopFailed, asService, asToken>>
     ELSE /\ asStopping' = 0 /\ asUi' = "refresh" /\ UNCHANGED asStopFailed
          /\ IF s = asService THEN asService' = 0 /\ asToken' = 0
             ELSE UNCHANGED <<asService, asToken>>
  /\ UNCHANGED <<asRun, asJoins, asCancelled, asRestarting, asMaintenance, asContext, asKey,
                 asAttempt, asAllowed, asProbe, recoveryVars, asIndexed, asBattle, asAsks>>

\* _stopped
Stopped(s, error) ==
  /\ asUi = "free" /\ <<s, 0, error>> \in asResults
  /\ asResults' = asResults \ {<<s, 0, error>>}
  /\ IF s # asStopping THEN UNCHANGED <<asUi, asStopping, asStopFailed, asService, asToken>>
     ELSE /\ asStopping' = 0 /\ asStopFailed' = (error /\ Alive(s)) /\ asUi' = "refresh"
          /\ IF s = asService /\ ~asStopFailed' THEN asService' = 0 /\ asToken' = 0
             ELSE UNCHANGED <<asService, asToken>>
  /\ UNCHANGED <<asRun, asJoins, asCancelled, asRestarting, asMaintenance, asContext, asKey,
                 asAttempt, asAllowed, asProbe, recoveryVars, asIndexed, asBattle, asAsks>>

TornDown(s, c, error) ==   \* WorkModeController._apply of a _TeardownResult
  /\ asUi = "free" /\ c # 0 /\ <<s, c, error>> \in asResults
  /\ asResults' = asResults \ {<<s, c, error>>}
  /\ IF s # 0 /\ s = asService /\ ~Alive(s) THEN asService' = 0 /\ asToken' = 0
     ELSE UNCHANGED <<asService, asToken>>
  /\ UNCHANGED <<asUi, asRun, asJoins, asStopping, flagVars, asContext, asKey, asAttempt, asAllowed,
                 asProbe, recoveryVars, asIndexed, asBattle, asAsks>>

\* inventory_state_changed: the worker listens and has the inventory of its source.
Listens ==
  /\ asUi = "free" /\ asToken # 0 /\ asToken = asService /\ asRun[asToken] = "run"
  /\ asRestarting \/ asAttempts > 0
  /\ asRestarting' = FALSE /\ ResetRecovery
  /\ UNCHANGED <<asUi, workerVars, asService, asToken, asStopping, asStopFailed, asCancelled,
                 asMaintenance, asContext, asKey, asAttempt, asAllowed, asProbe,
                 asIndexed, asBattle, asAsks>>

-----------------------------------------------------------------------------
(* The user, the observer of the game and the update of the plug-ins *)

Asks == asUi = "free" /\ asAsks < MaxAsks /\ asAsks' = asAsks + 1

RestartSync_Keeps ==
  /\ Asks /\ ~asMaintenance /\ asAllowed /\ asBattle = "none"
  /\ asCancelled' = FALSE /\ asStopFailed' = FALSE /\ asRestarting' = TRUE
  /\ StopInventory /\ ResetRecovery /\ asUi' = "refresh"
  /\ UNCHANGED <<asResults, asService, asMaintenance, asContext, asKey, asAttempt, asAllowed,
                 asProbe, asIndexed, asBattle>>

\* restart
RestartSync ==
  /\ Asks /\ ~asMaintenance /\ asAllowed /\ asBattle = "none"
  /\ asAttempt' = 0 /\ asCancelled' = FALSE /\ asStopFailed' = FALSE /\ asRestarting' = TRUE
  /\ StopInventory /\ ResetRecovery /\ asUi' = "refresh"
  /\ UNCHANGED <<asResults, asService, asMaintenance, asContext, asKey, asAllowed, asProbe,
                 asIndexed, asBattle>>

CancelRestart ==
  /\ asUi = "free" /\ asRestarting /\ asRestarting' = FALSE /\ asCancelled' = TRUE
  /\ StopInventory
  /\ UNCHANGED <<asUi, asResults, asService, asStopFailed, asMaintenance, asContext, asKey,
                 asAttempt, asAllowed, asProbe, recoveryVars, asIndexed, asBattle, asAsks>>

Suspend ==           \* suspend_for_plugin_update
  /\ Asks /\ ~asMaintenance /\ asBattle = "none" /\ asMaintenance' = TRUE /\ StopInventory
  /\ UNCHANGED <<asUi, asResults, asService, asStopFailed, asCancelled, asRestarting, asContext,
                 asKey, asAttempt, asAllowed, asProbe, recoveryVars, asIndexed, asBattle>>

ResumeSync ==        \* resume_after_plugin_update
  /\ asUi = "free" /\ asMaintenance /\ asMaintenance' = FALSE
  /\ asAttempt' = 0 /\ asProbe' = 0 /\ asUi' \in {"free", "refresh"}
  /\ UNCHANGED <<workerVars, asService, asToken, asStopping, asStopFailed, asCancelled,
                 asRestarting, asContext, asKey, asAllowed, recoveryVars, asIndexed,
                 asBattle, asAsks>>

\* observe_probe: all is ready, something is missing, or the game is not running.
ObserveProbe(found) ==
  /\ asUi = "free" /\ ~asMaintenance /\ asUi' = "refresh"
  /\ asProbe' = (IF found = "ready" THEN asContext ELSE 0)
  /\ IF asAllowed /\ found = "no game" THEN StopInventory
     ELSE UNCHANGED <<asRun, asToken, asStopping, asJoins>>
  /\ UNCHANGED <<asResults, asService, flagVars, asContext, asKey, asAttempt, asAllowed,
                 recoveryVars, asIndexed, asBattle, asAsks>>

Changes == Asks /\ asContext' = asContext + 1

SetEnabled ==        \* the preference, which a refresh follows
  /\ Changes /\ asAllowed' \in BOOLEAN /\ asUi' = "refresh"
  /\ UNCHANGED <<workerVars, asService, asToken, asStopping, flagVars, asKey, asAttempt, asProbe,
                 recoveryVars, asIndexed, asBattle>>

ChangeMode ==        \* select_mode with _stop_live_work: the observer's thread joins the worker
  /\ Changes /\ asAllowed' \in BOOLEAN
  /\ asJoins' = asJoins \cup {<<asService, asContext'>>} /\ asToken' = 0
  /\ asRun' = IF asService = 0 THEN asRun ELSE Asked(asService)
  /\ UNCHANGED <<asUi, asResults, asService, asStopping, flagVars, asKey, asAttempt, asProbe,
                 recoveryVars, asIndexed, asBattle>>

-----------------------------------------------------------------------------
(* _switch_account and AppContext.switch_account *)

\* The index names the account before anything is stopped; a page that is writing makes
\* the switch raise.  Otherwise the UI thread waits for the worker (_stop_inventory_sync).
BeginSwitch ==
  /\ Asks /\ asBattle = "none" /\ asIndexed' = FALSE
  /\ \/ UNCHANGED <<asUi, asRun, asToken>>
     \/ asUi' = "join" /\ asToken' = 0
        /\ asRun' = IF asService = 0 THEN asRun ELSE Asked(asService)
  /\ UNCHANGED <<asJoins, asResults, asService, asStopping, flagVars, asContext, asKey, asAttempt,
                 asAllowed, asProbe, recoveryVars, asBattle>>

SwitchJoined ==
  /\ asUi = "join" /\ ~Alive(asService) /\ asService' = 0 /\ asUi' = "switch"
  /\ UNCHANGED <<workerVars, asToken, asStopping, flagVars, asContext, asKey, asAttempt, asAllowed,
                 asProbe, recoveryVars, asIndexed, asBattle, asAsks>>

SwitchTimesOut ==    \* TimeoutError ends the switch
  /\ asUi = "join" /\ Alive(asService) /\ asUi' = "free"
  /\ UNCHANGED <<workerVars, asService, asToken, asStopping, flagVars, asContext, asKey, asAttempt,
                 asAllowed, asProbe, recoveryVars, asIndexed, asBattle, asAsks>>

FinishSwitch ==      \* rebuild, the handler, which may raise, and start: a refresh
  /\ asUi = "switch" /\ asIndexed' = TRUE /\ asContext' = asContext + 1
  /\ asUi' \in {"free", "refresh"}
  /\ UNCHANGED <<workerVars, asService, asToken, asStopping, flagVars, asKey, asAttempt, asAllowed,
                 asProbe, recoveryVars, asBattle, asAsks>>

-----------------------------------------------------------------------------

(* The battle report *)

\* Its capture pauses a worker that runs.
BeginBattle ==
  /\ Asks /\ asBattle = "none" /\ ~asMaintenance
  /\ IF Alive(asService) THEN asUi' = "pause" /\ asRun' = Asked(asService) /\ asToken' = 0
                              /\ UNCHANGED asBattle
     ELSE asBattle' = "on" /\ UNCHANGED <<asUi, asRun, asToken>>
  /\ UNCHANGED <<asJoins, asResults, asService, asStopping, flagVars, asContext, asKey, asAttempt,
                 asAllowed, asProbe, recoveryVars, asIndexed>>

BattlePauses ==
  /\ asUi = "pause" /\ ~Alive(asService) /\ asService' = 0 /\ asBattle' = "resume"
  /\ asUi' = "free"
  /\ UNCHANGED <<workerVars, asToken, asStopping, flagVars, asContext, asKey, asAttempt, asAllowed,
                 asProbe, recoveryVars, asIndexed, asAsks>>

BattleGivesUp ==     \* TimeoutError: no capture
  /\ asUi = "pause" /\ Alive(asService) /\ asUi' = "free"
  /\ UNCHANGED <<workerVars, asService, asToken, asStopping, flagVars, asContext, asKey, asAttempt,
                 asAllowed, asProbe, recoveryVars, asIndexed, asBattle, asAsks>>

\* _restore_inventory_sync starts it past the tests of refresh.
EndBattle ==
  /\ asUi = "free" /\ asBattle # "none" /\ asBattle' = "none"
  /\ IF asBattle = "resume" /\ asAllowed /\ ~Alive(asService) /\ Unused # {}
       THEN StartService ELSE UNCHANGED <<asRun, asService, asToken>>
  /\ UNCHANGED <<asUi, asJoins, asResults, asStopping, flagVars, asContext, asKey, asAttempt,
                 asAllowed, asProbe, recoveryVars, asIndexed, asAsks>>

-----------------------------------------------------------------------------

Refresh == NoteContext \/ RefreshStarts \/ ScheduleRecovery \/ Recover \/ RefreshIdles
DeliverResult ==
  \E s \in 0..MaxServices, error \in BOOLEAN :
    Stopped(s, error) \/ \E c \in 1..MaxAsks + 1 : TornDown(s, c, error)
Waits == SwitchJoined \/ SwitchTimesOut \/ FinishSwitch \/ BattlePauses \/ BattleGivesUp

AutoSyncNext ==
  \/ Tick \/ Refresh \/ (\E s \in Services : WorkerEnds(s)) \/ JoinEnds \/ DeliverResult \/ Waits
  \/ Listens \/ RestartSync \/ CancelRestart \/ Suspend \/ ResumeSync
  \/ (\E found \in {"ready", "missing", "no game"} : ObserveProbe(found))
  \/ SetEnabled \/ ChangeMode \/ BeginSwitch \/ BeginBattle \/ EndBattle

\* The timer ticks, a slot and a wait end, a stop is joined and its result delivered.  The
\* worker is not among them: one that is asked to stop may take longer than the join.
AutoSyncSpec ==
  /\ AutoSyncInit /\ [][AutoSyncNext]_asVars
  /\ WF_asVars(Tick) /\ WF_asVars(Refresh) /\ WF_asVars(Waits)
  /\ WF_asVars(JoinEnds) /\ SF_asVars(DeliverResult)

-----------------------------------------------------------------------------
(* Properties *)

\* Types of the state.
AutoSyncTypeOK ==
  /\ asUi \in {"free", "refresh", "join", "switch", "pause"}
  /\ asRun \in [Services -> {"none", "run", "asked", "lost", "failed", "stopped"}]
  /\ asService \in 0..MaxServices /\ asToken \in 0..MaxServices /\ asStopping \in 0..MaxServices
  /\ asJoins \subseteq (0..MaxServices) \X (0..MaxAsks + 1)
  /\ asResults \subseteq (0..MaxServices) \X (0..MaxAsks + 1) \X BOOLEAN
  /\ {asStopFailed, asCancelled, asRestarting, asMaintenance, asAllowed, asDue} \subseteq BOOLEAN
  /\ asContext \in 1..MaxAsks + 1 /\ asKey \in 1..MaxAsks + 1
  /\ asAttempt \in 0..MaxAsks + 1 /\ asProbe \in 0..MaxAsks + 1
  /\ asAttempts \in 0..3 /\ asLost \in 0..MaxServices
  /\ asIndexed \in BOOLEAN /\ asBattle \in {"none", "on", "resume"}
  /\ asAsks \in 0..MaxAsks

\* Two workers never synchronise at once: whoever starts one, a refresh, a recovery, a
\* restart or a battle that ends, the one before has ended, however long its stop took.
OneWorker == \A s, t \in Services : Alive(s) /\ Alive(t) => s = t

RestartWanted ==
  /\ asRestarting /\ asAllowed /\ Ready /\ ~asStopFailed /\ ~asMaintenance
  /\ asBattle = "none" /\ Unused # {}

\* A restart that stops the old worker brings a new one, by itself, as long as it is wanted
\* and the old one lets go: no flag of the controller keeps it from starting.
ComesBack ==
  RestartWanted /\ asService # 0 /\ asStopping = asService
    ~> ~RestartWanted \/ (asService # 0 /\ asRun[asService] = "run")

\* A worker that runs is asked to stop, or ends, once the synchronisation is not allowed.
RevokedIsAsked ==
  asService # 0 /\ asRun[asService] = "run" /\ ~asAllowed
    ~> asAllowed \/ asService = 0 \/ asRun[asService] # "run" \/ asMaintenance

\* A switch of the account that is refused leaves the index and the session on one account.
SwitchIsWhole == asUi = "free" => asIndexed

\* A restart whose old session took too long starts once it has gone.
LateStopGoesOn ==
  asRestarting /\ asStopFailed /\ asAllowed /\ Ready /\ asService # 0 /\ ~Alive(asService)
    ~> ~asStopFailed \/ ~asRestarting \/ ~asAllowed \/ ~Ready
=============================================================================
