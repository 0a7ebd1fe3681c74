------------------------ MODULE NativeSessionProofs ------------------------
(***************************************************************************)
(* Proofs about NativeSession for every set of tasks, every assignment of  *)
(* their kinds and every number of account switches.                       *)
(*                                                                         *)
(* The argument: each critical section keeps IInv (ConnectStep ..          *)
(* SurroundingsStep), hence every reachable state satisfies it, and the    *)
(* safety properties are its parts or follow from them.  The flags are     *)
(* treated first and by themselves (FlagsStep).                            *)
(***************************************************************************)
EXTENDS NativeSessionInv, TLAPS

(* What happens besides the steps of tasks. *)
Surroundings ==
  \/ SwitchAccount
  \/ ChangePermission
  \/ \E c \in alive : CrashCore(c)
  \/ UNCHANGED vars

LEMMA NextCases ==
  ASSUME [Next]_vars
  PROVE  (\E t \in Tasks : Step(t)) \/ Surroundings
  BY DEF Next, Terminated, Surroundings

(* The Events and flags, and the lease a finishing session waits for. *)
Flags == <<failed, closing, closeReq, permanent, battleReq, maint, hud, perf,
           sawPermanent, allowed, lease>>

(* The steps that set one of them. *)
Flagging(t) ==
  \/ EndFinish(t) \/ ReplaceClient(t) \/ PublishClient(t)
  \/ LeaseBattle(t) \/ ShowOverlay(t) \/ HideOverlay(t) \/ AbortRefresh(t)
  \/ FailRead(t) \/ RequestBattle(t) \/ GiveUpHandoff(t)
  \/ ClearRequest(t) \/ StopCapture(t) \/ LateStop(t) \/ AbortBattle(t)
  \/ ReleaseBattle(t) \/ RequestClose(t) \/ ClosePermanently(t)
  \/ RequestExit(t) \/ BeginClose(t) \/ CloseSession(t) \/ IdleClose(t)
  \/ ReserveMaintenance(t) \/ Drain(t) \/ EndDrain(t) \/ Reopen(t)

LEMMA OthersKeepFlags ==
  ASSUME NEW t \in Tasks, Step(t)
  PROVE  Flagging(t) \/ UNCHANGED Flags
<1> USE DEF Flags
<1> USE DEF Goto, Elsewhere, Move, MoveSnap, MoveLock, coreVars, gateVars,
            leaseVars, taskVars, finishVars, envVars, gateFrame, leaseFrame,
            taskFrame, requestFrame, finishFrame
<1>1. CASE Connect(t)
  BY <1>1 DEF Flagging, Connect, GuardPerformance, EnterConnect, DenyConnect,
     RefuseConnect, ReuseClient, NeedClient, SpawnCore, AbandonClient
<1>2. CASE Connected(t)
  BY <1>2 DEF Flagging, Connected, Overlay, FailConnected, OpenInventory,
     LeaveConnect
<1>3. CASE Read(t)
  BY <1>3 DEF Flagging, Read, StartInspection, PollInventory, EnterScope,
     CancelScope, LeaveScope, WantRefresh, BeginRefresh, DeferRefresh,
     EndRefresh, LoseRefresh, EndAbort, Unrefresh, ReadPages,
     ReleaseInventory, StopInventory
<1>4. CASE Battle(t)
  BY <1>4 DEF Flagging, Battle, TakeOver, LeaveHandoff, WantBattleSnapshot,
     EndBattleSnapshot, StopBattle
<1>5. CASE Equip(t)
  BY <1>5 DEF Flagging, Equip, StartBatch, ProbeEquipment, FreezeBatch,
     RefuseBatch, RecheckBatch, SendCommand, FinishBatch, AnswerCommand,
     LoseCommand, ThawBatch
<1>6. CASE Close(t)
  BY <1>6 DEF Flagging, Close, TryIdleClose, EndIdleClose
<1>7. CASE Maintain(t)
  BY <1>7 DEF Flagging, Maintain, SuspendSync, BeginDrain, GiveUpDrain,
     EndUpdate
<1> QED
  BY <1>1, <1>2, <1>3, <1>4, <1>5, <1>6, <1>7 DEF Step, Flagging

(* They stay Boolean, and the session is closing only for the sake of a    *)
(* battle: whoever drops the lease resets the flag.                        *)
LEMMA FlaggingStep ==
  ASSUME FlagsOK, ClosingHasBattle, NEW t \in Tasks, Flagging(t)
  PROVE  FlagsOK' /\ ClosingHasBattle'
<1> USE DEF FlagsOK, ClosingHasBattle
<1> USE DEF Goto, Elsewhere, Move, MoveSnap, MoveLock, coreVars, gateVars,
            leaseVars, taskVars, finishVars, envVars, gateFrame, leaseFrame,
            taskFrame, requestFrame, finishFrame
<1>1. CASE EndFinish(t)
  BY <1>1, Zenon DEF EndFinish
<1>2. CASE ReplaceClient(t)
  BY <1>2, Zenon DEF ReplaceClient, ConnectRefused, Stale, BeginFinish
<1>3. CASE PublishClient(t)
  BY <1>3, Zenon DEF PublishClient
<1>4. CASE LeaseBattle(t)
  <2>1. FlagsOK'
    BY <1>4, Zenon DEF LeaseBattle
  <2>2. ClosingHasBattle'
    BY <1>4, TasksAssumption DEF LeaseBattle
  <2> QED
    BY <2>1, <2>2
<1>5. CASE ShowOverlay(t)
  BY <1>5, Zenon DEF ShowOverlay
<1>6. CASE HideOverlay(t)
  BY <1>6, Zenon DEF HideOverlay
<1>7. CASE AbortRefresh(t)
  BY <1>7, Zenon DEF AbortRefresh
<1>8. CASE FailRead(t)
  <2>1. FlagsOK'
    BY <1>8, Zenon DEF FailRead, BeginFinish, NoFinish
  <2>2. ClosingHasBattle'
    BY <1>8, TasksAssumption DEF FailRead, BeginFinish, NoFinish
  <2> QED
    BY <2>1, <2>2
<1>9. CASE RequestBattle(t)
  BY <1>9, Zenon DEF RequestBattle
<1>10. CASE GiveUpHandoff(t)
  BY <1>10, Zenon DEF GiveUpHandoff
<1>11. CASE ClearRequest(t)
  BY <1>11, Zenon DEF ClearRequest
<1>12. CASE StopCapture(t)
  BY <1>12, Zenon DEF StopCapture
<1>13. CASE LateStop(t)
  BY <1>13, Zenon DEF LateStop
<1>14. CASE AbortBattle(t)
  BY <1>14, Zenon DEF AbortBattle
<1>15. CASE ReleaseBattle(t)
  BY <1>15, Zenon DEF ReleaseBattle, BeginFinish, NoFinish
<1>16. CASE RequestClose(t)
  BY <1>16, Zenon DEF RequestClose
<1>17. CASE ClosePermanently(t)
  BY <1>17, Zenon DEF ClosePermanently
<1>18. CASE RequestExit(t)
  BY <1>18, Zenon DEF RequestExit
<1>19. CASE BeginClose(t)
  BY <1>19, Zenon DEF BeginClose
<1>20. CASE CloseSession(t)
  BY <1>20, Zenon DEF CloseSession, BeginFinish
<1>21. CASE IdleClose(t)
  BY <1>21, Zenon DEF IdleClose, Unused, BeginFinish, NoFinish
<1>22. CASE ReserveMaintenance(t)
  BY <1>22, Zenon DEF ReserveMaintenance, MaintenanceBlocked
<1>23. CASE Drain(t)
  BY <1>23, Zenon DEF Drain, BeginFinish, NoFinish
<1>24. CASE EndDrain(t)
  BY <1>24, Zenon DEF EndDrain
<1>25. CASE Reopen(t)
  BY <1>25, Zenon DEF Reopen
<1> QED
  BY <1>1, <1>2, <1>3, <1>4, <1>5, <1>6, <1>7, <1>8, <1>9, <1>10, <1>11,
     <1>12, <1>13, <1>14, <1>15, <1>16, <1>17, <1>18, <1>19, <1>20, <1>21,
     <1>22, <1>23, <1>24, <1>25 DEF Flagging

LEMMA FlagsStep ==
  ASSUME FlagsOK, ClosingHasBattle, [Next]_vars
  PROVE  FlagsOK' /\ ClosingHasBattle'
<1>1. CASE UNCHANGED Flags
  BY <1>1, Zenon DEF Flags, FlagsOK, ClosingHasBattle
<1>2. ASSUME NEW t \in Tasks, Step(t) PROVE FlagsOK' /\ ClosingHasBattle'
  BY <1>1, <1>2, OthersKeepFlags, FlaggingStep
<1>3. CASE ChangePermission
  BY <1>3, Zenon DEF ChangePermission, envFrame, coreVars, gateVars, finishVars,
     FlagsOK, ClosingHasBattle
<1>4. ASSUME Surroundings, ~ChangePermission PROVE UNCHANGED Flags
  BY <1>4 DEF Surroundings, SwitchAccount, CrashCore, envFrame, vars, coreVars,
     gateVars, finishVars, envVars, Flags
<1> QED
  BY <1>1, <1>2, <1>3, <1>4, NextCases

(* _connect, from its first test to the new connection. *)
LEMMA ConnectStep ==
  ASSUME IInv, FlagsOK', ClosingHasBattle', NEW t \in Tasks, Connect(t)
  PROVE  IInv'
<1> USE TasksAssumption, BoundAssumption
<1> USE DEF IInv, TypeOK, LockInv, SnapInv, KindInv, RefreshInv, CoreInv,
            BattleInv, MaintInv, WriteInv, HoldsSnap, Linking, Scoped,
            Refreshing, RefreshExcludesBattle, NoOrphanCore, Asking,
            BattleKeepsCore, Drained, Maintaining, UpdateExcludesCore,
            MaintenanceSeesWrites, Of, Readers, Connectors, OrNone, Contexts,
            LockedPcs, Pcs
<1> USE DEF Goto, Elsewhere, Move, MoveLock, coreVars, gateVars, leaseVars,
            taskVars, finishVars, envVars, taskFrame, finishFrame
<1>1. CASE GuardPerformance(t)
  BY <1>1 DEF GuardPerformance
<1>2. CASE EnterConnect(t)
  BY <1>2 DEF EnterConnect, MayConnect
<1>3. CASE DenyConnect(t)
  BY <1>3 DEF DenyConnect, MayConnect, AfterRefusal
<1>4. CASE RefuseConnect(t)
  BY <1>4 DEF RefuseConnect, ConnectRefused, Stale, AfterRefusal
<1>5. CASE ReuseClient(t)
  BY <1>5 DEF ReuseClient, ConnectRefused, Stale
<1>6. CASE ReplaceClient(t)
  BY <1>6 DEF ReplaceClient, ConnectRefused, Stale, BeginFinish
<1>7. CASE NeedClient(t)
  BY <1>7 DEF NeedClient, ConnectRefused, Stale
<1>8. CASE SpawnCore(t)
  BY <1>8 DEF SpawnCore, AfterRefusal
<1>9. CASE PublishClient(t)
  BY <1>9 DEF PublishClient
<1>10. CASE AbandonClient(t)
  BY <1>10 DEF AbandonClient, AfterRefusal
<1> QED
  BY <1>1, <1>2, <1>3, <1>4, <1>5, <1>6, <1>7, <1>8, <1>9, <1>10 DEF Connect

(* Its callers, with the connected client. *)
LEMMA ConnectedStep ==
  ASSUME IInv, FlagsOK', ClosingHasBattle', NEW t \in Tasks, Connected(t)
  PROVE  IInv'
<1> USE TasksAssumption, BoundAssumption
<1> USE DEF IInv, TypeOK, LockInv, SnapInv, KindInv, RefreshInv, CoreInv,
            BattleInv, MaintInv, WriteInv, HoldsSnap, Linking, Scoped,
            Refreshing, RefreshExcludesBattle, NoOrphanCore, Asking,
            BattleKeepsCore, Drained, Maintaining, UpdateExcludesCore,
            MaintenanceSeesWrites, Of, Readers, Connectors, OrNone, Contexts,
            LockedPcs, Pcs
<1> USE DEF Goto, Elsewhere, MoveLock, coreVars, gateVars, leaseVars, taskVars,
            finishVars, envVars
<1>1. CASE FailConnected(t)
  BY <1>1 DEF FailConnected, AfterRefusal
<1>2. CASE OpenInventory(t)
  BY <1>2 DEF OpenInventory
<1>3. CASE LeaveConnect(t)
  BY <1>3 DEF LeaveConnect
<1>4. CASE LeaseBattle(t)
  BY <1>4 DEF LeaseBattle
<1>5. CASE ShowOverlay(t)
  BY <1>5 DEF ShowOverlay
<1>6. CASE HideOverlay(t)
  BY <1>6 DEF HideOverlay
<1> QED
  BY <1>1, <1>2, <1>3, <1>4, <1>5, <1>6 DEF Connected, Overlay

(* Snapshot scopes, refreshes and reads. *)
LEMMA ReadStep ==
  ASSUME IInv, FlagsOK', ClosingHasBattle', NEW t \in Tasks, Read(t)
  PROVE  IInv'
<1> USE TasksAssumption, BoundAssumption
<1> USE DEF IInv, TypeOK, LockInv, SnapInv, KindInv, RefreshInv, CoreInv,
            BattleInv, MaintInv, WriteInv, HoldsSnap, Linking, Scoped,
            Refreshing, RefreshExcludesBattle, NoOrphanCore, Asking,
            BattleKeepsCore, Drained, Maintaining, UpdateExcludesCore,
            MaintenanceSeesWrites, Of, Readers, Connectors, OrNone, Contexts,
            LockedPcs, Pcs
<1> USE DEF Goto, Elsewhere, Move, MoveSnap, coreVars, gateVars, leaseVars,
            taskVars, finishVars, envVars, gateFrame, leaseFrame, finishFrame
<1>1. CASE StartInspection(t)
  BY <1>1 DEF StartInspection
<1>2. CASE PollInventory(t)
  BY <1>2 DEF PollInventory
<1>3. CASE EnterScope(t)
  BY <1>3 DEF EnterScope, CanCheck, CheckOk, InventoryOk, ProjectionOk,
     Priority, ContextMatches, InspectionOk, BattleWorkOk, InScope
<1>4. CASE CancelScope(t)
  BY <1>4 DEF CancelScope, AfterCancel
<1>5. CASE LeaveScope(t)
  BY <1>5 DEF LeaveScope
<1>6. CASE WantRefresh(t)
  BY <1>6 DEF WantRefresh
<1>7. CASE BeginRefresh(t)
  BY <1>7 DEF BeginRefresh, AtRefresh, CheckOk, InventoryOk, ProjectionOk,
     Priority, ContextMatches, InspectionOk, BattleWorkOk
<1>8. CASE DeferRefresh(t)
  BY <1>8 DEF DeferRefresh, AtRefresh
<1>9. CASE EndRefresh(t)
  BY <1>9 DEF EndRefresh, DropToken
<1>10. CASE AbortRefresh(t)
  BY <1>10 DEF AbortRefresh
<1>11. CASE LoseRefresh(t)
  BY <1>11 DEF LoseRefresh
<1>12. CASE EndAbort(t)
  BY <1>12 DEF EndAbort
<1>13. CASE Unrefresh(t)
  BY <1>13 DEF Unrefresh, DropToken
<1>14. CASE ReadPages(t)
  BY <1>14 DEF ReadPages
<1>15. CASE FailRead(t)
  BY <1>15 DEF FailRead, BeginFinish, NoFinish
<1>16. CASE ReleaseInventory(t)
  BY <1>16 DEF ReleaseInventory
<1>17. CASE StopInventory(t)
  BY <1>17 DEF StopInventory
<1> QED
  BY <1>1, <1>2, <1>3, <1>4, <1>5, <1>6, <1>7, <1>8, <1>9, <1>10, <1>11, <1>12,
     <1>13, <1>14, <1>15, <1>16, <1>17 DEF Read

(* The handoff to a battle and the life of its lease. *)
LEMMA BattleStep ==
  ASSUME IInv, FlagsOK', ClosingHasBattle', NEW t \in Tasks, Battle(t)
  PROVE  IInv'
<1> USE TasksAssumption, BoundAssumption
<1> USE DEF IInv, TypeOK, LockInv, SnapInv, KindInv, RefreshInv, CoreInv,
            BattleInv, MaintInv, WriteInv, HoldsSnap, Linking, Scoped,
            Refreshing, RefreshExcludesBattle, NoOrphanCore, Asking,
            BattleKeepsCore, Drained, Maintaining, UpdateExcludesCore,
            MaintenanceSeesWrites, Of, Readers, Connectors, OrNone, Contexts,
            LockedPcs, Pcs
<1> USE DEF Goto, Elsewhere, Move, MoveSnap, coreVars, gateVars, leaseVars,
            taskVars, finishVars, envVars, gateFrame
<1>1. CASE RequestBattle(t)
  BY <1>1 DEF RequestBattle
<1>2. CASE TakeOver(t)
  BY <1>2 DEF TakeOver
<1>3. CASE GiveUpHandoff(t)
  BY <1>3 DEF GiveUpHandoff
<1>4. CASE ClearRequest(t)
  BY <1>4 DEF ClearRequest
<1>5. CASE LeaveHandoff(t)
  BY <1>5 DEF LeaveHandoff
<1>6. CASE WantBattleSnapshot(t)
  BY <1>6 DEF WantBattleSnapshot
<1>7. CASE EndBattleSnapshot(t)
  BY <1>7 DEF EndBattleSnapshot
<1>8. CASE StopBattle(t)
  BY <1>8 DEF StopBattle
<1>9. CASE StopCapture(t)
  BY <1>9 DEF StopCapture
<1>10. CASE LateStop(t)
  BY <1>10 DEF LateStop
<1>11. CASE AbortBattle(t)
  BY <1>11 DEF AbortBattle
<1>12. CASE ReleaseBattle(t)
  BY <1>12 DEF ReleaseBattle, BeginFinish, NoFinish
<1> QED
  BY <1>1, <1>2, <1>3, <1>4, <1>5, <1>6, <1>7, <1>8, <1>9, <1>10, <1>11, <1>12 DEF Battle

(* Equipment batches. *)
LEMMA EquipStep ==
  ASSUME IInv, FlagsOK', ClosingHasBattle', NEW t \in Tasks, Equip(t)
  PROVE  IInv'
<1> USE TasksAssumption, BoundAssumption
<1> USE DEF IInv, TypeOK, LockInv, SnapInv, KindInv, RefreshInv, CoreInv,
            BattleInv, MaintInv, WriteInv, HoldsSnap, Linking, Scoped,
            Refreshing, RefreshExcludesBattle, NoOrphanCore, Asking,
            BattleKeepsCore, Drained, Maintaining, UpdateExcludesCore,
            MaintenanceSeesWrites, Of, Readers, Connectors, OrNone, Contexts,
            LockedPcs, Pcs
<1> USE DEF Goto, Elsewhere, Move, coreVars, gateVars, leaseVars, taskVars,
            finishVars, envVars, leaseFrame, taskFrame
<1>1. CASE StartBatch(t)
  BY <1>1 DEF StartBatch
<1>2. CASE ProbeEquipment(t)
  BY <1>2 DEF ProbeEquipment
<1>3. CASE FreezeBatch(t)
  BY <1>3 DEF FreezeBatch
<1>4. CASE RefuseBatch(t)
  BY <1>4 DEF RefuseBatch
<1>5. CASE RecheckBatch(t)
  BY <1>5 DEF RecheckBatch, CheckOk, InventoryOk, ProjectionOk, Priority,
     ContextMatches, InspectionOk, BattleWorkOk
<1>6. CASE SendCommand(t)
  BY <1>6 DEF SendCommand, CheckOk, InventoryOk, ProjectionOk, Priority,
     ContextMatches, InspectionOk, BattleWorkOk
<1>7. CASE FinishBatch(t)
  BY <1>7 DEF FinishBatch
<1>8. CASE AnswerCommand(t)
  BY <1>8 DEF AnswerCommand
<1>9. CASE LoseCommand(t)
  BY <1>9 DEF LoseCommand
<1>10. CASE ThawBatch(t)
  BY <1>10 DEF ThawBatch
<1> QED
  BY <1>1, <1>2, <1>3, <1>4, <1>5, <1>6, <1>7, <1>8, <1>9, <1>10 DEF Equip

(* Closing. *)
LEMMA CloseStep ==
  ASSUME IInv, FlagsOK', ClosingHasBattle', NEW t \in Tasks, Close(t)
  PROVE  IInv'
<1> USE TasksAssumption, BoundAssumption
<1> USE DEF IInv, TypeOK, LockInv, SnapInv, KindInv, RefreshInv, CoreInv,
            BattleInv, MaintInv, WriteInv, HoldsSnap, Linking, Scoped,
            Refreshing, RefreshExcludesBattle, NoOrphanCore, Asking,
            BattleKeepsCore, Drained, Maintaining, UpdateExcludesCore,
            MaintenanceSeesWrites, Of, Readers, Connectors, OrNone, Contexts,
            LockedPcs, Pcs
<1> USE DEF Goto, Elsewhere, MoveSnap, coreVars, gateVars, leaseVars, taskVars,
            finishVars, envVars, requestFrame, finishFrame
<1>1. CASE RequestClose(t)
  BY <1>1 DEF RequestClose
<1>2. CASE ClosePermanently(t)
  BY <1>2 DEF ClosePermanently
<1>3. CASE RequestExit(t)
  BY <1>3 DEF RequestExit
<1>4. CASE BeginClose(t)
  BY <1>4 DEF BeginClose
<1>5. CASE CloseSession(t)
  BY <1>5 DEF CloseSession, BeginFinish
<1>6. CASE TryIdleClose(t)
  BY <1>6 DEF TryIdleClose
<1>7. CASE IdleClose(t)
  BY <1>7 DEF IdleClose, Unused, BeginFinish, NoFinish
<1>8. CASE EndIdleClose(t)
  BY <1>8 DEF EndIdleClose
<1> QED
  BY <1>1, <1>2, <1>3, <1>4, <1>5, <1>6, <1>7, <1>8 DEF Close

(* The maintenance gate. *)
LEMMA MaintainStep ==
  ASSUME IInv, FlagsOK', ClosingHasBattle', NEW t \in Tasks, Maintain(t)
  PROVE  IInv'
<1> USE TasksAssumption, BoundAssumption
<1> USE DEF IInv, TypeOK, LockInv, SnapInv, KindInv, RefreshInv, CoreInv,
            BattleInv, MaintInv, WriteInv, HoldsSnap, Linking, Scoped,
            Refreshing, RefreshExcludesBattle, NoOrphanCore, Asking,
            BattleKeepsCore, Drained, Maintaining, UpdateExcludesCore,
            MaintenanceSeesWrites, Of, Readers, Connectors, OrNone, Contexts,
            LockedPcs, Pcs
<1> USE DEF Goto, Elsewhere, Move, MoveSnap, coreVars, gateVars, leaseVars,
            taskVars, finishVars, envVars, gateFrame, leaseFrame, finishFrame
<1>1. CASE ReserveMaintenance(t)
  BY <1>1 DEF ReserveMaintenance, MaintenanceBlocked
<1>2. CASE SuspendSync(t)
  BY <1>2 DEF SuspendSync
<1>3. CASE BeginDrain(t)
  BY <1>3 DEF BeginDrain
<1>4. CASE GiveUpDrain(t)
  BY <1>4 DEF GiveUpDrain
<1>5. CASE Drain(t)
  BY <1>5 DEF Drain, BeginFinish, NoFinish
<1>6. CASE EndDrain(t)
  BY <1>6 DEF EndDrain
<1>7. CASE EndUpdate(t)
  BY <1>7 DEF EndUpdate
<1>8. CASE Reopen(t)
  BY <1>8 DEF Reopen
<1> QED
  BY <1>1, <1>2, <1>3, <1>4, <1>5, <1>6, <1>7, <1>8 DEF Maintain


(* The end of _finish_close: the Core that was taken out is closed. *)
LEMMA FinishStep ==
  ASSUME IInv, FlagsOK', ClosingHasBattle', NEW t \in Tasks, EndFinish(t)
  PROVE  IInv'
<1> USE TasksAssumption, BoundAssumption
<1> USE DEF IInv, TypeOK, LockInv, SnapInv, KindInv, RefreshInv, CoreInv,
            BattleInv, MaintInv, WriteInv, HoldsSnap, Linking, Scoped,
            Refreshing, RefreshExcludesBattle, NoOrphanCore, Asking,
            BattleKeepsCore, Drained, Maintaining, UpdateExcludesCore,
            MaintenanceSeesWrites, Of, Readers, Connectors, OrNone, Contexts,
            LockedPcs, Pcs
<1> QED
  BY DEF EndFinish, Goto, coreVars, gateVars, leaseVars, taskVars, finishVars, envVars

(* The account, the work mode, a crash of the Core. *)
LEMMA SurroundingsStep ==
  ASSUME IInv, FlagsOK', ClosingHasBattle', Surroundings
  PROVE  IInv'
<1> USE TasksAssumption, BoundAssumption
<1> USE DEF IInv, TypeOK, LockInv, SnapInv, KindInv, RefreshInv, CoreInv,
            BattleInv, MaintInv, WriteInv, HoldsSnap, Linking, Scoped,
            Refreshing, RefreshExcludesBattle, NoOrphanCore, Asking,
            BattleKeepsCore, Drained, Maintaining, UpdateExcludesCore,
            MaintenanceSeesWrites, Of, Readers, Connectors, OrNone, Contexts,
            LockedPcs, Pcs
<1> USE DEF coreVars, gateVars, leaseVars, taskVars, finishVars, envVars, envFrame
<1>1. CASE SwitchAccount
  BY <1>1 DEF SwitchAccount
<1>2. CASE ChangePermission
  BY <1>2 DEF ChangePermission
<1>3. ASSUME NEW c \in alive, CrashCore(c) PROVE IInv'
  BY <1>3 DEF CrashCore
<1>4. CASE UNCHANGED vars
  BY <1>4 DEF vars
<1> QED
  BY <1>1, <1>2, <1>3, <1>4 DEF Surroundings

LEMMA InitInv == Init => IInv
<1> USE TasksAssumption, BoundAssumption DEF Init
<1> SUFFICES ASSUME Init PROVE IInv
  OBVIOUS
<1>1. FlagsOK /\ ClosingHasBattle
  BY DEF FlagsOK, ClosingHasBattle
<1>2. TypeOK
  BY <1>1 DEF TypeOK, OrNone, Contexts, Pcs
<1>3. LockInv /\ SnapInv /\ KindInv
  BY DEF LockInv, LockedPcs, SnapInv, HoldsSnap, Scoped, Linking, KindInv
<1>4. RefreshInv /\ CoreInv
  BY DEF RefreshInv, Refreshing, RefreshExcludesBattle, CoreInv, NoOrphanCore
<1>5. BattleInv /\ MaintInv /\ WriteInv
  BY DEF BattleInv, Asking, Linking, BattleKeepsCore, MaintInv, Maintaining,
     Drained, Of, UpdateExcludesCore, WriteInv, MaintenanceSeesWrites
<1> QED
  BY <1>1, <1>2, <1>3, <1>4, <1>5 DEF IInv

LEMMA Inductive == IInv /\ [Next]_vars => IInv'
<1> SUFFICES ASSUME IInv, [Next]_vars PROVE IInv'
  OBVIOUS
<1>1. FlagsOK' /\ ClosingHasBattle'
  BY FlagsStep DEF IInv, TypeOK
<1>2. ASSUME NEW t \in Tasks, Step(t) PROVE IInv'
  BY <1>1, <1>2, FinishStep, ConnectStep, ConnectedStep, ReadStep, BattleStep,
     EquipStep, CloseStep, MaintainStep DEF Step
<1>3. CASE Surroundings
  BY <1>1, <1>3, SurroundingsStep
<1> QED
  BY <1>2, <1>3, NextCases

-----------------------------------------------------------------------------
(* Every reachable state of the session satisfies the inductive invariant: *)
(* the locks, tokens and leases are where the threads believe them to be.  *)
THEOREM Invariance == Spec => []IInv
  BY InitInv, Inductive, PTL DEF Spec

(* The variables of the session keep their types: _refresh_active is a     *)
(* token or None, _inventory_lease and _battle_lease name their owners.    *)
THEOREM TypeCorrect == Spec => []TypeOK
<1>1. IInv => TypeOK
  BY DEF IInv
<1> QED
  BY <1>1, Invariance, PTL

(* Two Cores never run at once, and none is left running without an owner. *)
LEMMA CoresFollow == IInv => AtMostOneCore /\ NoOrphanCore
<1> SUFFICES ASSUME IInv PROVE AtMostOneCore /\ NoOrphanCore
  OBVIOUS
<1>1. NoOrphanCore
  BY DEF IInv, CoreInv
<1>2. ASSUME NEW c \in alive, NEW d \in alive PROVE c = d
  <2>0. c \in Tasks /\ d \in Tasks /\ c # None /\ d # None
    BY TasksAssumption DEF IInv, TypeOK
  <2>1. ASSUME NEW t \in Tasks, pc[t] = "spawning" PROVE lock = t
    BY <2>1 DEF IInv, LockInv, LockedPcs
  <2> QED
    BY <1>1, <2>0, <2>1 DEF IInv, CoreInv, NoOrphanCore
<1> QED
  BY <1>1, <1>2 DEF AtMostOneCore

(* The application never runs two Cores at once (_connect against the      *)
(* aborts that happen outside _lock).                                      *)
THEOREM OneCore == Spec => []AtMostOneCore
  BY CoresFollow, Invariance, PTL

(* No Core is left running without a thread that will close it: the        *)
(* except clauses of _connect and the finally clauses of the aborts.       *)
THEOREM NoCoreLeaks == Spec => []NoOrphanCore
  BY CoresFollow, Invariance, PTL

(* A battle keeps its Core (_battle_lease in _connect, _refresh_snapshot   *)
(* and _recover_failed_client).                                            *)
THEOREM BattleSafe == Spec => []BattleKeepsCore
<1>1. IInv => BattleKeepsCore
  BY DEF IInv, BattleInv
<1> QED
  BY <1>1, Invariance, PTL

(* No refresh of the snapshot runs beside a battle (battle_client and      *)
(* _refresh_snapshot).                                                     *)
THEOREM RefreshSafe == Spec => []RefreshExcludesBattle
<1>1. IInv => RefreshExcludesBattle
  BY DEF IInv, RefreshInv
<1> QED
  BY <1>1, Invariance, PTL

(* A session that is finishing waits for a battle (close, _release_battle).*)
THEOREM ClosingSafe == Spec => []ClosingHasBattle
<1>1. IInv => ClosingHasBattle
  BY DEF IInv
<1> QED
  BY <1>1, Invariance, PTL

(* The plugin files are replaced only while no Core runs and no equipment  *)
(* command is under way (NativeSessionMaintenance).                        *)
THEOREM UpdateSafe == Spec => []UpdateExcludesCore
<1>1. IInv => UpdateExcludesCore
  BY DEF IInv, MaintInv
<1> QED
  BY <1>1, Invariance, PTL

(* An update is not reserved across a command of the lease that holds the  *)
(* session (NativeSessionMaintenance.__init__).                            *)
THEOREM ReservationSafe == Spec => []MaintenanceSeesWrites
<1>1. IInv => MaintenanceSeesWrites
  BY DEF IInv, WriteInv
<1> QED
  BY <1>1, Invariance, PTL

(* close_if_idle never closes a Core under a read, a refresh or a battle's *)
(* snapshot: they are inside the scope it has entered itself.              *)
THEOREM IdleCloseSafe == Spec => []IdleCloseSparesReads
<1>1. IInv => IdleCloseSparesReads
  <2> SUFFICES ASSUME IInv,
                      NEW k \in Of("idleClose"), NEW t \in Tasks,
                      pc[k] = "finishing",
                      pc[t] \in {"reading", "wanted", "refreshing", "paging",
                                 "battleRead"}
               PROVE  FALSE
    BY DEF IdleCloseSparesReads
  <2>1. HoldsSnap(k) /\ HoldsSnap(t)
    BY DEF IInv, KindInv, HoldsSnap, Scoped, Of
  <2>2. snap = k /\ snap = t
    BY <2>1 DEF IInv, SnapInv, Of
  <2> QED
    BY <2>2
<1> QED
  BY <1>1, Invariance, PTL


(* The only step that withdraws a close request is the end of a teardown   *)
(* (_finish_close), which leaves neither a Core nor a battle behind: no    *)
(* request is lost while there is something to close.                      *)
THEOREM CloseRequestKept == Spec => CloseRequestConsumed
<1>1. ASSUME IInv, [Next]_vars, closeReq, ~closeReq'
      PROVE  client' = None /\ lease' = None
  <2>1. ASSUME NEW t \in Tasks, Flagging(t)
        PROVE  EndFinish(t)
    BY <1>1, <2>1, Zenon DEF Flagging, ReplaceClient, PublishClient,
       LeaseBattle,
       ShowOverlay, HideOverlay, AbortRefresh, FailRead, RequestBattle,
       GiveUpHandoff, ClearRequest, StopCapture, LateStop, AbortBattle,
       ReleaseBattle, RequestClose, ClosePermanently, RequestExit, BeginClose,
       CloseSession, IdleClose, ReserveMaintenance, Drain, EndDrain, Reopen,
       BeginFinish, NoFinish, Goto, coreVars, gateFrame, finishFrame
  <2>2. UNCHANGED Flags => FALSE
    BY <1>1 DEF Flags
  <2>3. ASSUME NEW t \in Tasks, EndFinish(t)
        PROVE  client' = None /\ lease' = None
    BY <1>1, <2>3 DEF EndFinish, gateVars, IInv, CoreInv
  <2>4. Surroundings => FALSE
    BY <1>1 DEF Surroundings, SwitchAccount, ChangePermission, CrashCore,
       envFrame, vars, coreVars
  <2> QED
    BY <1>1, <2>1, <2>2, <2>3, <2>4, NextCases, OthersKeepFlags
<1> QED
  BY <1>1, Invariance, PTL DEF Spec, CloseRequestConsumed

-----------------------------------------------------------------------------
(* The refinement: each step of the session starts, stops or crashes the   *)
(* Core, gives it to a user or takes it away, or does none of these.       *)

(* The steps that concern the Core or its user. *)
Owning(t) ==
  \/ SpawnCore(t) \/ EndFinish(t) \/ EndAbort(t) \/ AbandonClient(t)
  \/ LeaseBattle(t) \/ BeginRefresh(t) \/ EndDrain(t)
  \/ ReleaseBattle(t) \/ AbortBattle(t) \/ EndRefresh(t) \/ Unrefresh(t)
  \/ EndUpdate(t)

Owned == <<alive, crashed, lease, refresh, aborted>>

(* Any other step leaves them alone ... *)
LEMMA OthersKeepOwner ==
  ASSUME NEW t \in Tasks, Step(t)
  PROVE  Owning(t) \/ UNCHANGED Owned
<1> USE DEF Owned
<1> USE DEF Goto, Elsewhere, Move, MoveSnap, MoveLock, coreVars, gateVars,
            leaseVars, taskVars, finishVars, envVars, gateFrame, leaseFrame,
            taskFrame, requestFrame, finishFrame
<1>1. CASE Connect(t)
  BY <1>1 DEF Owning, Connect, GuardPerformance, EnterConnect, DenyConnect,
     RefuseConnect, ReuseClient, ReplaceClient, BeginFinish, NeedClient,
     PublishClient
<1>2. CASE Connected(t)
  BY <1>2 DEF Owning, Connected, Overlay, FailConnected, OpenInventory,
     LeaveConnect, ShowOverlay, HideOverlay
<1>3. CASE Read(t)
  BY <1>3 DEF Owning, Read, StartInspection, PollInventory, EnterScope,
     CancelScope, LeaveScope, WantRefresh, DeferRefresh, AbortRefresh,
     LoseRefresh, ReadPages, FailRead, BeginFinish, NoFinish,
     ReleaseInventory, StopInventory
<1>4. CASE Battle(t)
  BY <1>4 DEF Owning, Battle, RequestBattle, TakeOver, GiveUpHandoff,
     ClearRequest, LeaveHandoff, WantBattleSnapshot, EndBattleSnapshot,
     StopBattle, StopCapture, LateStop
<1>5. CASE Equip(t)
  BY <1>5 DEF Owning, Equip, StartBatch, ProbeEquipment, FreezeBatch,
     RefuseBatch, RecheckBatch, SendCommand, FinishBatch, AnswerCommand,
     LoseCommand, ThawBatch
<1>6. CASE Close(t)
  BY <1>6 DEF Owning, Close, RequestClose, ClosePermanently, RequestExit,
     BeginClose, CloseSession, BeginFinish, TryIdleClose, IdleClose, NoFinish,
     EndIdleClose
<1>7. CASE Maintain(t)
  BY <1>7 DEF Owning, Maintain, ReserveMaintenance, SuspendSync, BeginDrain,
     GiveUpDrain, Drain, BeginFinish, NoFinish, Reopen
<1> QED
  BY <1>1, <1>2, <1>3, <1>4, <1>5, <1>6, <1>7 DEF Step, Owning

(* ... and neither begins nor ends an update. *)
Shut == {"updating", "uncertain"}

LEMMA OthersKeepShut ==
  ASSUME TypeOK, NEW t \in Tasks, Step(t), ~Owning(t)
  PROVE  \/ pc' = pc
         \/ /\ pc[t] \notin Shut /\ pc'[t] \notin Shut
            /\ \A u \in Tasks \ {t} : pc'[u] = pc[u]
<1> USE DEF TypeOK, Pcs, LockedPcs, Shut
<1> USE DEF Goto, Elsewhere, Move, MoveSnap, MoveLock, coreVars, gateVars,
            leaseVars, taskVars, finishVars, envVars, gateFrame, leaseFrame,
            taskFrame, requestFrame, finishFrame
<1>1. CASE Connect(t)
  BY <1>1 DEF Owning, Connect, GuardPerformance, EnterConnect, MayConnect,
     DenyConnect, AfterRefusal, RefuseConnect, ReuseClient, ReplaceClient,
     BeginFinish, NeedClient, PublishClient
<1>2. CASE Connected(t)
  BY <1>2 DEF Owning, Connected, Overlay, FailConnected, AfterRefusal,
     OpenInventory, LeaveConnect, ShowOverlay, HideOverlay
<1>3. CASE Read(t)
  BY <1>3 DEF Owning, Read, StartInspection, PollInventory, EnterScope,
     InScope, CancelScope, AfterCancel, LeaveScope, WantRefresh, DeferRefresh,
     AtRefresh, AbortRefresh, LoseRefresh, ReadPages, FailRead, BeginFinish,
     NoFinish, ReleaseInventory, StopInventory
<1>4. CASE Battle(t)
  BY <1>4 DEF Owning, Battle, RequestBattle, TakeOver, GiveUpHandoff,
     ClearRequest, LeaveHandoff, WantBattleSnapshot, EndBattleSnapshot,
     StopBattle, StopCapture, LateStop
<1>5. CASE Equip(t)
  BY <1>5 DEF Owning, Equip, StartBatch, ProbeEquipment, FreezeBatch,
     RefuseBatch, RecheckBatch, SendCommand, FinishBatch, AnswerCommand,
     LoseCommand, ThawBatch
<1>6. CASE Close(t)
  BY <1>6 DEF Owning, Close, RequestClose, ClosePermanently, RequestExit,
     BeginClose, CloseSession, BeginFinish, TryIdleClose, IdleClose, NoFinish,
     EndIdleClose
<1>7. CASE Maintain(t)
  BY <1>7 DEF Owning, Maintain, ReserveMaintenance, SuspendSync, BeginDrain,
     GiveUpDrain, Drain, BeginFinish, NoFinish, Reopen
<1> QED
  BY <1>1, <1>2, <1>3, <1>4, <1>5, <1>6, <1>7 DEF Step, Owning


(* Any other step leaves the Core and its user alone. *)
LEMMA OthersStutter ==
  ASSUME TypeOK, NEW t \in Tasks, Step(t), ~Owning(t)
  PROVE  UNCHANGED <<RunningCore, crashed, CoreUser>>
<1>1. UNCHANGED Owned
  BY OthersKeepOwner
<1>2. Updating' = Updating
  BY OthersKeepShut DEF Updating, Of, Shut
<1> QED
  BY <1>1, <1>2 DEF Owned, RunningCore, CoreUser

(* What the mapping amounts to in the states of the invariant. *)
CoreIs ==
  /\ alive = {} => RunningCore = None
  /\ \A c \in alive : alive = {c} /\ RunningCore = c /\ c # None

UsersExclude ==
  /\ lease # None => refresh = None /\ ~Updating
  /\ refresh # None => ~Updating
  /\ Updating => alive = {}

LEMMA Mapping == IInv => CoreIs /\ UsersExclude
<1> SUFFICES ASSUME IInv PROVE CoreIs /\ UsersExclude
  OBVIOUS
<1>1. CoreIs
  BY CoresFollow, TasksAssumption DEF CoreIs, RunningCore, AtMostOneCore, IInv, TypeOK
<1>2. UsersExclude
  BY TasksAssumption DEF UsersExclude, IInv, TypeOK, MaintInv, Maintaining, Drained,
     Updating, RefreshInv, RefreshExcludesBattle, UpdateExcludesCore, Of
<1> QED
  BY <1>1, <1>2

LEMMA MappingNext == IInv' => CoreIs' /\ UsersExclude'
  BY Mapping, PTL

AbstractStep == [Ownership!Next]_<<RunningCore, crashed, CoreUser>>

(* The steps that start, stop or lose a Core leave its user alone, ... *)
LEMMA CoreStep ==
  ASSUME IInv, CoreIs, CoreIs', UsersExclude, NEW t \in Tasks,
         SpawnCore(t) \/ EndFinish(t) \/ EndAbort(t) \/ AbandonClient(t)
  PROVE  AbstractStep
<1> USE TasksAssumption
<1> USE DEF IInv, TypeOK, Pcs, LockedPcs, CoreIs, AbstractStep, Ownership!Next,
            CoreUser, Goto, coreVars, gateVars, leaseVars, envVars
<1>1. CASE SpawnCore(t)
  <2>1. Updating' = Updating /\ ~Updating
    BY <1>1 DEF SpawnCore, AfterRefusal, Updating, Of, MaintInv, Maintaining, Drained
  <2>2. alive = {}
    BY <1>1 DEF SpawnCore, CoreInv, NoOrphanCore, LockInv
  <2>3. lease = None
    BY <1>1 DEF SpawnCore, CoreInv
  <2> QED
    BY <1>1, <2>1, <2>2, <2>3 DEF SpawnCore, Ownership!Start
<1>2. CASE EndFinish(t)
  <2>1. Updating' = Updating
    BY <1>2 DEF EndFinish, LockInv, Updating, Of
  <2>2. lease = None
    BY <1>2 DEF EndFinish, CoreInv
  <2> QED
    BY <1>2, <2>1, <2>2 DEF EndFinish, Ownership!Stop
<1>3. CASE EndAbort(t)
  <2>1. Updating' = Updating
    BY <1>3 DEF EndAbort, Updating, Of
  <2>2. popped[t] \in alive => lease = None \/ lease \in aborted
    BY <1>3 DEF EndAbort, CoreInv, BattleInv, BattleKeepsCore
  <2> QED
    BY <1>3, <2>1, <2>2 DEF EndAbort, Ownership!Stop
<1>4. CASE AbandonClient(t)
  <2>1. Updating' = Updating
    BY <1>4 DEF AbandonClient, AfterRefusal, Updating, Of
  <2>2. lease = None
    BY <1>4 DEF AbandonClient, CoreInv
  <2> QED
    BY <1>4, <2>1, <2>2 DEF AbandonClient, Ownership!Stop
<1> QED
  BY <1>1, <1>2, <1>3, <1>4

(* ... and those that give it to a user or take it away leave it running.  *)
LEMMA UserStep ==
  ASSUME IInv, CoreIs, UsersExclude, UsersExclude', NEW t \in Tasks,
         \/ LeaseBattle(t) \/ BeginRefresh(t) \/ EndDrain(t)
         \/ ReleaseBattle(t) \/ AbortBattle(t) \/ EndRefresh(t)
         \/ Unrefresh(t) \/ EndUpdate(t)
  PROVE  AbstractStep
<1> USE TasksAssumption
<1> USE DEF IInv, TypeOK, Pcs, LockedPcs, CoreIs, UsersExclude, AbstractStep,
            Ownership!Next, Ownership!Users, CoreUser, Goto, Elsewhere, Move,
            coreVars, gateVars, leaseVars, envVars, gateFrame
<1>0. alive' = alive => RunningCore' = RunningCore
  BY DEF RunningCore
<1>1. CASE LeaseBattle(t)
  BY <1>0, <1>1 DEF LeaseBattle, Ownership!Take, BattleInv, Asking, Linking,
     Updating, Of
<1>2. CASE BeginRefresh(t)
  <2>1. refresh' # None /\ lease' = lease /\ lease = None
    BY <1>2 DEF BeginRefresh
  <2>2. ~Updating' /\ (Updating => Updating')
    BY <1>2, <2>1 DEF BeginRefresh, AtRefresh, Updating, Of
  <2> QED
    BY <1>0, <1>2, <2>1, <2>2 DEF BeginRefresh, Ownership!Take
<1>3. CASE EndDrain(t)
  BY <1>0, <1>3 DEF EndDrain, Ownership!Take, Updating, Of
<1>4. CASE ReleaseBattle(t)
  BY <1>0, <1>4 DEF ReleaseBattle, BeginFinish, NoFinish, Ownership!Drop, Updating, Of
<1>5. CASE AbortBattle(t)
  BY <1>0, <1>5 DEF AbortBattle, Ownership!Drop, Updating, Of
<1>6. CASE EndRefresh(t)
  BY <1>0, <1>6 DEF EndRefresh, DropToken, Ownership!Drop, Updating, Of
<1>7. CASE Unrefresh(t)
  BY <1>0, <1>7 DEF Unrefresh, DropToken, Ownership!Drop, Updating, Of
<1>8. CASE EndUpdate(t)
  BY <1>0, <1>8 DEF EndUpdate, Ownership!Drop, Updating, Of
<1> QED
  BY <1>1, <1>2, <1>3, <1>4, <1>5, <1>6, <1>7, <1>8

LEMMA SurroundingsSimulated ==
  ASSUME CoreIs, CoreIs', Surroundings
  PROVE  AbstractStep
<1> USE DEF AbstractStep, Ownership!Next, coreVars, gateVars, leaseVars, envFrame
<1>1. UNCHANGED <<lease, refresh, aborted, pc>>
  BY DEF Surroundings, SwitchAccount, ChangePermission, CrashCore, vars
<1>2. CoreUser' = CoreUser
  BY <1>1 DEF CoreUser, Updating
<1>3. ASSUME NEW c \in alive, CrashCore(c) PROVE AbstractStep
  BY <1>2, <1>3 DEF CrashCore, CoreIs, Ownership!Crash
<1>4. CASE UNCHANGED <<alive, crashed>>
  BY <1>2, <1>4 DEF RunningCore
<1> QED
  BY <1>3, <1>4 DEF Surroundings, SwitchAccount, ChangePermission, vars, envVars

LEMMA StepSimulated == IInv /\ IInv' /\ [Next]_vars => AbstractStep
<1> SUFFICES ASSUME IInv /\ IInv' /\ [Next]_vars PROVE AbstractStep
  OBVIOUS
<1>1. CoreIs /\ UsersExclude /\ CoreIs' /\ UsersExclude'
  BY Mapping, MappingNext
<1>2. ASSUME NEW t \in Tasks, Step(t) PROVE AbstractStep
  <2>1. CASE Owning(t)
    BY <1>1, <2>1, CoreStep, UserStep DEF Owning
  <2>2. CASE ~Owning(t)
    BY <1>2, <2>2, OthersStutter DEF IInv, AbstractStep
  <2> QED
    BY <2>1, <2>2
<1> QED
  BY <1>1, <1>2, NextCases, SurroundingsSimulated

(* NativeGameSession implements CoreOwnership: for any number of threads,  *)
(* crashes and account switches, one Core at a time has one exclusive user *)
(* at a time, and only a crash takes it from a battle.                     *)
THEOREM Refinement == Spec => ImplementsOwnership
<1>1. Init => Ownership!Init
  BY DEF Init, Ownership!Init, RunningCore, CoreUser, Updating, Of
<1>2. IInv /\ IInv' /\ [Next]_vars =>
        [Ownership!Next]_<<RunningCore, crashed, CoreUser>>
  BY StepSimulated DEF AbstractStep
<1> QED
  BY <1>1, <1>2, Invariance, PTL DEF Spec, ImplementsOwnership, Ownership!Spec
=============================================================================
