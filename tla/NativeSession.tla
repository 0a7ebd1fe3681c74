---------------------------- MODULE NativeSession ----------------------------
(***************************************************************************)
(* The ownership protocol of the native game session                       *)
(* (services/native_game_session.py and the modules it is split into).     *)
(*                                                                         *)
(* One NativeGameSession owns at most one Core subprocess (NteCoreClient)  *)
(* and shares it between worker threads that run concurrently: inventory   *)
(* synchronisation, character reads, the observer's inspections, battle    *)
(* captures, equipment batches, overlays, the plugin update worker and     *)
(* whoever closes the session.  Every piece of work is a one-shot task:    *)
(* a thread that runs one call of the session (or one lease, from its      *)
(* creation to its release) and ends.  A Core is named by the task whose   *)
(* _connect started it, since a task connects at most once.                *)
(*                                                                         *)
(* Atomicity.  A critical section of _lock is one step, except the two in  *)
(* which the code waits or reads an Event that others set without the      *)
(* lock: _connect (Starting .. Connected) and _finish_close (Finishing),   *)
(* which hold `lock` over several steps.  Reads and writes of the Events,  *)
(* of the account context and of the lease flags are steps of their own.   *)
(*                                                                         *)
(* An operator named like a definition with a suffix (FailRead_NoLease) is *)
(* that definition with a plausible bug, a mutant that no definition here  *)
(* uses: each property is known to notice one.                             *)
(***************************************************************************)
EXTENDS Naturals, FiniteSets

CONSTANTS Tasks,        \* all tasks
          Kind,         \* what each task does
          None,         \* no task, no Core, lock free
          MaxSwitches,  \* bound: account switches in a behaviour
          MayRevoke     \* whether the work mode may withdraw its permission

Kinds == {"sync", "profile", "inspect", "battle", "equip", "hud", "perf",
          "close", "exit", "idleClose", "maintain"}

ASSUME TasksAssumption == Kind \in [Tasks -> Kinds] /\ None \notin Tasks
ASSUME BoundAssumption == MaxSwitches \in Nat /\ MayRevoke \in BOOLEAN

VARIABLES
  client,      \* _client: the Core the session owns, or None
  connCtx,     \* _connected_context: the account context it was opened for
  failed,      \* _failed
  closing,     \* _closing
  closeReq,    \* _close_requested
  permanent,   \* _permanently_closed
  battleReq,   \* _battle_requested
  maint,       \* _maintenance
  lease,       \* _lease: the battle capture that holds the session, or None
  inv,         \* _inventory_lease: the synchronisation that holds it, or None
  refresh,     \* _refresh_active: the task whose token it is, or None
  hud,         \* the options in _hud_applied switch an overlay on
  perf,        \* _performance_active or _performance_trace_active
  lock,        \* holder of _lock over several steps, or None
  snap,        \* holder of _snapshot_lock, or None
  stopped,     \* inventory leases whose _stopped is set
  aborted,     \* battle leases whose _aborted is set
  batch,       \* the equipment batch whose _equipment_context is set, or None
  unknown,     \* inventory leases whose _write_outcome_unknown is set
  lateStop,    \* captures whose stop RPC worker has not returned yet
  pc,          \* where each task is
  target,      \* the Core (for an equipment batch: the lease) a task works on
  seen,        \* the account context a task has captured
  popped,      \* the Core a task took out of the session and must still close
  resume,      \* where the holder of _finish_close goes on
  sawPermanent,\* what it read of _permanently_closed
  alive,       \* Core subprocesses that run
  crashed,     \* Core subprocesses that died by themselves
  context,     \* the account context of the application
  allowed      \* the work mode permits native work

coreVars == <<client, connCtx, failed, closing, closeReq, permanent, perf>>
gateVars == <<battleReq, maint, lease, inv, refresh, hud>>
leaseVars == <<stopped, aborted, batch, unknown, lateStop>>
taskVars == <<target, seen, popped>>
finishVars == <<resume, sawPermanent>>
envVars == <<crashed, context, allowed>>

vars == <<coreVars, gateVars, leaseVars, taskVars, finishVars, envVars,
          lock, snap, pc, alive>>

(* what a step that changes one group of variables leaves alone *)
gateFrame == <<coreVars, leaseVars, taskVars, finishVars, envVars, lock, snap, alive>>
leaseFrame == <<coreVars, gateVars, taskVars, finishVars, envVars, lock, snap, alive>>
taskFrame == <<coreVars, gateVars, leaseVars, finishVars, envVars, lock, snap, alive>>
envFrame == <<coreVars, gateVars, leaseVars, taskVars, finishVars, lock, snap, pc>>
requestFrame == <<client, connCtx, failed, closing, perf, gateVars, leaseVars,
                  taskVars, finishVars, envVars, lock, snap, alive>>
finishFrame == <<closeReq, permanent, gateVars, leaseVars, target, seen, envVars,
                 snap, alive>>

Of(k) == {t \in Tasks : Kind[t] = k}
Readers == {t \in Tasks : Kind[t] \in {"sync", "profile", "inspect"}}
Connectors == {t \in Tasks :
                 Kind[t] \in {"sync", "profile", "inspect", "battle", "hud", "perf"}}

Contexts == 0..MaxSwitches
OrNone(S) == S \cup {None}

(* Where the calls of a task can stand; the pcs of LockedPcs hold _lock. *)
LockedPcs == {"connecting", "starting", "spawning", "connected", "finishing"}
Pcs == LockedPcs \cup
  {"idle", "done", "guarded", "waitScope", "scoped", "reading", "wanted", "refreshing", "paging",
   "aborting", "unrefreshing", "fatal", "leave", "leaveBad", "listening",
   "release", "handoff", "handedOver", "handback", "handback2", "battle",
   "battleRead", "stopping", "abort", "closeLease", "probing", "identified",
   "frozen", "ready", "sent", "unfreeze", "shown", "revoked", "permanent", "closeLock",
   "idleLock", "idleRelease", "reserved", "draining", "drain", "drainRetry",
   "drained", "drainFailed", "updating", "uncertain", "reopen"}

Goto(t, where) == pc' = [pc EXCEPT ![t] = where]

(* steps that change nothing else, or nothing but a lock *)
Elsewhere == UNCHANGED <<coreVars, gateVars, leaseVars, taskVars, finishVars,
                         envVars, alive>>
Move(t, where) == Goto(t, where) /\ Elsewhere /\ UNCHANGED <<lock, snap>>
MoveSnap(t, where, s) == Goto(t, where) /\ Elsewhere /\ snap' = s /\ lock' = lock
MoveLock(t, where, l) == Goto(t, where) /\ Elsewhere /\ lock' = l /\ snap' = snap

Init ==
  /\ client = None /\ connCtx = None
  /\ failed = FALSE /\ closing = FALSE
  /\ closeReq = FALSE /\ permanent = FALSE
  /\ battleReq = FALSE /\ maint = FALSE
  /\ lease = None /\ inv = None /\ refresh = None
  /\ hud = FALSE /\ perf = FALSE
  /\ lock = None /\ snap = None
  /\ stopped = {} /\ aborted = {} /\ unknown = {} /\ lateStop = {}
  /\ batch = None
  /\ pc = [t \in Tasks |-> "idle"]
  /\ target = [t \in Tasks |-> None]
  /\ seen = [t \in Tasks |-> 0]
  /\ popped = [t \in Tasks |-> None]
  /\ resume = "done" /\ sawPermanent = FALSE
  /\ alive = {} /\ crashed = {}
  /\ context = 0 /\ allowed = TRUE

-----------------------------------------------------------------------------
(* Conditions the handlers test. *)

(* _context_matches *)
ContextMatches == connCtx = context

(* _client exists but _connect must not reuse it *)
Stale == failed \/ ~ContextMatches \/ client \notin alive

(* Mutant: a read ignores a battle that asks for the session. *)
Priority_NoYield == ~maint

(* _check_snapshot_priority *)
Priority == ~maint /\ ~battleReq

(* _check_projection for a task that reads Core c *)
ProjectionOk(c) ==
  /\ Priority /\ allowed /\ ~closeReq
  /\ client = c /\ ~failed /\ c \in alive
  /\ ContextMatches

(* _check_inspection *)
InspectionOk(c) ==
  /\ Priority /\ allowed /\ ~closeReq
  /\ c # None => client = c /\ ContextMatches

(* Mutant: the lease asks for a running connection, not for its own. *)
InventoryOk_AnyClient(s) == inv = s /\ s \notin stopped /\ ProjectionOk(client)

(* NativeInventoryLease._check of the lease of synchronisation s *)
InventoryOk(s) == inv = s /\ s \notin stopped /\ ProjectionOk(target[s])

(* NativeBattleLease._check(new_work=True) *)
BattleWorkOk(b) ==
  /\ lease = b /\ b \notin aborted /\ ContextMatches
  /\ ~closing /\ ~closeReq /\ allowed

(* the check a task hands to _snapshot_scope, to the RPCs and the refresh *)
CheckOk(t) ==
  \/ Kind[t] = "sync" /\ InventoryOk(t)
  \/ Kind[t] = "profile" /\ ProjectionOk(target[t])
  \/ Kind[t] = "inspect" /\ InspectionOk(target[t])
  \/ Kind[t] = "battle" /\ BattleWorkOk(t)
  \/ Kind[t] = "equip" /\ InventoryOk(target[t])

(* only _check_inspection runs without _lock *)
CanCheck(t) == lock = None \/ Kind[t] = "inspect"

(* Mutant: connecting during maintenance is not refused. *)
ConnectRefused_NoMaintenance ==
  \/ closing \/ closeReq
  \/ client = None /\ (lease # None \/ refresh # None)
  \/ client # None /\ Stale /\ lease # None

(* Mutant: an expired battle lease does not keep others from connecting. *)
ConnectRefused_NoLease ==
  \/ maint \/ closing \/ closeReq
  \/ client = None /\ refresh # None
  \/ client # None /\ Stale /\ lease # None

(* _connect raises before it touches the session *)
ConnectRefused ==
  \/ maint \/ closing \/ closeReq
  \/ client = None /\ (lease # None \/ refresh # None)
  \/ client # None /\ Stale /\ lease # None

(* NativeInventoryLease.maintenance_blocked of the current lease *)
MaintenanceBlocked ==
  inv # None /\ (inv \in unknown \/ (batch # None /\ target[batch] = inv))

-----------------------------------------------------------------------------
(* _finish_close, under _lock: the session forgets its Core, then clears   *)
(* the close request unless it has read the session as closed for good.    *)

BeginFinish(t, next) ==
  /\ client' = None /\ connCtx' = None
  /\ failed' = FALSE /\ closing' = FALSE /\ perf' = FALSE
  /\ popped' = [popped EXCEPT ![t] = client]
  /\ sawPermanent' = permanent
  /\ resume' = next
  /\ lock' = t
  /\ Goto(t, "finishing")

(* the same caller, when it finds nothing to finish *)
NoFinish(t, next) ==
  /\ UNCHANGED <<client, connCtx, failed, closing, perf, popped, sawPermanent,
                 resume, lock>>
  /\ Goto(t, next)

EndFinish(t) ==
  /\ pc[t] = "finishing"
  /\ closeReq' = (closeReq /\ sawPermanent)
  /\ alive' = alive \ {popped[t]}
  /\ popped' = [popped EXCEPT ![t] = None]
  /\ lock' = IF resume = "starting" THEN t ELSE None
  /\ Goto(t, resume)
  /\ resume' = "done" /\ sawPermanent' = FALSE
  /\ UNCHANGED <<client, connCtx, failed, closing, permanent, perf, gateVars,
                 leaseVars, target, seen, envVars, snap>>

-----------------------------------------------------------------------------
(* _connect, entered with _lock held. *)

(* where a task goes when its call of _connect raises *)
AfterRefusal(t) ==
  CASE Kind[t] = "battle"  -> "handback"
    [] Kind[t] = "inspect" -> "leaveBad"
    [] OTHER               -> "done"

(* what each caller checks under _lock before it calls _connect *)
MayConnect(t) ==
  \/ Kind[t] = "sync" /\ pc[t] = "idle" /\ Priority /\ inv = None
  \/ Kind[t] = "profile" /\ pc[t] = "idle" /\ Priority
  \/ Kind[t] = "inspect" /\ pc[t] = "scoped" /\ InspectionOk(None)
  \/ Kind[t] = "battle" /\ pc[t] = "handedOver" /\ ~closeReq /\ context = seen[t]
  \/ Kind[t] = "hud" /\ pc[t] = "idle" /\ ~maint
  \/ Kind[t] = "perf" /\ pc[t] = "guarded"

(* configure_performance asks the guard before it takes the lock *)
GuardPerformance(t) ==
  /\ Kind[t] = "perf" /\ pc[t] = "idle" /\ allowed
  /\ Move(t, "guarded")

EnterConnect(t) ==
  /\ lock = None /\ MayConnect(t)
  /\ allowed \/ Kind[t] = "perf"
  /\ MoveLock(t, "connecting", t)

(* the checks before _connect raise: a task that has begun gives up *)
DenyConnect(t) ==
  /\ lock = None
  /\ pc[t] \in {"scoped", "handedOver"}
  /\ ~(allowed /\ MayConnect(t))
  /\ Move(t, AfterRefusal(t))

RefuseConnect(t) ==
  /\ pc[t] = "connecting" /\ ConnectRefused
  /\ MoveLock(t, AfterRefusal(t), None)

ReuseClient(t) ==
  /\ pc[t] = "connecting" /\ ~ConnectRefused
  /\ client # None /\ ~Stale
  /\ target' = [target EXCEPT ![t] = client]
  /\ Goto(t, "connected")
  /\ UNCHANGED <<taskFrame, seen, popped>>

ReplaceClient(t) ==
  /\ pc[t] = "connecting" /\ ~ConnectRefused
  /\ client # None /\ Stale
  /\ BeginFinish(t, "starting")
  /\ UNCHANGED <<finishFrame>>

NeedClient(t) ==
  /\ pc[t] = "connecting" /\ ~ConnectRefused
  /\ client = None
  /\ Move(t, "starting")

(* client.start(), unless a close request is seen first *)
SpawnCore(t) ==
  /\ pc[t] = "starting"
  /\ seen' = [seen EXCEPT ![t] = context]
  /\ IF closeReq
       THEN /\ lock' = None
            /\ Goto(t, AfterRefusal(t))
            /\ UNCHANGED alive
       ELSE /\ alive' = alive \cup {t}
            /\ Goto(t, "spawning")
            /\ UNCHANGED lock
  /\ UNCHANGED <<coreVars, gateVars, leaseVars, target, popped, finishVars,
                 envVars, snap>>

PublishClient(t) ==
  /\ pc[t] = "spawning"
  /\ ~closeReq /\ context = seen[t]
  /\ client' = t /\ connCtx' = seen[t] /\ failed' = FALSE
  /\ target' = [target EXCEPT ![t] = t]
  /\ Goto(t, "connected")
  /\ UNCHANGED <<closing, closeReq, permanent, perf, gateVars, leaseVars, seen,
                 popped, finishVars, envVars, lock, snap, alive>>

(* Mutant: the new Core is left running. *)
AbandonClient_NoClose(t) ==
  /\ pc[t] = "spawning"
  /\ MoveLock(t, AfterRefusal(t), None)

(* start() failed, or a check after it did: the new Core is closed again *)
AbandonClient(t) ==
  /\ pc[t] = "spawning"
  /\ alive' = alive \ {t}
  /\ lock' = None
  /\ Goto(t, AfterRefusal(t))
  /\ UNCHANGED <<coreVars, gateVars, leaseVars, taskVars, finishVars, envVars,
                 snap>>

Connect(t) ==
  \/ GuardPerformance(t)
  \/ EnterConnect(t) \/ DenyConnect(t) \/ RefuseConnect(t) \/ ReuseClient(t)
  \/ ReplaceClient(t) \/ NeedClient(t) \/ SpawnCore(t) \/ PublishClient(t)
  \/ AbandonClient(t)

-----------------------------------------------------------------------------
(* What each caller does with the connected client, still under _lock. *)

(* _connect or its caller raises after all: the diagnostics RPC, a missing  *)
(* capability, a rejected overlay.  The session keeps the connection.       *)
FailConnected(t) ==
  /\ pc[t] = "connected"
  /\ MoveLock(t, AfterRefusal(t), None)

(* inventory_client *)
OpenInventory(t) ==
  /\ Kind[t] = "sync" /\ pc[t] = "connected"
  /\ lock' = None
  /\ inv' = t
  /\ Goto(t, "listening")
  /\ UNCHANGED <<coreVars, battleReq, maint, lease, refresh, hud, leaseVars,
                 taskVars, finishVars, envVars, snap, alive>>

(* read_character_profiles and _inspect_snapshot leave the critical section *)
LeaveConnect(t) ==
  /\ pc[t] = "connected"
  /\ \/ Kind[t] = "profile" /\ Goto(t, "waitScope")
     \/ Kind[t] = "inspect" /\ Goto(t, "reading")
  /\ lock' = None
  /\ UNCHANGED <<coreVars, gateVars, leaseVars, taskVars, finishVars, envVars,
                 snap, alive>>

(* battle_client: the guard is asked once more before the lease exists *)
LeaseBattle(t) ==
  /\ Kind[t] = "battle" /\ pc[t] = "connected"
  /\ lease' = IF allowed THEN t ELSE lease
  /\ lock' = None
  /\ Goto(t, "handback")
  /\ UNCHANGED <<coreVars, battleReq, maint, inv, refresh, hud, leaseVars,
                 taskVars, finishVars, envVars, snap, alive>>

(* configure_hud and configure_performance make their RPC under _lock *)
ShowOverlay(t) ==
  /\ pc[t] = "connected"
  /\ Kind[t] \in {"hud", "perf"}
  /\ hud' = (hud \/ Kind[t] = "hud")
  /\ perf' = (perf \/ Kind[t] = "perf")
  /\ lock' = None
  /\ Goto(t, "shown")
  /\ UNCHANGED <<client, connCtx, failed, closing, closeReq, permanent,
                 battleReq, maint, lease, inv, refresh, leaseVars, taskVars,
                 finishVars, envVars, snap, alive>>

(* the same calls with everything off never open a connection *)
HideOverlay(t) ==
  /\ pc[t] = "shown" /\ lock = None
  /\ \/ /\ client # None /\ client \in alive
        /\ hud' = (hud /\ Kind[t] # "hud")
        /\ perf' = (perf /\ Kind[t] # "perf")
     \/ UNCHANGED <<hud, perf>>
  /\ Goto(t, "done")
  /\ UNCHANGED <<client, connCtx, failed, closing, closeReq, permanent,
                 battleReq, maint, lease, inv, refresh, leaseVars, taskVars,
                 finishVars, envVars, lock, snap, alive>>

-----------------------------------------------------------------------------
(* _snapshot_scope: polls for _snapshot_lock, running its check before and *)
(* after; what the scope protects comes next.                              *)

InScope(t) ==
  CASE Kind[t] = "inspect" -> "scoped"
    [] Kind[t] = "equip"   -> "probing"
    [] Kind[t] = "battle"  -> "battleRead"
    [] OTHER               -> "reading"

AfterCancel(t) ==
  CASE Kind[t] = "sync"   -> "release"
    [] Kind[t] = "battle" -> "stopping"
    [] OTHER              -> "done"

(* inspect(): its scope surrounds everything else it does *)
StartInspection(t) ==
  /\ Kind[t] = "inspect" /\ pc[t] = "idle"
  /\ Move(t, "waitScope")

(* status(): one poll of the inventory lease *)
PollInventory(t) ==
  /\ Kind[t] = "sync" /\ pc[t] = "listening"
  /\ Move(t, "waitScope")

EnterScope(t) ==
  /\ pc[t] = "waitScope" /\ snap = None
  /\ CanCheck(t) /\ CheckOk(t)
  /\ MoveSnap(t, InScope(t), t)

CancelScope(t) ==
  /\ pc[t] = "waitScope"
  /\ CanCheck(t) /\ ~CheckOk(t)
  /\ Move(t, AfterCancel(t))

LeaveScope(t) ==
  /\ pc[t] \in {"leave", "leaveBad"}
  /\ MoveSnap(t, IF Kind[t] # "sync" THEN "done"
             ELSE IF pc[t] = "leave" THEN "listening" ELSE "release", None)

-----------------------------------------------------------------------------
(* _refresh_snapshot *)

(* an inspection first looks, under _lock, whether anybody else reads *)
WantRefresh(t) ==
  /\ Kind[t] = "inspect" /\ pc[t] = "reading" /\ lock = None
  /\ lease = None /\ inv = None
  /\ allowed /\ ~closeReq /\ client = target[t] /\ ContextMatches
  /\ Move(t, "wanted")

AtRefresh(t) == pc[t] = IF Kind[t] = "inspect" THEN "wanted" ELSE "reading"

BeginRefresh(t) ==
  /\ AtRefresh(t)
  /\ lock = None /\ CheckOk(t)
  /\ lease = None
  /\ refresh' = t
  /\ Goto(t, "refreshing")
  /\ UNCHANGED <<gateFrame, battleReq, maint, lease, inv, hud>>

DropToken(t) == IF refresh = t THEN None ELSE refresh

(* NativeSnapshotPending: a battle holds the Core *)
DeferRefresh(t) ==
  /\ AtRefresh(t)
  /\ lock = None /\ CheckOk(t)
  /\ lease # None
  /\ Move(t, "leave")

(* the RPC returned, or was rejected; the token is dropped under _lock *)
EndRefresh(t) ==
  /\ pc[t] = "refreshing" /\ lock = None
  /\ refresh' = DropToken(t)
  /\ \/ target[t] \in alive /\ CheckOk(t) /\ Goto(t, "paging")
     \/ target[t] \in alive /\ Goto(t, "leave")
     \/ Goto(t, "fatal")
  /\ UNCHANGED <<gateFrame, battleReq, maint, lease, inv, hud>>

(* cancelled by its check or timed out: the Core is taken out of the session *)
AbortRefresh(t) ==
  /\ pc[t] = "refreshing" /\ lock = None
  /\ refresh = t /\ client = target[t] /\ lease = None
  /\ client' = None /\ failed' = TRUE
  /\ popped' = [popped EXCEPT ![t] = client]
  /\ Goto(t, "aborting")
  /\ UNCHANGED <<finishFrame, connCtx, closing, perf, finishVars, lock>>

(* the same, when the session no longer owns that Core *)
LoseRefresh(t) ==
  /\ pc[t] = "refreshing" /\ lock = None
  /\ ~(refresh = t /\ client = target[t] /\ lease = None)
  /\ Move(t, "unrefreshing")

(* client.abort(), outside _lock *)
EndAbort(t) ==
  /\ pc[t] = "aborting"
  /\ alive' = alive \ {popped[t]}
  /\ popped' = [popped EXCEPT ![t] = None]
  /\ Goto(t, IF Kind[t] = "battle" THEN "closeLease" ELSE "unrefreshing")
  /\ UNCHANGED <<coreVars, gateVars, leaseVars, target, seen, finishVars,
                 envVars, lock, snap>>

Unrefresh(t) ==
  /\ pc[t] = "unrefreshing" /\ lock = None
  /\ refresh' = DropToken(t)
  /\ \/ Goto(t, "leaveBad")
     \/ Goto(t, "fatal")
  /\ UNCHANGED <<gateFrame, battleReq, maint, lease, inv, hud>>

-----------------------------------------------------------------------------
(* The rest of a read: status and pages of _read_projection, of            *)
(* read_all_items and of _inspect_snapshot.                                *)

ReadPages(t) ==
  /\ pc[t] \in {"reading", "wanted", "paging"}
  /\ CanCheck(t)
  /\ \/ target[t] \in alive /\ Move(t, "leave")  \* a result, or try again later
     \/ ~CheckOk(t) /\ Move(t, "leaveBad")
     \/ Move(t, "fatal")

(* Mutant: the connection is given up under a battle, too. *)
FailRead_NoLease(t) ==
  /\ pc[t] = "fatal" /\ lock = None
  /\ \/ client = target[t] /\ BeginFinish(t, "leaveBad")
     \/ client # target[t] /\ NoFinish(t, "leaveBad")
  /\ UNCHANGED <<finishFrame>>

(* an error that is not transient: the connection is given up, but never   *)
(* under a battle, and only if it is still the one that was read           *)
FailRead(t) ==
  /\ pc[t] = "fatal" /\ lock = None
  /\ \/ /\ client = target[t] /\ lease = None
        /\ BeginFinish(t, "leaveBad")
     \/ /\ client = target[t] /\ lease # None
        /\ failed' = TRUE
        /\ Goto(t, "leaveBad")
        /\ UNCHANGED <<client, connCtx, closing, perf, popped, sawPermanent,
                       resume, lock>>
     \/ client # target[t] /\ NoFinish(t, "leaveBad")
  /\ UNCHANGED <<finishFrame>>

(* NativeInventoryLease.close *)
ReleaseInventory(t) ==
  /\ Kind[t] = "sync" /\ pc[t] = "release" /\ lock = None
  /\ stopped' = stopped \cup {t}
  /\ inv' = IF inv = t THEN None ELSE inv
  /\ Goto(t, "done")
  /\ UNCHANGED <<coreVars, battleReq, maint, lease, refresh, hud, aborted,
                 batch, unknown, lateStop, taskVars, finishVars, envVars, lock,
                 snap, alive>>

(* request_stop, by the user or by the policy *)
StopInventory(t) ==
  /\ Kind[t] = "sync" /\ inv = t /\ t \notin stopped
  /\ stopped' = stopped \cup {t}
  /\ UNCHANGED <<leaseFrame, aborted, batch, unknown, lateStop, pc>>

Read(t) ==
  \/ StartInspection(t) \/ PollInventory(t) \/ EnterScope(t) \/ CancelScope(t)
  \/ LeaveScope(t) \/ WantRefresh(t) \/ BeginRefresh(t) \/ DeferRefresh(t) \/ EndRefresh(t)
  \/ AbortRefresh(t) \/ LoseRefresh(t) \/ EndAbort(t) \/ Unrefresh(t)
  \/ ReadPages(t) \/ FailRead(t) \/ ReleaseInventory(t) \/ StopInventory(t)

-----------------------------------------------------------------------------
(* battle_client: the handoff, and the life of a NativeBattleLease.        *)

RequestBattle(t) ==
  /\ Kind[t] = "battle" /\ pc[t] = "idle" /\ lock = None
  /\ allowed /\ lease = None /\ ~battleReq
  /\ battleReq' = TRUE
  /\ seen' = [seen EXCEPT ![t] = context]
  /\ Goto(t, "handoff")
  /\ UNCHANGED <<coreVars, maint, lease, inv, refresh, hud, leaseVars, target,
                 popped, finishVars, envVars, lock, snap, alive>>

(* the snapshot owner has yielded *)
HandoffOk(t) == allowed /\ ~closeReq /\ context = seen[t]

TakeOver(t) ==
  /\ pc[t] = "handoff" /\ snap = None
  /\ HandoffOk(t)
  /\ MoveSnap(t, "handedOver", t)

(* cancelled, or NATIVE_BATTLE_HANDOFF_TIMEOUT_SECONDS have passed *)
GiveUpHandoff(t) ==
  /\ pc[t] = "handoff"
  /\ battleReq' = FALSE
  /\ Goto(t, "done")
  /\ UNCHANGED <<gateFrame, maint, lease, inv, refresh, hud>>

(* the finally clause: first the request, then the snapshot lock *)
ClearRequest(t) ==
  /\ pc[t] = "handback"
  /\ battleReq' = FALSE
  /\ Goto(t, "handback2")
  /\ UNCHANGED <<gateFrame, maint, lease, inv, refresh, hud>>

LeaveHandoff(t) ==
  /\ pc[t] = "handback2"
  /\ MoveSnap(t, IF lease = t THEN "battle" ELSE "done", None)

(* observe_battle_scopes wants the configuration of a first hit *)
WantBattleSnapshot(t) ==
  /\ pc[t] = "battle"
  /\ Move(t, "waitScope")

(* a failed read is recorded as unavailable; a failed check ends the capture *)
EndBattleSnapshot(t) ==
  /\ pc[t] = "battleRead" /\ lock = None
  /\ MoveSnap(t, IF BattleWorkOk(t) THEN "battle" ELSE "stopping", None)

(* the user, the policy or an error ends the capture *)
StopBattle(t) ==
  /\ Kind[t] = "battle" /\ pc[t] \in {"battle", "waitScope"}
  /\ Move(t, "stopping")

(* stop_capture_with_timeout: stopped, refused, or no answer in time *)
StopCapture(t) ==
  /\ pc[t] = "stopping" /\ lock = None
  /\ \/ failed' = failed /\ lateStop' = lateStop /\ Goto(t, "closeLease")
     \/ failed' = (failed \/ lease = t) /\ lateStop' = lateStop
        /\ Goto(t, "closeLease")
     \/ failed' = failed /\ lateStop' = lateStop \cup {t} /\ Goto(t, "abort")
  /\ UNCHANGED <<client, connCtx, closing, closeReq, permanent, perf, gateVars,
                 stopped, aborted, batch, unknown, taskVars, finishVars,
                 envVars, lock, snap, alive>>

(* the abandoned stop worker fails, however late *)
LateStop(t) ==
  /\ t \in lateStop /\ lock = None
  /\ failed' = (failed \/ lease = t)
  /\ lateStop' = lateStop \ {t}
  /\ UNCHANGED <<client, connCtx, closing, closeReq, permanent, perf, gateVars,
                 stopped, aborted, batch, unknown, taskVars, finishVars,
                 envVars, lock, snap, pc, alive>>

(* _abort_battle, then client.abort() outside _lock (EndAbort) *)
AbortBattle(t) ==
  /\ pc[t] = "abort" /\ lock = None
  /\ aborted' = aborted \cup {t}
  /\ IF lease = t
       THEN /\ failed' = TRUE
            /\ client' = None
            /\ popped' = [popped EXCEPT ![t] = client]
            /\ Goto(t, "aborting")
       ELSE /\ Goto(t, "closeLease")
            /\ UNCHANGED <<failed, client, popped>>
  /\ UNCHANGED <<connCtx, closing, closeReq, permanent, perf, gateVars,
                 stopped, batch, unknown, lateStop, target, seen, finishVars,
                 envVars, lock, snap, alive>>

(* Mutant: only a failure finishes the session, a close request does not. *)
ReleaseBattle_OnlyFailed(t) ==
  /\ pc[t] = "closeLease" /\ lock = None
  /\ lease' = IF lease = t THEN None ELSE lease
  /\ IF lease = t /\ failed THEN BeginFinish(t, "done") ELSE NoFinish(t, "done")
  /\ UNCHANGED <<closeReq, permanent, battleReq, maint, inv, refresh, hud,
                 leaseVars, target, seen, envVars, snap, alive>>

(* _release_battle *)
ReleaseBattle(t) ==
  /\ pc[t] = "closeLease" /\ lock = None
  /\ lease' = IF lease = t THEN None ELSE lease
  /\ IF lease = t /\ (closing \/ failed)
       THEN BeginFinish(t, "done")
       ELSE NoFinish(t, "done")
  /\ UNCHANGED <<closeReq, permanent, battleReq, maint, inv, refresh, hud,
                 leaseVars, target, seen, envVars, snap, alive>>

Battle(t) ==
  \/ RequestBattle(t) \/ TakeOver(t) \/ GiveUpHandoff(t) \/ ClearRequest(t)
  \/ LeaveHandoff(t) \/ WantBattleSnapshot(t) \/ EndBattleSnapshot(t)
  \/ StopBattle(t) \/ StopCapture(t) \/ LateStop(t) \/ AbortBattle(t)
  \/ ReleaseBattle(t)

-----------------------------------------------------------------------------
(* equipment_batch and the commands sent in it.                            *)

(* the page worker takes the client of the running synchronisation *)
StartBatch(t) ==
  /\ Kind[t] = "equip" /\ pc[t] = "idle"
  /\ inv # None
  /\ target' = [target EXCEPT ![t] = inv]
  /\ Goto(t, "waitScope")
  /\ UNCHANGED <<taskFrame, seen, popped>>

(* equipment.status answered ready, under the projection's check alone *)
ProbeEquipment(t) ==
  /\ pc[t] = "probing" /\ lock = None
  /\ ProjectionOk(target[target[t]])
  /\ Move(t, "identified")

(* the identity it reported is frozen for the batch *)
FreezeBatch(t) ==
  /\ pc[t] = "identified"
  /\ batch' = t
  /\ Goto(t, "frozen")
  /\ UNCHANGED <<leaseFrame, stopped, aborted, unknown, lateStop>>

RefuseBatch(t) ==
  /\ pc[t] = "probing"
  /\ Move(t, "leaveBad")

(* the check after the identity is frozen *)
RecheckBatch(t) ==
  /\ pc[t] = "frozen" /\ lock = None
  /\ Move(t, IF CheckOk(t) THEN "ready" ELSE "unfreeze")

(* _equipment_direct: one more check, then the command goes out *)
SendCommand(t) ==
  /\ pc[t] = "ready" /\ lock = None
  /\ Move(t, IF CheckOk(t) THEN "sent" ELSE "unfreeze")

(* no further command in this batch *)
FinishBatch(t) ==
  /\ pc[t] = "ready"
  /\ Move(t, "unfreeze")

(* accepted, or rejected before it took effect *)
AnswerCommand(t) ==
  /\ pc[t] = "sent" /\ target[target[t]] \in alive
  /\ \/ Move(t, "ready")
     \/ Move(t, "unfreeze")

(* a transport failure after dispatch: nobody knows what the game did *)
LoseCommand(t) ==
  /\ pc[t] = "sent"
  /\ unknown' = unknown \cup {target[t]}
  /\ Goto(t, "unfreeze")
  /\ UNCHANGED <<leaseFrame, stopped, aborted, batch, lateStop>>

ThawBatch(t) ==
  /\ pc[t] = "unfreeze"
  /\ batch' = None
  /\ Goto(t, "leave")
  /\ UNCHANGED <<leaseFrame, stopped, aborted, unknown, lateStop>>

Equip(t) ==
  \/ StartBatch(t) \/ ProbeEquipment(t) \/ FreezeBatch(t) \/ RefuseBatch(t) \/ RecheckBatch(t)
  \/ SendCommand(t) \/ FinishBatch(t) \/ AnswerCommand(t) \/ LoseCommand(t)
  \/ ThawBatch(t)

-----------------------------------------------------------------------------
(* Closing: request_close, close, close_if_idle.                           *)

(* the policy or the account switch revokes the session, without waiting *)
RequestClose(t) ==
  /\ Kind[t] = "close" /\ pc[t] = "idle"
  /\ closeReq' = TRUE
  /\ Goto(t, "revoked")
  /\ UNCHANGED <<requestFrame, permanent>>

(* request_close(permanent=True) when the application exits: two Events *)
ClosePermanently(t) ==
  /\ Kind[t] = "exit" /\ pc[t] = "idle"
  /\ permanent' = TRUE
  /\ Goto(t, "permanent")
  /\ UNCHANGED <<requestFrame, closeReq>>

RequestExit(t) ==
  /\ pc[t] = "permanent"
  /\ closeReq' = TRUE
  /\ Goto(t, "revoked")
  /\ UNCHANGED <<requestFrame, permanent>>

(* the observer's close() requests the close again before it waits *)
BeginClose(t) ==
  /\ pc[t] = "revoked"
  /\ closeReq' = TRUE
  /\ Goto(t, "closeLock")
  /\ UNCHANGED <<requestFrame, permanent>>

(* Mutant: the session is torn down under a battle. *)
CloseSession_NoLease(t) ==
  /\ pc[t] = "closeLock" /\ lock = None
  /\ BeginFinish(t, "done")
  /\ UNCHANGED <<finishFrame>>

(* overlays off, snapshots disabled, and the teardown unless a battle runs *)
CloseSession(t) ==
  /\ pc[t] = "closeLock" /\ lock = None
  /\ \/ hud' = hud
     \/ client # None /\ client \in alive /\ hud' = FALSE
  /\ \/ lease = None /\ BeginFinish(t, "done")
     \/ /\ lease # None
        /\ closing' = TRUE
        /\ (failed' = failed \/ (client # None /\ failed' = TRUE))
        /\ Goto(t, "done")
        /\ UNCHANGED <<client, connCtx, perf, popped, sawPermanent, resume,
                       lock>>
  /\ UNCHANGED <<closeReq, permanent, battleReq, maint, lease, inv, refresh,
                 leaseVars, target, seen, envVars, snap, alive>>

(* Mutant: it does not wait for the snapshot lock. *)
TryIdleClose_NoScope(t) ==
  /\ Kind[t] = "idleClose" /\ pc[t] = "idle"
  /\ MoveSnap(t, "idleLock", snap)

TryIdleClose(t) ==
  /\ Kind[t] = "idleClose" /\ pc[t] = "idle" /\ snap = None
  /\ MoveSnap(t, "idleLock", t)

Unused ==
  /\ client # None /\ lease = None /\ inv = None /\ refresh = None
  /\ ~battleReq /\ ~perf /\ ~hud

IdleClose(t) ==
  /\ pc[t] = "idleLock" /\ lock = None
  /\ IF Unused
       THEN BeginFinish(t, "idleRelease")
       ELSE NoFinish(t, "idleRelease")
  /\ UNCHANGED <<finishFrame>>

EndIdleClose(t) ==
  /\ pc[t] = "idleRelease"
  /\ MoveSnap(t, "done", None)

Close(t) ==
  \/ RequestClose(t) \/ ClosePermanently(t) \/ RequestExit(t) \/ BeginClose(t)
  \/ CloseSession(t) \/ TryIdleClose(t) \/ IdleClose(t) \/ EndIdleClose(t)

-----------------------------------------------------------------------------
(* NativeSessionMaintenance, driven by NativePluginMaintenance.            *)

ReserveMaintenance(t) ==
  /\ Kind[t] = "maintain" /\ pc[t] = "idle" /\ lock = None
  /\ ~maint /\ lease = None /\ ~battleReq /\ ~MaintenanceBlocked
  /\ maint' = TRUE
  /\ Goto(t, "reserved")
  /\ UNCHANGED <<gateFrame, battleReq, lease, inv, refresh, hud>>

(* begin: the synchronisation is asked to stop, or that fails *)
SuspendSync(t) ==
  /\ pc[t] = "reserved"
  /\ \/ stopped' = stopped \cup ({inv} \ {None}) /\ Goto(t, "draining")
     \/ stopped' = stopped /\ Goto(t, "reopen")
  /\ UNCHANGED <<leaseFrame, aborted, batch, unknown, lateStop>>

(* disconnect: one turn of its loop, or its deadline *)
BeginDrain(t) ==
  /\ pc[t] = "draining" /\ snap = None
  /\ MoveSnap(t, "drain", t)

(* Mutant: the gate stays shut when draining takes too long. *)
GiveUpDrain_NoReopen(t) ==
  /\ pc[t] = "draining"
  /\ Move(t, "done")

GiveUpDrain(t) ==
  /\ pc[t] = "draining"
  /\ Move(t, "reopen")

(* Mutant: the session is drained without waiting for its users. *)
Drain_NoWait(t) ==
  /\ pc[t] = "drain" /\ lock = None
  /\ BeginFinish(t, "drained")
  /\ UNCHANGED <<finishFrame>>

Drain(t) ==
  /\ pc[t] = "drain" /\ lock = None
  /\ IF lease = None /\ inv = None /\ refresh = None
       THEN BeginFinish(t, "drained")
       ELSE NoFinish(t, IF lease # None THEN "drainFailed" ELSE "drainRetry")
  /\ UNCHANGED <<finishFrame>>

(* disconnected: the plugin files may be replaced *)
EndDrain(t) ==
  /\ pc[t] \in {"drained", "drainFailed", "drainRetry"}
  /\ hud' = (hud /\ pc[t] # "drained")
  /\ snap' = None
  /\ Goto(t, CASE pc[t] = "drained"     -> "updating"
               [] pc[t] = "drainFailed" -> "reopen"
               [] pc[t] = "drainRetry"  -> "draining")
  /\ UNCHANGED <<coreVars, battleReq, maint, lease, inv, refresh, leaseVars,
                 taskVars, finishVars, envVars, lock, alive>>

(* the outcome of the update is known, or the gate stays shut *)
EndUpdate(t) ==
  /\ pc[t] = "updating"
  /\ \/ Move(t, "reopen")
     \/ Move(t, "uncertain")

Reopen(t) ==
  /\ pc[t] = "reopen"
  /\ maint' = FALSE
  /\ Goto(t, "done")
  /\ UNCHANGED <<gateFrame, battleReq, lease, inv, refresh, hud>>

Maintain(t) ==
  \/ ReserveMaintenance(t) \/ SuspendSync(t) \/ BeginDrain(t) \/ GiveUpDrain(t)
  \/ Drain(t) \/ EndDrain(t) \/ EndUpdate(t) \/ Reopen(t)

-----------------------------------------------------------------------------
(* The surroundings: account switches, the work mode, and the Core itself. *)

SwitchAccount ==
  /\ context < MaxSwitches
  /\ context' = context + 1
  /\ UNCHANGED <<envFrame, crashed, allowed, alive>>

ChangePermission ==
  /\ MayRevoke
  /\ allowed' = ~allowed
  /\ UNCHANGED <<envFrame, crashed, context, alive>>

CrashCore(c) ==
  /\ c \in alive
  /\ alive' = alive \ {c}
  /\ crashed' = crashed \cup {c}
  /\ UNCHANGED <<envFrame, context, allowed>>

Overlay(t) == ShowOverlay(t) \/ HideOverlay(t)

Connected(t) ==
  \/ FailConnected(t) \/ OpenInventory(t) \/ LeaveConnect(t) \/ LeaseBattle(t)
  \/ Overlay(t)

Step(t) ==
  \/ EndFinish(t) \/ Connect(t) \/ Connected(t) \/ Read(t) \/ Battle(t)
  \/ Equip(t) \/ Close(t) \/ Maintain(t)

(* every task has ended, has not begun, or keeps the maintenance gate shut *)
Terminated ==
  /\ \A t \in Tasks : pc[t] \in {"idle", "done", "uncertain"}
  /\ UNCHANGED vars

Next ==
  \/ \E t \in Tasks : Step(t)
  \/ SwitchAccount \/ ChangePermission
  \/ \E c \in alive : CrashCore(c)
  \/ Terminated

Spec == Init /\ [][Next]_vars

-----------------------------------------------------------------------------
(* Fairness.  A thread inside the session goes on: its lock waits poll, its *)
(* ordinary RPCs end with an answer, an error or a timeout, and its finally *)
(* clauses run.  Nothing obliges a task to begin, a user to stop, a battle  *)
(* to want a snapshot, or the game to answer a refresh, which may take as   *)
(* long as it likes: a refresh is only sure to end once its check fails.    *)
(* The time-outs of the handoff and of the drain that could end a wait      *)
(* anyway are not relied upon, unless the check of the handoff fails.       *)

Progress(t) ==
  \/ EndFinish(t) \/ (pc[t] # "idle" /\ Connect(t)) \/ Connected(t)
  \/ PollInventory(t) \/ EnterScope(t) \/ CancelScope(t) \/ LeaveScope(t)
  \/ WantRefresh(t) \/ BeginRefresh(t) \/ DeferRefresh(t)
  \/ (pc[t] = "refreshing" /\ ~CheckOk(t) /\ (AbortRefresh(t) \/ LoseRefresh(t)))
  \/ EndAbort(t) \/ Unrefresh(t) \/ ReadPages(t) \/ FailRead(t)
  \/ ReleaseInventory(t)
  \/ TakeOver(t) \/ (~HandoffOk(t) /\ GiveUpHandoff(t))
  \/ ClearRequest(t) \/ LeaveHandoff(t)
  \/ EndBattleSnapshot(t) \/ StopCapture(t) \/ AbortBattle(t) \/ ReleaseBattle(t)
  \/ (closing /\ StopBattle(t))  \* close() follows a stop of the capture
  \/ ProbeEquipment(t) \/ FreezeBatch(t) \/ RefuseBatch(t) \/ RecheckBatch(t)
  \/ SendCommand(t) \/ AnswerCommand(t) \/ LoseCommand(t) \/ ThawBatch(t)
  \/ RequestExit(t) \/ BeginClose(t) \/ CloseSession(t)
  \/ IdleClose(t) \/ EndIdleClose(t)
  \/ SuspendSync(t) \/ BeginDrain(t) \/ Drain(t) \/ EndDrain(t)
  \/ EndUpdate(t) \/ Reopen(t)

(* a batch has finitely many commands *)
Fairness ==
  \A t \in Tasks : WF_vars(Progress(t)) /\ SF_vars(FinishBatch(t))

FairSpec == Spec /\ Fairness

-----------------------------------------------------------------------------
(* Properties. *)

FlagsOK ==
  /\ failed \in BOOLEAN /\ closing \in BOOLEAN /\ closeReq \in BOOLEAN
  /\ permanent \in BOOLEAN /\ battleReq \in BOOLEAN /\ maint \in BOOLEAN
  /\ hud \in BOOLEAN /\ perf \in BOOLEAN
  /\ sawPermanent \in BOOLEAN /\ allowed \in BOOLEAN

TypeOK ==
  /\ client \in OrNone(Tasks)
  /\ connCtx \in OrNone(Contexts)
  /\ FlagsOK
  /\ lease \in OrNone(Tasks) /\ inv \in OrNone(Tasks)
  /\ refresh \in OrNone(Tasks) /\ batch \in OrNone(Tasks)
  /\ lock \in OrNone(Tasks) /\ snap \in OrNone(Tasks)
  /\ stopped \subseteq Tasks /\ aborted \subseteq Tasks
  /\ unknown \subseteq Tasks /\ lateStop \subseteq Tasks
  /\ pc \in [Tasks -> Pcs] /\ resume \in Pcs
  /\ target \in [Tasks -> OrNone(Tasks)]
  /\ seen \in [Tasks -> Contexts]
  /\ popped \in [Tasks -> OrNone(Tasks)]
  /\ alive \subseteq Tasks /\ crashed \subseteq Tasks
  /\ context \in Contexts

(* The application never runs two Cores at once: a new one is started only *)
(* when the one before it is gone, even while another thread is still      *)
(* aborting it outside _lock (_connect, _refresh_snapshot, _abort_battle). *)
AtMostOneCore == \A c, d \in alive : c = d

(* Every running Core is the session's, or a task is starting it or has    *)
(* taken it out of the session and will close it: none is left behind.     *)
NoOrphanCore ==
  \A c \in alive : client = c \/ pc[c] = "spawning" \/ \E t \in Tasks : popped[t] = c

(* No game-wide refresh runs while a battle holds the session, so that     *)
(* cancelling a refresh can never take the Core from under a battle        *)
(* ("Battle acquisition is excluded while this refresh owns the client").  *)
RefreshExcludesBattle == refresh # None => lease = None

(* From its creation until it is released or aborts itself, a battle lease *)
(* keeps the very Core it was given, whatever failing reads, other         *)
(* connections, idle closing, account switches or close() do meanwhile.    *)
BattleKeepsCore ==
  lease # None /\ lease \notin aborted =>
    client = target[lease] /\ client \in alive \cup crashed

(* While the update worker may replace the plugin files no Core runs and   *)
(* no equipment command is under way; the same once the outcome of the     *)
(* update is unknown and the gate stays shut.                              *)
UpdateExcludesCore ==
  \A m \in Of("maintain") : pc[m] \in {"updating", "uncertain"} =>
    /\ client = None /\ alive = {}
    /\ \A e \in Of("equip") : pc[e] # "sent"

(* An update is never reserved across a command of the synchronisation     *)
(* lease that holds the session: neither one that has been sent, nor one   *)
(* that has passed its check, nor one whose outcome is unknown.            *)
MaintenanceSeesWrites ==
  maint /\ inv # None =>
    /\ inv \notin unknown
    /\ \A e \in Of("equip") : target[e] = inv => pc[e] \notin {"ready", "sent"}

(* A session that is finishing waits for a battle, whose release finishes  *)
(* it; otherwise it would refuse every later connection.                   *)
ClosingHasBattle == closing => lease # None

(* Only the owner of the snapshot scope closes an idle session: no thread   *)
(* is inside a read, a refresh or a probe of the Core that is closed.       *)
IdleCloseSparesReads ==
  \A k \in Of("idleClose"), t \in Tasks :
    pc[k] = "finishing" /\ popped[k] # None /\ target[t] = popped[k] =>
      pc[t] \notin {"reading", "wanted", "refreshing", "paging", "battleRead"}

(* A close request is consumed only by a teardown: when it disappears the  *)
(* session has neither a Core nor a battle.                                *)
CloseRequestConsumed ==
  [][closeReq /\ ~closeReq' => client' = None /\ lease' = None]_vars

(* close() under a battle ends with the teardown of the session.           *)
CloseCompletes == closing ~> ~closing

(* A snapshot owner makes way for a battle that has asked for the session, *)
(* however long the game takes over the refresh in hand.                   *)
SnapshotYields ==
  \A r \in Readers : snap = r /\ battleReq ~> snap # r \/ ~battleReq

(* A synchronisation whose connection was replaced or lost lets go of the  *)
(* session, so that another one can begin.                                 *)
LostLeaseReleased ==
  \A s \in Of("sync") : inv = s /\ client # target[s] ~> inv # s

(* The maintenance gate opens again, unless the update ended with an       *)
(* unknown outcome.                                                        *)
MaintenanceEnds ==
  maint ~> ~maint \/ \E m \in Of("maintain") : pc[m] = "uncertain"

(* close_if_idle: "Release an unused connection without cancelling another *)
(* feature's work": no other task is about to read the Core it closes.     *)
IdleCloseSparesWork ==
  [][\A k \in Of("idleClose") : pc[k] = "idleLock" /\ pc'[k] = "finishing" =>
       \A t \in Readers : target[t] = client =>
         pc[t] \notin {"waitScope", "reading", "refreshing", "paging"}]_vars

(* request_close(permanent=True) is a "nonblocking revocation; the observer *)
(* owner performs RPC teardown later": once that teardown is done and no    *)
(* battle holds the session, no Core belongs to it.                         *)
ExitIsFinal ==
  (\E x \in Of("exit") : pc[x] = "done") /\ lease = None => client = None

-----------------------------------------------------------------------------
(* The session implements CoreOwnership: the Core that runs, and who has    *)
(* it.  A battle has it until its lease is released or aborts itself; an    *)
(* update, from the end of the drain until its outcome is known, or for     *)
(* ever.                                                                    *)

RunningCore == IF alive = {} THEN None ELSE CHOOSE c \in alive : TRUE

Updating == \E m \in Of("maintain") : pc[m] \in {"updating", "uncertain"}

CoreUser ==
  IF lease # None /\ lease \notin aborted THEN "battle"
  ELSE IF refresh # None THEN "refresh"
  ELSE IF Updating THEN "update"
  ELSE "nobody"

Ownership == INSTANCE CoreOwnership
  WITH Cores <- Tasks, core <- RunningCore, lost <- crashed, user <- CoreUser

(* Every behaviour of the session is one of its promise: whatever threads,  *)
(* crashes and account switches do, the Core has one exclusive user at a    *)
(* time, and only a crash takes it from a battle.                           *)
ImplementsOwnership == Ownership!Spec
=============================================================================
