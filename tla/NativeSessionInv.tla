-------------------------- MODULE NativeSessionInv --------------------------
(***************************************************************************)
(* The inductive invariant of NativeSession: who holds which lock, who     *)
(* holds the Core, and how the two are tied to where each thread stands.   *)
(* Its parts are what the code takes for granted between one critical      *)
(* section and the next.                                                   *)
(***************************************************************************)
EXTENDS NativeSession

(* _lock is held exactly by the thread that waits inside _connect or       *)
(* _finish_close.                                                          *)
LockInv ==
  /\ \A t \in Tasks : pc[t] \in LockedPcs <=> lock = t
  /\ resume \in {"done", "starting", "leaveBad", "idleRelease", "drained"}

Linking == {"connecting", "starting", "spawning", "connected"}

Scoped == {"scoped", "reading", "wanted", "refreshing", "paging", "unrefreshing",
           "fatal", "leave", "leaveBad", "handedOver", "handback", "handback2",
           "battleRead", "probing", "identified", "frozen", "ready", "sent",
           "unfreeze", "idleLock", "idleRelease", "drain", "drainRetry",
           "drained", "drainFailed"}

HoldsSnap(t) ==
  \/ pc[t] \in Scoped
  \/ pc[t] = "aborting" /\ Kind[t] # "battle"
  \/ /\ \/ pc[t] \in Linking
        \/ pc[t] = "finishing" /\ resume = "starting"
     /\ Kind[t] \in {"inspect", "battle"}
  \/ pc[t] = "finishing" /\ resume \in {"leaveBad", "idleRelease", "drained"}

(* _snapshot_lock: everything between entering and leaving a scope.        *)
SnapInv == \A t \in Tasks : HoldsSnap(t) => snap = t

(* Only battles run the calls of a capture, only readers refresh, and an   *)
(* idle close does nothing else.                                           *)
KindInv ==
  \A t \in Tasks :
    /\ pc[t] \in {"handoff", "handedOver", "handback", "handback2", "battle",
                  "battleRead", "stopping", "abort", "closeLease"}
         => Kind[t] = "battle"
    /\ pc[t] \in {"scoped", "reading", "wanted", "refreshing", "paging",
                  "unrefreshing", "fatal"} => t \in Readers
    /\ pc[t] = "aborting" => t \in Readers \cup Of("battle")
    /\ pc[t] \in Linking => t \in Connectors
    /\ pc[t] = "finishing" /\ resume = "starting" => t \in Connectors
    /\ pc[t] \in {"probing", "identified", "frozen", "ready", "sent", "unfreeze"}
         => Kind[t] = "equip"
    /\ Kind[t] = "idleClose" =>
         \/ pc[t] \in {"idle", "done", "idleLock", "idleRelease"}
         \/ pc[t] = "finishing" /\ resume = "idleRelease"

(* _refresh_active is the token of the thread that is inside               *)
(* _refresh_snapshot, and no battle holds the session meanwhile.           *)
Refreshing(t) ==
  \/ pc[t] \in {"refreshing", "unrefreshing"}
  \/ pc[t] = "aborting" /\ Kind[t] # "battle"

RefreshInv ==
  /\ \A t \in Tasks : Refreshing(t) <=> refresh = t
  /\ RefreshExcludesBattle

(* A Core is in one place: owned by the session, being started, or taken   *)
(* out by the one thread that will close it.                               *)
CoreInv ==
  /\ NoOrphanCore
  /\ \A t \in Tasks : popped[t] # None =>
       /\ pc[t] \in {"finishing", "aborting"}
       /\ client = None
       /\ \A u \in Tasks : popped[u] # None => u = t
  /\ \A t \in Tasks : pc[t] \in {"starting", "spawning"} =>
       client = None /\ lease = None /\ \A u \in Tasks : popped[u] = None
  /\ \A t \in Tasks : pc[t] = "finishing" =>
       /\ client = None /\ lease = None
       /\ resume = "starting" => \A u \in Tasks \ {t} : popped[u] = None
  /\ \A t \in Tasks : pc[t] = "spawning" => t \in alive \cup crashed
  /\ \A t \in Tasks : pc[t] = "connected" =>
       client = target[t] /\ client \in alive \cup crashed

(* The thread whose battle asks for the session: no other battle does, and *)
(* none holds it.                                                          *)
Asking(t) ==
  /\ Kind[t] = "battle"
  /\ \/ pc[t] \in {"handoff", "handedOver"} \cup Linking
     \/ pc[t] = "finishing" /\ resume = "starting"

BattleInv ==
  /\ \A t \in Tasks : Asking(t) => battleReq /\ lease = None
  /\ \A t \in Tasks : Kind[t] = "battle" /\ pc[t] = "handback" => battleReq
  /\ \A t, u \in Tasks :
       (Asking(t) \/ pc[t] = "handback") /\ (Asking(u) \/ pc[u] = "handback") => t = u
  /\ \A t \in Tasks : lease = t =>
       /\ Kind[t] = "battle"
       /\ pc[t] \in {"handback", "handback2", "battle", "waitScope", "battleRead",
                     "stopping", "abort", "aborting", "closeLease"}
  /\ \A t \in Tasks : pc[t] = "aborting" /\ Kind[t] = "battle" => lease = t
  /\ BattleKeepsCore

(* What the maintenance gate keeps away, from the reservation on and once  *)
(* the session is drained.                                                 *)
Drained(m) ==
  \/ pc[m] \in {"drained", "updating", "uncertain"}
  \/ pc[m] = "finishing" /\ resume = "drained"

Maintaining(m) ==
  \/ Drained(m)
  \/ pc[m] \in {"reserved", "draining", "drain", "drainRetry", "drainFailed", "reopen"}

MaintInv ==
  /\ maint =>
       /\ lease = None
       /\ \A t \in Tasks : /\ pc[t] \notin {"starting", "spawning", "connected"}
                           /\ pc[t] = "finishing" => resume # "starting"
  /\ \A m \in Tasks : Maintaining(m) => maint /\ Kind[m] = "maintain"
  /\ \A m \in Of("maintain") : pc[m] \in {"idle", "done"} \/ Maintaining(m)
  /\ \A m, n \in Tasks : Maintaining(m) /\ Maintaining(n) => m = n
  /\ \A m \in Tasks : Drained(m) =>
       /\ client = None /\ inv = None /\ refresh = None
       /\ alive \subseteq {popped[m]}
  /\ UpdateExcludesCore

(* The identity of an equipment batch is frozen while it sends commands,   *)
(* which it sends through a lease.                                         *)
WriteInv ==
  /\ \A e \in Of("equip") : pc[e] # "idle" => target[e] \in Tasks
  /\ \A e \in Tasks : pc[e] \in {"frozen", "ready", "sent", "unfreeze"} => batch = e
  /\ MaintenanceSeesWrites

IInv ==
  /\ TypeOK
  /\ LockInv
  /\ SnapInv
  /\ KindInv
  /\ RefreshInv
  /\ CoreInv
  /\ BattleInv
  /\ MaintInv
  /\ WriteInv
  /\ ClosingHasBattle
=============================================================================
