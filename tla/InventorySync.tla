--------------------------- MODULE InventorySync ---------------------------
(***************************************************************************)
(* The inventory synchronisation with the native source, and the jobs that *)
(* change equipment under its full-inventory guard:                        *)
(*   services/inventory_sync_service.py       guard, event callback        *)
(*   services/inventory_sync_runtime.py       the worker's loop            *)
(*   services/inventory_snapshot_stabilizer.py                             *)
(*   services/native_inventory_lease.py       status(), confirm            *)
(*   services/warehouse_state_management.py   warehouse jobs               *)
(*   services/bulk_equipment_apply_service.py bulk jobs                    *)
(*   storage/sqlite/inventory_*_dao.py        snapshots and their overlay  *)
(*                                                                         *)
(* An inventory is a function from the items the player has to a Boolean,  *)
(* the state that commands change (locked, equipped): its domain is the    *)
(* set of UIDs, the function itself the fingerprint.  Commands set Target. *)
(* One worker thread runs the loop and, within status(), the callback of   *)
(* the events; each job is a thread.  Left out: stopping, failures that    *)
(* end the worker, observations (_record_inventory_observation), the       *)
(* repairs of a bulk job, character profiles and retention.                *)
(***************************************************************************)
EXTENDS Integers, Sequences, FiniteSets

CONSTANTS
  Items,          \* UIDs
  Target,         \* the item whose state the jobs change
  Jobs, Bulk,     \* jobs; those of the bulk service, the others are the warehouse's
  Moves,          \* what the player does: any of "toggle", "lose", "find"
  MaxRev,         \* bound: the player changes the game below this revision only
  MaxFails,       \* bound: failed saves
  MaxTimeouts     \* bound: control_timeout and other transient errors of status

ASSUME ConstantsAssumption ==
  /\ Target \in Items /\ Bulk \subseteq Jobs
  /\ MaxRev \in Nat /\ MaxFails \in Nat /\ MaxTimeouts \in Nat

VARIABLES
  world, rev,       \* the game: its inventory and the revision of that domain
  accepted, sent,   \* NativeSnapshotChanges._accepted (0: none), lease._sequence
  readings,         \* history: the inventories that were accepted, by their sequence
  guard,            \* _snapshot_guard_token, _uids, _source_snapshot_id, _expires_at, _generation
  cursor, scoped,   \* _scoped_snapshot_cursor, _scoped_equipment_snapshots
  deltas, slot,     \* _pending_runtime_state_deltas, _latest_inventory_event
  at,               \* where the worker stands
  ev, allowed, source, taken,   \* its locals: event, guarded UIDs, their source, deltas
  known,            \* guard_generation of the loop
  cand, base, last, \* _candidate, _committed_fingerprint, _last_sequence
  settled,          \* settle_seconds have passed and retry_save_at is over
  phase, published, \* _state.phase, _state.last_snapshot_id
  db, overlay,      \* inventory_snapshot; inventory_item_runtime_state of the current one
  job,              \* the jobs' locals; seen: the events sent before the commands
  fails, timeouts

gameVars  == <<world, rev>>
leaseVars == <<accepted, sent, readings>>
bufVars   == <<cursor, scoped, deltas>>
locals    == <<ev, allowed, source, taken>>
stabVars  == <<cand, base, last>>
stateVars == <<phase, published>>
dbVars    == <<db, overlay>>
vars == <<gameVars, leaseVars, guard, bufVars, slot, at, locals, known, stabVars,
          settled, stateVars, dbVars, job, fails, timeouts>>

Contents == UNION {[S -> BOOLEAN] : S \in SUBSET Items}
Empty == [i \in {} |-> FALSE]
Nothing == [seq |-> 0, rev |-> 0, items |-> Empty]    \* no event, no candidate
Current == Len(db)                                   \* id of the current snapshot
Without(f, i) == [k \in DOMAIN f \ {i} |-> f[k]]
With(f, i, v) == [k \in DOMAIN f \cup {i} |-> IF k = i THEN v ELSE f[k]]

Init ==
  \* The saved snapshot is the baseline; the loop is about to poll for the first time.
  /\ world \in {[i \in S |-> FALSE] : S \in {T \in SUBSET Items : Target \in T}}
  /\ rev = 1 /\ accepted = 0 /\ sent = 0 /\ readings = [n \in {0} |-> world]
  /\ guard = [token |-> 0, uids |-> {}, source |-> 0, finished |-> FALSE, gen |-> 0]
  /\ cursor = 0 /\ scoped = <<>> /\ deltas = <<>> /\ slot = Nothing
  /\ at = "wake" /\ ev = Nothing /\ allowed = {} /\ source = 0 /\ taken = <<>>
  /\ known = 0 /\ cand = Nothing /\ base = world /\ last = 0 /\ settled = FALSE
  /\ phase = "waiting" /\ published = 1
  /\ db = <<[items |-> world, seq |-> 0, by |-> "worker"]>> /\ overlay = Empty
  /\ job = [j \in Jobs |-> [pc |-> "idle", plan |-> 0, uids |-> {}, token |-> 0,
                            fence |-> 0, seen |-> 0, packet |-> Nothing]]
  /\ fails = 0 /\ timeouts = 0

-----------------------------------------------------------------------------
(* The game *)

Change(w) == world' = w /\ rev' = rev + 1

\* The player changes an item, loses one or finds one.
Play(i) ==
  /\ rev < MaxRev
  /\ \/ "toggle" \in Moves /\ i \in DOMAIN world /\ Change(With(world, i, ~world[i]))
     \/ "lose" \in Moves /\ i \in DOMAIN world /\ Change(Without(world, i))
     \/ "find" \in Moves /\ i \notin DOMAIN world /\ Change(With(world, i, FALSE))
  /\ UNCHANGED <<leaseVars, guard, bufVars, slot, at, locals, known, stabVars,
                 settled, stateVars, dbVars, job, fails, timeouts>>

-----------------------------------------------------------------------------
(* status(): the worker holds the snapshot scope from Poll to EndStatus *)

InScope == at \in {"status", "read", "emit", "source", "count", "append",
                   "release", "slot", "final"}

Goto(p, q) == at = p /\ at' = q

Wait ==      \* the next status is not due
  /\ Goto("wake", "take")
  /\ UNCHANGED <<gameVars, leaseVars, guard, bufVars, slot, locals, known, stabVars,
                 settled, stateVars, dbVars, job, fails, timeouts>>

Poll ==
  /\ Goto("wake", "status")
  /\ UNCHANGED <<gameVars, leaseVars, guard, bufVars, slot, locals, known, stabVars,
                 settled, stateVars, dbVars, job, fails, timeouts>>

\* needs_refresh: an accepted revision is not read again.  A changed one is
\* read, or left alone for a while after the change or a failed read.
StatusCurrent ==
  /\ accepted = rev
  /\ Goto("status", "final")
  /\ UNCHANGED <<gameVars, leaseVars, guard, bufVars, slot, locals, known, stabVars,
                 settled, stateVars, dbVars, job, fails, timeouts>>

StatusDeferred ==
  /\ accepted # rev
  /\ Goto("status", "notReady")
  /\ UNCHANGED <<gameVars, leaseVars, guard, bufVars, slot, locals, known, stabVars,
                 settled, stateVars, dbVars, job, fails, timeouts>>

StatusTimeout ==
  /\ timeouts < MaxTimeouts
  /\ timeouts' = timeouts + 1
  /\ Goto("status", "notReady")
  /\ UNCHANGED <<gameVars, leaseVars, guard, bufVars, slot, locals, known, stabVars,
                 settled, stateVars, dbVars, job, fails>>

Read ==
  /\ accepted # rev
  /\ Goto("status", "read")
  /\ ev' = [seq |-> sent + 1, rev |-> rev, items |-> world]
  /\ UNCHANGED <<gameVars, leaseVars, guard, bufVars, slot, allowed, source, taken,
                 known, stabVars, settled, stateVars, dbVars, job, fails, timeouts>>

\* Mutant: no second check.
Fresh_NoCheck == TRUE

\* The revision is checked once more; only an unchanged one is accepted and emitted.
Fresh == ev.rev = rev

Accept ==
  /\ at = "read"
  /\ IF Fresh
       THEN /\ at' = "emit" /\ accepted' = rev /\ sent' = ev.seq
            /\ readings' = With(readings, ev.seq, ev.items)
       ELSE at' = "notReady" /\ UNCHANGED leaseVars
  /\ UNCHANGED <<gameVars, guard, bufVars, slot, locals, known, stabVars,
                 settled, stateVars, dbVars, job, fails, timeouts>>

(* _on_inventory_event, a callback within status() *)

ReadGuard ==
  /\ at = "emit"
  /\ allowed' = guard.uids
  /\ at' = IF guard.uids = {} THEN "slot" ELSE "source"
  /\ UNCHANGED <<gameVars, leaseVars, guard, bufVars, slot, ev, source, taken, known,
                 stabVars, settled, stateVars, dbVars, job, fails, timeouts>>

ReadSource ==
  /\ Goto("source", "count")
  /\ source' = guard.source
  /\ UNCHANGED <<gameVars, leaseVars, guard, bufVars, slot, ev, allowed, taken, known,
                 stabVars, settled, stateVars, dbVars, job, fails, timeouts>>

CheckGuard ==
  /\ at = "count"
  /\ at' = IF allowed = guard.uids /\ DOMAIN ev.items \cap allowed # {}
             THEN "append" ELSE "slot"
  /\ UNCHANGED <<gameVars, leaseVars, guard, bufVars, slot, locals, known, stabVars,
                 settled, stateVars, dbVars, job, fails, timeouts>>

AppendScoped ==
  /\ at = "append"
  /\ cursor' = cursor + 1
  /\ scoped' = Append(scoped, [cursor |-> cursor + 1, ev |-> ev])
  /\ deltas' = IF source = 0 THEN deltas ELSE
       Append(deltas, [source |-> source, seq |-> ev.seq,
                       items |-> [i \in DOMAIN ev.items \cap allowed |-> ev.items[i]]])
  /\ at' = IF allowed \subseteq DOMAIN ev.items THEN "release" ELSE "slot"
  /\ UNCHANGED <<gameVars, leaseVars, guard, slot, locals, known, stabVars, settled,
                 stateVars, dbVars, job, fails, timeouts>>

NoGuard == [token |-> 0, uids |-> {}, source |-> 0, finished |-> FALSE, gen |-> guard.gen + 1]

\* Mutant: an unfinished one goes too.
MayRelease_Unfinished == guard.uids = allowed

\* The whole frozen inventory was seen: a guard kept for late responses may go.
MayRelease == guard.finished /\ guard.uids = allowed

ReleaseFinished ==
  /\ Goto("release", "slot")
  /\ guard' = IF MayRelease THEN NoGuard ELSE guard
  /\ UNCHANGED <<gameVars, leaseVars, bufVars, slot, locals, known, stabVars, settled,
                 stateVars, dbVars, job, fails, timeouts>>

FillSlot ==
  /\ Goto("slot", "final")
  /\ slot' = ev
  /\ UNCHANGED <<gameVars, leaseVars, guard, bufVars, locals, known, stabVars, settled,
                 stateVars, dbVars, job, fails, timeouts>>

\* The last question of status(): is the accepted revision still current?
EndStatus ==
  /\ at = "final"
  /\ at' = IF accepted = rev THEN "take" ELSE "notReady"
  /\ UNCHANGED <<gameVars, leaseVars, guard, bufVars, slot, locals, known, stabVars,
                 settled, stateVars, dbVars, job, fails, timeouts>>

Callback == ReadGuard \/ ReadSource \/ CheckGuard \/ AppendScoped \/ ReleaseFinished \/ FillSlot

-----------------------------------------------------------------------------
(* The worker's loop *)

Discard == cand' = Nothing /\ UNCHANGED <<base, last>>

NotReady ==
  /\ Goto("notReady", "wake")
  /\ Discard
  /\ slot' = Nothing
  /\ phase' = "waiting"
  /\ UNCHANGED <<gameVars, leaseVars, guard, bufVars, locals, known, settled,
                 published, dbVars, job, fails, timeouts>>

TakeEvent ==
  /\ at = "take"
  /\ at' = IF slot = Nothing THEN "settle" ELSE "deltas"
  /\ ev' = slot /\ slot' = Nothing
  /\ UNCHANGED <<gameVars, leaseVars, guard, bufVars, allowed, source, taken, known,
                 stabVars, settled, stateVars, dbVars, job, fails, timeouts>>

TakeDeltas ==
  /\ Goto("deltas", "apply")
  /\ taken' = deltas /\ deltas' = <<>>
  /\ UNCHANGED <<gameVars, leaseVars, guard, cursor, scoped, slot, ev, allowed, source,
                 known, stabVars, settled, stateVars, dbVars, job, fails, timeouts>>

\* apply_inventory_runtime_state_delta: rows of the current snapshot only; an
\* observation replaces an earlier one and every forced (projected) state.  The
\* code stores no sequence for a forced state; here it has that of its time.
Merged(d) ==
  LET old == DOMAIN overlay
      new == {i \in DOMAIN d.items \cap DOMAIN db[Current].items :
                i \in old => overlay[i].forced \/ overlay[i].seq <= d.seq}
  IN [i \in old \cup new |->
        IF i \in new THEN [state |-> d.items[i], seq |-> d.seq, forced |-> FALSE]
        ELSE overlay[i]]

ApplyDelta ==
  /\ at = "apply" /\ taken # <<>>
  /\ taken' = Tail(taken)
  /\ overlay' = IF Head(taken).source = Current THEN Merged(Head(taken)) ELSE overlay
  /\ UNCHANGED <<gameVars, leaseVars, guard, bufVars, slot, at, ev, allowed, source,
                 known, stabVars, settled, stateVars, db, job, fails, timeouts>>

\* inventory_guard_mismatch, sequence_not_new: nothing is taken from the event.
Ignored == (guard.uids # {} /\ DOMAIN ev.items # guard.uids) \/ ev.seq <= last
Duplicate(c) == c # Nothing /\ ev.items = c.items

\* InventorySnapshotStabilizer.offer, given the candidate c that it finds.
Offer(c) ==
  \/ Ignored /\ cand' = c /\ UNCHANGED <<base, last, settled, phase>>
  \/ /\ ~Ignored /\ last' = ev.seq /\ UNCHANGED base
     /\ \/ Duplicate(c) /\ cand' = c /\ UNCHANGED <<settled, phase>>
        \/ /\ ~Duplicate(c) /\ ev.items = base                  \* unchanged, reverted
           /\ cand' = Nothing /\ phase' = "listening" /\ UNCHANGED settled
        \/ /\ ~Duplicate(c) /\ ev.items # base                  \* collecting, changed
           /\ cand' = ev /\ settled' = FALSE /\ phase' = "collecting"

\* Mutant: the generation is not checked.
Kept_Always == cand

\* A candidate collected under another guard is discarded.
Kept == IF known = guard.gen THEN cand ELSE Nothing

\* The guard is read, a changed generation discards the candidate, the event is offered.
OfferEvent ==
  /\ at = "apply" /\ taken = <<>>
  /\ at' = "settle"
  /\ Offer(Kept)
  /\ known' = guard.gen
  /\ UNCHANGED <<gameVars, leaseVars, guard, bufVars, slot, locals, published, dbVars,
                 job, fails, timeouts>>

\* Time: the candidate has been quiet for settle_seconds, and no retry is pending.
Settle ==
  /\ cand # Nothing /\ ~settled
  /\ settled' = TRUE
  /\ UNCHANGED <<gameVars, leaseVars, guard, bufVars, slot, at, locals, known, stabVars,
                 stateVars, dbVars, job, fails, timeouts>>

Ready ==
  /\ at = "settle"
  /\ at' = IF cand # Nothing /\ settled THEN "confirm" ELSE "wake"
  /\ UNCHANGED <<gameVars, leaseVars, guard, bufVars, slot, locals, known, stabVars,
                 settled, stateVars, dbVars, job, fails, timeouts>>

\* Mutant: any accepted revision will do.
Confirmed_Accepted == accepted = rev

\* confirm_inventory_snapshot: the revision the candidate was read at.
Confirmed == accepted = rev /\ cand.rev = rev

Confirm ==
  /\ at = "confirm" /\ Confirmed
  /\ at' = "save" /\ phase' = "saving"
  /\ UNCHANGED <<gameVars, leaseVars, guard, bufVars, slot, locals, known, stabVars,
                 settled, published, dbVars, job, fails, timeouts>>

Refuse ==
  /\ at = "confirm"
  /\ \/ ~Confirmed /\ UNCHANGED timeouts
     \/ timeouts < MaxTimeouts /\ timeouts' = timeouts + 1
  /\ Discard
  /\ at' = "wake" /\ phase' = "waiting"
  /\ UNCHANGED <<gameVars, leaseVars, guard, bufVars, slot, locals, known, settled,
                 published, dbVars, job, fails>>

\* import_inventory_snapshot: one transaction, with a new current snapshot.
Import(e, who) ==
  /\ db' = Append(db, [items |-> e.items, seq |-> e.seq, by |-> who])
  /\ overlay' = Empty

MarkCommitted == base' = cand.items /\ cand' = Nothing /\ UNCHANGED last

Save ==
  /\ Goto("save", "publish")
  /\ Import(cand, "worker")
  /\ MarkCommitted
  /\ UNCHANGED <<gameVars, leaseVars, guard, bufVars, slot, locals, known, settled,
                 stateVars, job, fails, timeouts>>

FailSave ==
  /\ Goto("save", "wake")
  /\ fails < MaxFails /\ fails' = fails + 1
  /\ settled' = FALSE
  /\ phase' = "error"
  /\ UNCHANGED <<gameVars, leaseVars, guard, bufVars, slot, locals, known, stabVars,
                 published, dbVars, job, timeouts>>

\* The worker's last one, which need not be current any more.
LastSaved == CHOOSE n \in 1 .. Current :
               db[n].by = "worker" /\ \A m \in n + 1 .. Current : db[m].by # "worker"

Publish ==
  /\ Goto("publish", "wake")
  /\ published' = LastSaved
  /\ phase' = "listening"
  /\ UNCHANGED <<gameVars, leaseVars, guard, bufVars, slot, locals, known, stabVars,
                 settled, dbVars, job, fails, timeouts>>

Status == Poll \/ StatusCurrent \/ StatusDeferred \/ StatusTimeout \/ Read \/ Accept \/ EndStatus
Loop == Wait \/ NotReady \/ TakeEvent \/ TakeDeltas \/ ApplyDelta \/ OfferEvent
          \/ Ready \/ Confirm \/ Refuse \/ Save \/ FailSave \/ Publish

-----------------------------------------------------------------------------
(* The jobs *)

Step(j, p, q) == job[j].pc = p /\ job' = [job EXCEPT ![j].pc = q]

\* ensure_ready: a warehouse job needs a sync that listens.
CheckListening(j) ==
  /\ j \notin Bulk /\ phase = "listening"
  /\ Step(j, "idle", "ready")
  /\ UNCHANGED <<gameVars, leaseVars, guard, bufVars, slot, at, locals, known, stabVars,
                 settled, stateVars, dbVars, fails, timeouts>>

\* The snapshot the job is about, and its UIDs.  The warehouse has something to
\* change in it; without changes it installs no guard.
Pin(j) ==
  /\ job[j].pc = IF j \in Bulk THEN "idle" ELSE "ready"
  /\ Target \in DOMAIN db[Current].items
  /\ j \notin Bulk => ~db[Current].items[Target]
  /\ job' = [job EXCEPT ![j].pc = "pinned", ![j].plan = Current,
                        ![j].uids = DOMAIN db[Current].items]
  /\ UNCHANGED <<gameVars, leaseVars, guard, bufVars, slot, at, locals, known, stabVars,
                 settled, stateVars, dbVars, fails, timeouts>>

\* Mutant: any guard is replaced.
GuardFree_Always == TRUE

\* begin_full_inventory_guard replaces a finished guard only.
GuardFree == guard.token = 0 \/ guard.finished

BeginGuard(j) ==
  /\ job[j].pc = "pinned" /\ GuardFree
  /\ guard' = [token |-> guard.gen + 1, uids |-> job[j].uids, source |-> job[j].plan,
               finished |-> FALSE, gen |-> guard.gen + 1]
  /\ job' = [job EXCEPT ![j].pc = "clear", ![j].token = guard.gen + 1]
  /\ UNCHANGED <<gameVars, leaseVars, bufVars, slot, at, locals, known, stabVars,
                 settled, stateVars, dbVars, fails, timeouts>>

RefuseGuard(j) ==
  /\ ~GuardFree
  /\ Step(j, "pinned", "done")
  /\ UNCHANGED <<gameVars, leaseVars, guard, bufVars, slot, at, locals, known, stabVars,
                 settled, stateVars, dbVars, fails, timeouts>>

\* The buffers are cleared under another lock, after the guard has changed.
ClearBuffers == scoped' = <<>> /\ deltas' = <<>> /\ UNCHANGED cursor

Clear(j) ==
  /\ Step(j, "clear", IF j \in Bulk THEN "guarded" ELSE "fence")
  /\ ClearBuffers
  /\ UNCHANGED <<gameVars, leaseVars, guard, slot, at, locals, known, stabVars,
                 settled, stateVars, dbVars, fails, timeouts>>

ReadCursor(j) ==
  /\ job[j].pc = "fence"
  /\ job' = [job EXCEPT ![j].pc = "guarded", ![j].fence = cursor]
  /\ UNCHANGED <<gameVars, leaseVars, guard, bufVars, slot, at, locals, known, stabVars,
                 settled, stateVars, dbVars, fails, timeouts>>

\* The batch holds the snapshot scope.  A command is accepted or fails; the
\* game may have obeyed it in either case.
Dispatch(j) ==
  /\ job[j].pc = "guarded" /\ ~InScope
  /\ \/ UNCHANGED gameVars
     \/ Target \in DOMAIN world /\ ~world[Target] /\ Change(With(world, Target, TRUE))
  /\ \E q \in {"sent", "finishing"} : job' = [job EXCEPT ![j].pc = q, ![j].seen = sent]
  /\ UNCHANGED <<leaseVars, guard, bufVars, slot, at, locals, known, stabVars,
                 settled, stateVars, dbVars, fails, timeouts>>

\* apply_inventory_command_state_projection: forced, without a sequence.
Project(j) ==
  /\ Step(j, "sent", IF j \in Bulk THEN "finishing" ELSE "waiting")
  /\ overlay' = IF job[j].plan = Current
                  THEN With(overlay, Target, [state |-> TRUE, forced |-> TRUE,
                              seq |-> IF at = "read" THEN ev.seq ELSE sent])
                  ELSE overlay
  /\ UNCHANGED <<gameVars, leaseVars, guard, bufVars, slot, at, locals, known, stabVars,
                 settled, stateVars, db, fails, timeouts>>

\* finish_full_inventory_guard, by every bulk job and by a warehouse job that fails.
FinishGuard(j) ==
  /\ Step(j, "finishing", "done")
  /\ guard' = IF job[j].token = guard.token THEN [guard EXCEPT !.finished = TRUE] ELSE guard
  /\ UNCHANGED <<gameVars, leaseVars, bufVars, slot, at, locals, known, stabVars,
                 settled, stateVars, dbVars, fails, timeouts>>

\* _wait_for_confirmation: a later snapshot was published, or none in time.
SeeSnapshot(j) ==
  /\ published > job[j].plan
  /\ Step(j, "waiting", "ending")
  /\ UNCHANGED <<gameVars, leaseVars, guard, bufVars, slot, at, locals, known, stabVars,
                 settled, stateVars, dbVars, fails, timeouts>>

SeeNone(j) ==
  /\ published <= job[j].plan
  /\ Step(j, "waiting", "replace")
  /\ UNCHANGED <<gameVars, leaseVars, guard, bufVars, slot, at, locals, known, stabVars,
                 settled, stateVars, dbVars, fails, timeouts>>

\* wait_for_action_inventory_snapshot with timeout 0: the first that fits.
Packets(j) == {n \in DOMAIN scoped : /\ scoped[n].cursor > job[j].fence
                                     /\ Target \in DOMAIN scoped[n].ev.items}
Replaces(j) == Packets(j) # {} /\ job[j].plan = Current

FindPacket(j) ==
  /\ job[j].pc = "replace" /\ Replaces(j)
  /\ \E n \in Packets(j) :
       /\ \A m \in Packets(j) : n <= m
       /\ job' = [job EXCEPT ![j].pc = "import", ![j].packet = scoped[n].ev]
  /\ UNCHANGED <<gameVars, leaseVars, guard, bufVars, slot, at, locals, known, stabVars,
                 settled, stateVars, dbVars, fails, timeouts>>

FindNone(j) ==
  /\ ~Replaces(j)
  /\ Step(j, "replace", "ending")
  /\ UNCHANGED <<gameVars, leaseVars, guard, bufVars, slot, at, locals, known, stabVars,
                 settled, stateVars, dbVars, fails, timeouts>>

ReplaceSnapshot(j) ==
  /\ Step(j, "import", "ending")
  /\ Import(job[j].packet, "job")
  /\ UNCHANGED <<gameVars, leaseVars, guard, bufVars, slot, at, locals, known, stabVars,
                 settled, stateVars, fails, timeouts>>

EndGuard(j) ==
  /\ Step(j, "ending", IF job[j].token = guard.token THEN "ended" ELSE "done")
  /\ guard' = IF job[j].token = guard.token THEN NoGuard ELSE guard
  /\ UNCHANGED <<gameVars, leaseVars, bufVars, slot, at, locals, known, stabVars,
                 settled, stateVars, dbVars, fails, timeouts>>

ClearEnded(j) ==
  /\ Step(j, "ended", "done")
  /\ ClearBuffers
  /\ UNCHANGED <<gameVars, leaseVars, guard, slot, at, locals, known, stabVars,
                 settled, stateVars, dbVars, fails, timeouts>>

Job(j) ==
  \/ CheckListening(j) \/ Pin(j) \/ BeginGuard(j) \/ RefuseGuard(j) \/ Clear(j)
  \/ ReadCursor(j) \/ Dispatch(j) \/ Project(j) \/ FinishGuard(j) \/ SeeSnapshot(j)
  \/ SeeNone(j) \/ FindPacket(j) \/ FindNone(j) \/ ReplaceSnapshot(j)
  \/ EndGuard(j) \/ ClearEnded(j)

Next ==
  \/ \E i \in Items : Play(i)
  \/ Status \/ Callback \/ Loop \/ Settle
  \/ \E j \in Jobs : Job(j)

Spec == Init /\ [][Next]_vars

Worker == Status \/ Callback \/ Loop

\* The threads run.  A status is due every second and a changed revision is read
\* once its delay is over; who waits for the snapshot scope polls and gets it.
Fairness ==
  /\ WF_vars(Worker) /\ SF_vars(Poll) /\ SF_vars(Read) /\ WF_vars(Settle)
  /\ \A j \in Jobs : /\ SF_vars(Dispatch(j))
                     /\ WF_vars(Job(j) /\ job[j].pc \notin {"idle", "ready"})

FairSpec == Spec /\ Fairness

-----------------------------------------------------------------------------
(* Properties *)

Events == [seq : Nat, rev : Nat, items : Contents]
Stages == {"wake", "take", "status", "notReady", "read", "emit", "source", "count",
           "append", "release", "slot", "final", "deltas", "apply", "settle", "confirm",
           "save", "publish"}
JobStages == {"idle", "ready", "pinned", "clear", "fence", "guarded", "sent", "waiting",
              "replace", "import", "ending", "ended", "finishing", "done"}
Deltas == [source : Nat, seq : Nat, items : Contents]
Guards == [token : Nat, uids : SUBSET Items, source : Nat, finished : BOOLEAN, gen : Nat]
Scoped == [cursor : Nat, ev : Events]
Snapshots == [items : Contents, seq : Nat, by : {"worker", "job"}]
States == [state : BOOLEAN, seq : Nat, forced : BOOLEAN]
JobLocals == [pc : JobStages, plan : Nat, uids : SUBSET Items, token : Nat,
              fence : Nat, seen : Nat, packet : Events]
Phases == {"waiting", "collecting", "listening", "saving", "error"}

\* Every variable has the values the code gives it; a published snapshot exists.
TypeOK ==
  /\ world \in Contents /\ rev \in Nat /\ accepted \in Nat /\ sent \in Nat
  /\ guard \in Guards
  /\ cursor \in Nat /\ scoped \in Seq(Scoped)
  /\ deltas \in Seq(Deltas) /\ slot \in Events
  /\ at \in Stages /\ ev \in Events /\ allowed \in SUBSET Items /\ source \in Nat
  /\ taken \in Seq(Deltas) /\ known \in Nat
  /\ cand \in Events /\ base \in Contents /\ last \in Nat /\ settled \in BOOLEAN
  /\ phase \in Phases
  /\ db \in Seq(Snapshots)
  /\ published \in 1 .. Current
  /\ DOMAIN overlay \subseteq DOMAIN db[Current].items
  /\ overlay \in [DOMAIN overlay -> States]
  /\ job \in [Jobs -> JobLocals]
  /\ fails \in 0 .. MaxFails /\ timeouts \in 0 .. MaxTimeouts

Guarding == {"clear", "fence", "guarded", "sent", "waiting", "replace", "import",
             "ending", "finishing"}

\* From the installation of its guard to the end of it a job owns the guard: no
\* other job takes it over, no full inventory and no stale token releases it; and
\* an unfinished guard always has such a job, which will release or finish it.
GuardOwnership ==
  /\ \A j \in Jobs : job[j].pc \in Guarding =>
       job[j].token = guard.token /\ ~guard.finished /\ guard.uids = job[j].uids
  /\ guard.token # 0 /\ ~guard.finished => \E j \in Jobs : job[j].pc \in Guarding
  /\ \A j, k \in Jobs : job[j].pc \in Guarding /\ job[k].pc \in Guarding => j = k

\* Once the worker knows of a guard, its candidate has exactly the frozen items,
\* so that a response that lacks some can never become the current snapshot.
GuardedCandidateFull ==
  cand # Nothing /\ known = guard.gen /\ guard.token # 0 => DOMAIN cand.items = guard.uids

\* The snapshot that LastSaved chooses exists.
SavedInv ==
  \E n \in 1 .. Current :
    db[n].by = "worker" /\ \A m \in n + 1 .. Current : db[m].by # "worker"

\* A job changes an item of a snapshot that exists.
PlanInv ==
  \A j \in Jobs : job[j].pc \notin {"idle", "ready"} =>
    /\ job[j].plan \in 1 .. Current
    /\ job[j].uids = DOMAIN db[job[j].plan].items /\ Target \in job[j].uids

\* Tokens are never used again, and a guard always has items.
TokenInv ==
  /\ guard.token <= guard.gen /\ known <= guard.gen
  /\ guard.uids = {} => guard.token = 0
  /\ \A j \in Jobs : job[j].pc \in Guarding => job[j].token # 0

\* An event that was accepted: the last one has the accepted revision.
Accepted(e) ==
  e.seq <= sent /\ e.rev <= accepted /\ (e.rev = accepted => e.seq = sent)

\* Revisions and sequences: a reading is of a later revision than the accepted one.
ReadInv ==
  /\ accepted <= rev
  /\ at = "read" => accepted < rev /\ ev.seq = sent + 1
  /\ at \in {"emit", "source", "count", "append", "release", "slot", "deltas", "apply"}
       => Accepted(ev)
  /\ Accepted(slot) /\ Accepted(cand) /\ Accepted(Nothing)

\* Nothing that is buffered or shown is of a later event than the last one.
BufferInv ==
  /\ \A n \in DOMAIN scoped : scoped[n].ev.seq <= sent
  /\ \A j \in Jobs : job[j].packet.seq <= sent
  /\ \A n \in DOMAIN deltas : deltas[n].seq <= sent
  /\ \A n \in DOMAIN taken : taken[n].seq <= sent
  /\ \A i \in DOMAIN overlay : ~overlay[i].forced => overlay[i].seq <= sent

\* A candidate is later than all that the worker has saved, and saved as the last event.
SaveInv ==
  /\ cand.seq <= last
  /\ \A n \in 1 .. Current :
       /\ db[n].seq <= sent
       /\ db[n].by = "worker" => db[n].seq <= last /\ (cand # Nothing => db[n].seq < cand.seq)
  /\ at \in {"confirm", "save"} => cand # Nothing
  /\ at = "save" => cand.seq = sent

\* The inductive invariant of the proofs: with the two properties above of the
\* guard, of which neither the worker nor a job has a lock over several steps.
IInv ==
  /\ TypeOK /\ SavedInv /\ PlanInv /\ TokenInv /\ GuardOwnership /\ GuardedCandidateFull
  /\ ReadInv /\ BufferInv /\ SaveInv

\* An event of a reading that was accepted.
Reading(e) == e.seq \in 1..sent /\ e.items = readings[e.seq]

\* Observed states of items: those of a reading that is not older than their snapshot.
Observed(d) ==
  /\ d.seq \in 1..sent /\ d.source \in 1..Current /\ db[d.source].seq <= d.seq
  /\ \A i \in DOMAIN d.items :
       i \in DOMAIN readings[d.seq] /\ d.items[i] = readings[d.seq][i]

Emitting == {"emit", "source", "count", "append", "release", "slot"}

\* Whatever is on its way to the database is of a reading.
PromiseInv ==
  /\ DOMAIN readings = 0..sent
  /\ at = "read" => ev.rev <= rev /\ (ev.rev = rev => ev.items = world)
  /\ at \in Emitting \cup {"deltas", "apply"} => Reading(ev)
  /\ at \in Emitting => ev.seq = sent
  /\ slot # Nothing => Reading(slot)
  /\ cand # Nothing => Reading(cand)
  /\ \A n \in DOMAIN scoped : Reading(scoped[n].ev)
  /\ \A j \in Jobs : job[j].pc = "import" => Reading(job[j].packet)
  /\ guard.source \in 0..Current /\ source \in 0..Current
  /\ \A n \in DOMAIN deltas : Observed(deltas[n])
  /\ \A n \in DOMAIN taken : Observed(taken[n])

\* The application shows readings of the game, the worker's in their order, and the
\* states of single items from readings that are not older, or from commands.
Promise == INSTANCE InventoryPromise WITH game <- world, saved <- db, shown <- overlay
ImplementsPromise == Promise!Spec

\* A save of the worker never takes the shown inventory back: the current snapshot
\* and the states observed on top of it are not later than what replaces them.
SaveNeverRegresses ==
  [][Save => /\ db[Current].seq <= cand.seq
             /\ db[Current].by = "worker" => db[Current].seq < cand.seq
             /\ \A i \in DOMAIN overlay : ~overlay[i].forced => overlay[i].seq <= cand.seq]_vars

\* A guard that other items than the frozen ones have made permanent.
Blocked == guard.token # 0 /\ guard.uids # DOMAIN world

\* When the game becomes quiet its inventory is saved in the end, unless a guard
\* kept after its job waits for items that are no longer what the player has.
QuietInventorySaved == <>[](db[Current].items = world \/ Blocked)

\* A job that has installed its guard ends, and then no longer owns it.
JobsEnd == \A j \in Jobs : job[j].pc \in Guarding ~> job[j].pc = "done"

\* What the comment in the loop says: a candidate collected before a guard was
\* installed or removed does not settle afterwards.
SettlesUnderItsGuard == [][Confirm => known = guard.gen]_vars

\* The offered event is taken for unchanged.
Unchanged == OfferEvent /\ last' = ev.seq /\ cand' = Nothing

\* What the loop reports and records as unchanged is the current snapshot.
UnchangedIsStored ==
  [][Unchanged => ev.items = db[Current].items]_vars

\* An event that came after a projected command decides what is shown of its item.
LaterEventWins ==
  [][Unchanged /\ ev.items = db[Current].items =>
       \A i \in DOMAIN overlay : overlay[i].seq < ev.seq => overlay[i].state = ev.items[i]]_vars

\* An import of a job does not take the inventory back either.
ImportNotOlder ==
  [][\A j \in Jobs : ReplaceSnapshot(j) => db[Current].seq <= job[j].packet.seq]_vars

\* The packet that replaces the inventory is of the action: read after its commands.
OwnPacket == [][\A j \in Jobs : ReplaceSnapshot(j) => job[j].packet.seq > job[j].seen]_vars
=============================================================================
