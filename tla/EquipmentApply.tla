--------------------------- MODULE EquipmentApply ---------------------------
(***************************************************************************)
(* A persisted job that equips several characters through the native       *)
(* channel and checks what the game made of it:                            *)
(*   services/bulk_equipment_apply_service.py      the run of a job        *)
(*   services/equipment_apply_recovery.py          dispatch and recovery   *)
(*   services/fast_equipment_execution.py          the steps of a role     *)
(*   services/bulk_equipment_apply_postcheck.py    check and repair        *)
(*   services/inventory_observation_wait.py        observations            *)
(*   storage/sqlite/equipment_apply_job_dao.py     the job and its items   *)
(*   features/inventory/equipment_assembly_controller.py   retry           *)
(*                                                                         *)
(* Step 1 of a role takes everything off, step k > 1 puts piece k on: one  *)
(* module each, or the whole plan at once (equip_one_key, NSteps = 2).     *)
(* held[r] is what the game shows on character r: pieces of its plan, and  *)
(* 1 for anything else.  A cursor of observations is kept as what it is    *)
(* compared for: seen and heard say that an observation was recorded after *)
(* the fence of the check and after the cursor of a recovery.  One thread  *)
(* runs the job; the synchronisation's worker collects and records         *)
(* observations; the user cancels, switches the account and retries.       *)
(* Assumed of the game: an accepted command has its effect, or has been    *)
(* dropped, when its settle interval ends.  Left out: the preflight of the *)
(* plans, the second protagonist, a revoked permission, the projection.    *)
(***************************************************************************)
EXTENDS Integers, FiniteSets

CONSTANTS
  NRoles, NSteps,   \* characters of the job, in its order; steps of each
  ShortRetries,     \* len(SHORT_DELAYS)
  MaxRecoveries,    \* MAX_SYNC_RECOVERIES
  MaxAttempts,      \* MAX_EQUIPMENT_APPLY_ATTEMPTS
  MayLag,           \* an observation may be recorded late, while commands are sent
  MaxRuns           \* bound: runs that are started or retried

ASSUME ApplyAssumption ==
  /\ NRoles \in Nat \ {0} /\ NSteps \in Nat /\ NSteps >= 2
  /\ ShortRetries \in Nat /\ MaxRecoveries \in Nat /\ MaxAttempts \in Nat \ {0}
  /\ MayLag \in BOOLEAN /\ MaxRuns \in Nat

VARIABLES
  held,             \* the game
  read, obs,        \* a collected inventory not yet recorded; _inventory_observation
  seen, heard,      \* obs is later than the fence of the check, than a recovery's cursor
  job, item,        \* equipment_apply_job.status, equipment_apply_job_item.status
  at, attempt,      \* where the run stands; 1: the first pass, above: repairs
  todo, pending,    \* roles left in this pass, roles not yet verified
  step, tries,      \* within the role: next command, its rejections
  recoveries,       \* _role_budgets
  batch,            \* the equipment batch is open: no snapshot is read
  kind,             \* failure_kind of the exception being handled
  verified,         \* the rows' verification: by which check
  cancelled, current,   \* cancel_event, the account of the job is the active one
  retryable,        \* the controller offers to retry the failed role
  sent, done,       \* history: how often the game took a step of the role's last
                    \* attempt; the steps accepted by it or confirmed by a recovery
  unknown,          \* history: a command of this job ended with an unknown outcome
  cut,              \* history: the last run was cut short in its repairs
  runs

game == <<held, sent, done>>
sync == <<read, obs, seen, heard>>
db == <<job, item>>
run == <<attempt, todo, pending, step, tries, recoveries, kind, verified>>
user == <<cancelled, current, retryable>>
vars == <<game, sync, db, at, run, batch, user, unknown, cut, runs>>

Roles == 1..NRoles
Steps == 1..NSteps
Plan == 2..NSteps
None == [r \in {} |-> {}]
Unsent == [k \in Steps |-> 0]
First == CHOOSE r \in todo : \A s \in todo : r <= s
Stopped == cancelled \/ ~current         \* check() raises CancelledError
Effect(r, k) == [held EXCEPT ![r] = IF k = 1 THEN {} ELSE held[r] \cup {k}]

Init ==
  /\ held \in [Roles -> {{1}, Plan}]
  /\ read = None /\ obs = held /\ seen = FALSE /\ heard = FALSE
  /\ job = "none" /\ item = [r \in Roles |-> "pending"]
  /\ at = "idle" /\ attempt = 1 /\ todo = {} /\ pending = {}
  /\ step = 1 /\ tries = 0 /\ recoveries = [r \in Roles |-> 0]
  /\ batch = FALSE /\ kind = "" /\ verified = [r \in Roles |-> "no"]
  /\ cancelled = FALSE /\ current = TRUE /\ retryable = FALSE
  /\ sent = [r \in Roles |-> Unsent] /\ done = [r \in Roles |-> {}]
  /\ unknown = FALSE /\ cut = FALSE /\ runs = 0

-----------------------------------------------------------------------------
(* The synchronisation's worker: the batch holds the lock it collects under *)

Collect ==
  /\ ~batch /\ read = None /\ read' = held
  /\ UNCHANGED <<game, obs, seen, heard, db, at, run, batch, user, unknown, cut, runs>>

Record ==
  /\ read # None /\ obs' = read /\ read' = None
  /\ seen' = TRUE /\ heard' = (at = "wait")
  /\ UNCHANGED <<game, db, at, run, batch, user, unknown, cut, runs>>

-----------------------------------------------------------------------------
(* A run: the lock of the batch, then one role after the other *)

Begin(roles) ==      \* BulkEquipmentApplyService._run, with a new EquipmentApplyRecovery
  /\ at = "idle" /\ runs < MaxRuns /\ current
  /\ runs' = runs + 1 /\ at' = "open"
  /\ attempt' = 1 /\ todo' = roles /\ pending' = roles
  /\ step' = 1 /\ tries' = 0 /\ recoveries' = [r \in Roles |-> 0]
  /\ kind' = "" /\ verified' = [r \in Roles |-> "no"]
  /\ cancelled' = FALSE /\ retryable' = FALSE /\ cut' = FALSE
  /\ UNCHANGED <<held, sync, batch, current>>

Start ==
  /\ Begin(Roles)
  /\ job' = "prepared" /\ item' = [r \in Roles |-> "pending"]
  /\ sent' = [r \in Roles |-> Unsent] /\ done' = [r \in Roles |-> {}] /\ unknown' = FALSE

\* The items are read before the failed ones are reset.
Retry ==
  /\ retryable /\ Begin({r \in Roles : item[r] # "succeeded"})
  /\ job' = "prepared"
  /\ item' = [r \in Roles |-> IF item[r] = "failed" THEN "pending" ELSE item[r]]
  /\ UNCHANGED <<sent, done, unknown>>

\* The run leaves by an exception: the batch is closed, nothing more is recorded.
Raise ==
  /\ at' = "idle" /\ batch' = FALSE /\ cut' = (attempt > 1)
  /\ UNCHANGED <<game, sync, db, run, user, unknown, runs>>

Opened == (MayLag \/ read = None) /\ batch' = TRUE

Open ==
  /\ at = "open" /\ ~Stopped /\ Opened /\ at' = "role"
  /\ UNCHANGED <<game, sync, db, run, user, unknown, cut, runs>>

OpenFails == at = "open" /\ Raise

\* begin_role: the recoveries of the role are kept.
BeginRole ==
  /\ step' = 1 /\ tries' = 0 /\ kind' = ""
  /\ sent' = [sent EXCEPT ![First] = Unsent] /\ done' = [done EXCEPT ![First] = {}]
  /\ at' = "send"

NextRole ==
  /\ at = "role" /\ todo # {} /\ ~Stopped
  /\ item' = [item EXCEPT ![First] = "running"] /\ job' = "running"
  /\ BeginRole
  /\ UNCHANGED <<held, sync, attempt, todo, pending, recoveries, verified,
                 batch, user, unknown, cut, runs>>

NotDispatched ==     \* the plan fails its checks: begin_role is not reached
  /\ at = "role" /\ todo # {} /\ ~Stopped
  /\ item' = [item EXCEPT ![First] = "running"] /\ job' = "running"
  /\ at' = "fail" /\ kind' = "refused"
  /\ UNCHANGED <<game, sync, attempt, todo, pending, step, tries, recoveries, verified,
                 batch, user, unknown, cut, runs>>

RoleCancelled == at = "role" /\ Stopped /\ Raise

RoleDone ==
  /\ at = "mark" /\ attempt = 1 /\ current
  /\ item' = [item EXCEPT ![First] = "succeeded"]
  /\ todo' = todo \ {First} /\ at' = "role"
  /\ UNCHANGED <<game, sync, job, attempt, pending, step, tries, recoveries, kind,
                 verified, batch, user, unknown, cut, runs>>

RoleDoneLate ==      \* check_current raises before the item is saved, and in the handler
  /\ at = "mark" /\ attempt = 1 /\ ~current /\ Raise

Offered_Unknown == kind \in {"stopped", "refused", "unknown"}

\* Only these failures leave the role to be retried by the user.
Offered == kind \in {"stopped", "refused"}

RoleFailed ==
  /\ at = "fail" /\ attempt = 1 /\ current
  /\ item' = [item EXCEPT ![First] = "failed"] /\ job' = "failed"
  /\ at' = "idle" /\ batch' = FALSE /\ retryable' = Offered
  /\ UNCHANGED <<game, sync, run, cancelled, current, unknown, cut, runs>>

RoleFailedLate == at = "fail" /\ attempt = 1 /\ ~current /\ Raise

AllSent ==           \* the batch is left before the check
  /\ at = "role" /\ todo = {} /\ ~Stopped
  /\ batch' = FALSE /\ at' = "post"
  /\ UNCHANGED <<game, sync, db, run, user, unknown, cut, runs>>

-----------------------------------------------------------------------------
(* EquipmentApplyRecovery.dispatch *)

Goto(p) ==
  /\ at' = p
  /\ UNCHANGED <<game, sync, db, run, batch, user, unknown, cut, runs>>

Fail(k) ==
  /\ at' = "fail" /\ kind' = k
  /\ UNCHANGED <<game, sync, db, attempt, todo, pending, step, tries, recoveries,
                 verified, batch, user, unknown, cut, runs>>

Cancelled == at \in {"send", "settle", "recover", "wait"} /\ Stopped /\ Fail("cancelled")

Fence_Missing == UNCHANGED seen

\* last_dispatch_observation_cursor is the fence of the first check only.
Fence == seen' = IF attempt = 1 THEN FALSE ELSE seen

Take(r, k) == sent' = [sent EXCEPT ![r][k] = @ + 1]
Met(r, k) == done' = [done EXCEPT ![r] = @ \cup {k}]

Accepted ==          \* the game carries the command out, or drops it
  /\ at = "send" /\ ~Stopped /\ Fence
  /\ held' \in {held, Effect(First, step)} /\ Take(First, step) /\ Met(First, step)
  /\ at' = "settle"
  /\ UNCHANGED <<read, obs, heard, db, run, batch, user, unknown, cut, runs>>

Rejected ==          \* before it was dispatched: the same command is sent again
  /\ at = "send" /\ ~Stopped /\ Fence /\ tries < ShortRetries
  /\ tries' = tries + 1
  /\ UNCHANGED <<game, read, obs, heard, db, at, attempt, todo, pending, step, recoveries,
                 kind, verified, batch, user, unknown, cut, runs>>

RejectedAgain ==
  /\ at = "send" /\ ~Stopped /\ Fence /\ tries = ShortRetries /\ at' = "recover"
  /\ UNCHANGED <<game, read, obs, heard, db, run, batch, user, unknown, cut, runs>>

Refused ==           \* by an error that is not a rejection before dispatch
  /\ at = "send" /\ ~Stopped /\ Fence
  /\ at' = "fail" /\ kind' = "refused"
  /\ UNCHANGED <<game, read, obs, heard, db, attempt, todo, pending, step, tries,
                 recoveries, verified, batch, user, unknown, cut, runs>>

NoAnswer_SentAgain ==
  /\ at = "send" /\ ~Stopped /\ Fence /\ tries < ShortRetries
  /\ held' \in {held, Effect(First, step)} /\ Take(First, step)
  /\ tries' = tries + 1
  /\ UNCHANGED <<done, read, obs, heard, db, at, attempt, todo, pending, step, recoveries,
                 kind, verified, batch, user, unknown, cut, runs>>

NoAnswer ==          \* timeout, or the connection is lost: the effect is not known
  /\ at = "send" /\ ~Stopped /\ Fence
  /\ held' \in {held, Effect(First, step)} /\ Take(First, step)
  /\ at' = "fail" /\ kind' = "unknown" /\ unknown' = TRUE
  /\ UNCHANGED <<done, read, obs, heard, db, attempt, todo, pending, step, tries, recoveries,
                 verified, batch, user, cut, runs>>

StepDone_OneShort ==
  /\ IF step + 1 = NSteps THEN at' = "mark" /\ step' = step
                          ELSE at' = "send" /\ step' = step + 1
  /\ tries' = 0

StepDone ==
  /\ IF step = NSteps THEN at' = "mark" /\ step' = step
                      ELSE at' = "send" /\ step' = step + 1
  /\ tries' = 0

Settle ==
  /\ at = "settle" /\ ~Stopped /\ StepDone
  /\ UNCHANGED <<game, sync, db, attempt, todo, pending, recoveries, kind, verified,
                 batch, user, unknown, cut, runs>>

\* The identity of the source changed, or the seconds of the role are spent.
StopRecovery == at \in {"send", "recover", "wait"} /\ ~Stopped /\ Fail("stopped")

Release ==           \* _recover: the batch is closed so that a snapshot can be read
  /\ at = "recover" /\ ~Stopped /\ recoveries[First] < MaxRecoveries
  /\ recoveries' = [recoveries EXCEPT ![First] = @ + 1]
  /\ heard' = FALSE /\ batch' = FALSE /\ at' = "wait"
  /\ UNCHANGED <<game, read, obs, seen, db, attempt, todo, pending, step, tries, kind,
                 verified, user, unknown, cut, runs>>

\* The step shows in the rows (reset_confirmed, one_key_confirmed, module_plan_mismatch).
Confirmed ==
  IF step = 1 THEN obs[First] = {}
              ELSE IF NSteps = 2 THEN obs[First] = Plan ELSE step \in obs[First]

Resume ==            \* a new observation; the batch is opened again
  /\ at = "wait" /\ ~Stopped /\ heard /\ Opened
  /\ \/ Confirmed /\ StepDone /\ Met(First, step)
     \/ ~Confirmed /\ at' = "send" /\ tries' = 0 /\ UNCHANGED <<step, done>>
  /\ heard' = FALSE
  /\ UNCHANGED <<held, sent, read, obs, seen, db, attempt, todo, pending, recoveries, kind, verified,
                 user, unknown, cut, runs>>

-----------------------------------------------------------------------------
(* postcheck_and_repair *)

Check == at = "post" /\ ~Stopped

PostStops ==         \* cancelled, or the source is not the same any more
  /\ at \in {"post", "retry", "repair", "complete"} /\ Stopped /\ Raise

SourceChanged == at = "post" /\ Raise

Again(rows) ==       \* what is left is repaired, unless this was the last attempt
  /\ pending' = rows
  /\ IF rows = {} \/ attempt = MaxAttempts
       THEN at' = "complete" /\ UNCHANGED attempt
       ELSE at' = "retry" /\ attempt' = attempt + 1

By == IF attempt = 1 THEN "first" ELSE "later"

FullCheck ==         \* verify_complete_snapshot; the fields of some rows may be incomplete
  /\ Check /\ seen
  /\ \E broken \in SUBSET pending : LET good == {r \in pending \ broken : obs[r] = Plan} IN
       /\ verified' = [r \in Roles |-> IF r \in good THEN By ELSE verified[r]]
       /\ item' = [r \in Roles |-> IF r \in good THEN "succeeded" ELSE item[r]]
       /\ \/ broken = {} /\ Again(pending \ good)
          \/ broken # {} /\ pending' = pending \ good /\ at' = "complete" /\ UNCHANGED attempt
  /\ UNCHANGED <<game, sync, job, todo, step, tries, recoveries, kind, batch, user,
                 unknown, cut, runs>>

ScopedCheck ==       \* no full snapshot in time: fragments match, mismatch or are missing
  /\ Check
  /\ \E good, bad \in SUBSET pending :
       /\ good \cap bad = {}
       /\ verified' = [r \in Roles |-> IF r \in good THEN "scoped" ELSE verified[r]]
       /\ item' = [r \in Roles |-> IF r \in good THEN "succeeded" ELSE item[r]]
       /\ Again(bad)
  /\ UNCHANGED <<game, sync, job, todo, step, tries, recoveries, kind, batch, user,
                 unknown, cut, runs>>

RetryFence ==        \* the cursor is read here, the batch is opened later
  /\ at = "retry" /\ ~Stopped
  /\ seen' = FALSE /\ todo' = pending /\ at' = "repair"
  /\ UNCHANGED <<game, read, obs, heard, db, attempt, pending, step, tries, recoveries,
                 kind, verified, batch, user, unknown, cut, runs>>

Repair ==            \* dispatch_retry_attempt: a batch for each role
  /\ at = "repair" /\ todo # {} /\ ~Stopped /\ Opened /\ BeginRole
  /\ UNCHANGED <<held, sync, db, attempt, todo, pending, recoveries, verified, user,
                 unknown, cut, runs>>

RepairFails ==       \* the batch cannot be opened
  /\ at = "repair" /\ todo # {} /\ ~Stopped /\ Fail("stopped")

RepairDone ==
  /\ at = "mark" /\ attempt > 1
  /\ todo' = todo \ {First} /\ batch' = FALSE /\ at' = "repair"
  /\ UNCHANGED <<game, sync, db, attempt, pending, step, tries, recoveries, kind,
                 verified, user, unknown, cut, runs>>

RepairFailed ==      \* no later role is dispatched
  /\ at = "fail" /\ attempt > 1 /\ ~Stopped /\ kind # "cancelled"
  /\ item' = [item EXCEPT ![First] = "failed"] /\ job' = "failed"
  /\ batch' = FALSE /\ at' = "complete"
  /\ UNCHANGED <<game, sync, run, user, unknown, cut, runs>>

RepairRaises ==      \* CancelledError, or the check before the item is saved
  /\ at = "fail" /\ attempt > 1 /\ (Stopped \/ kind = "cancelled") /\ Raise

AllRepaired == at = "repair" /\ todo = {} /\ ~Stopped /\ Goto("post")

Complete ==          \* complete_equipment_apply_job_if_done
  /\ at = "complete" /\ ~Stopped
  /\ job' = IF \A r \in Roles : item[r] = "succeeded" THEN "completed" ELSE job
  /\ at' = "idle"
  /\ UNCHANGED <<game, sync, item, run, batch, user, unknown, cut, runs>>

-----------------------------------------------------------------------------
(* The user, and the end of the process *)

Cancel ==
  /\ at # "idle" /\ ~cancelled /\ cancelled' = TRUE
  /\ UNCHANGED <<game, sync, db, at, run, batch, current, retryable, unknown, cut, runs>>

SwitchAccount ==
  /\ at # "idle" /\ current /\ current' = FALSE
  /\ UNCHANGED <<game, sync, db, at, run, batch, cancelled, retryable, unknown, cut, runs>>

\* Nothing is left of the run; a command that was being sent may have its effect.
Crash ==
  /\ at # "idle"
  /\ \/ UNCHANGED game
     \/ at = "send" /\ held' = Effect(First, step) /\ Take(First, step) /\ UNCHANGED done
  /\ at' = "idle" /\ batch' = FALSE /\ retryable' = FALSE /\ cut' = (attempt > 1)
  /\ read' = None /\ seen' = FALSE /\ heard' = FALSE
  /\ UNCHANGED <<obs, db, run, cancelled, current, unknown, runs>>

-----------------------------------------------------------------------------

Send == Accepted \/ Rejected \/ RejectedAgain \/ Refused \/ NoAnswer

Run ==
  \/ Open \/ OpenFails \/ NextRole \/ NotDispatched \/ RoleCancelled
  \/ RoleDone \/ RoleDoneLate \/ RoleFailed \/ RoleFailedLate \/ AllSent
  \/ Cancelled \/ Send \/ Settle \/ StopRecovery \/ Release \/ Resume
  \/ PostStops \/ SourceChanged \/ FullCheck \/ ScopedCheck \/ RetryFence
  \/ Repair \/ RepairFails \/ RepairDone \/ RepairFailed \/ RepairRaises
  \/ AllRepaired \/ Complete

Next ==
  \/ Start \/ Retry \/ Collect \/ Record \/ Run
  \/ Cancel \/ SwitchAccount \/ Crash

Spec == Init /\ [][Next]_vars

\* The worker of the job runs; the synchronisation's worker finishes what it saves.
Fairness == WF_vars(Run) /\ WF_vars(Record)
FairSpec == Spec /\ Fairness

-----------------------------------------------------------------------------
(* Properties *)

Statuses == {"pending", "running", "succeeded", "failed"}

\* Types of the state.
TypeOK ==
  /\ held \in [Roles -> SUBSET Steps] /\ obs \in [Roles -> SUBSET Steps]
  /\ read \in [Roles -> SUBSET Steps] \cup {None}
  /\ seen \in BOOLEAN /\ heard \in BOOLEAN
  /\ job \in {"none", "prepared", "running", "failed", "completed"}
  /\ item \in [Roles -> Statuses]
  /\ at \in {"idle", "open", "role", "send", "settle", "recover", "wait", "mark",
             "fail", "post", "retry", "repair", "complete"}
  /\ attempt \in 1..MaxAttempts /\ todo \subseteq Roles /\ pending \subseteq Roles
  /\ step \in Steps /\ tries \in 0..ShortRetries
  /\ recoveries \in [Roles -> 0..MaxRecoveries]
  /\ batch \in BOOLEAN /\ kind \in {"", "cancelled", "stopped", "refused", "unknown"}
  /\ verified \in [Roles -> {"no", "first", "later", "scoped"}]
  /\ cancelled \in BOOLEAN /\ current \in BOOLEAN /\ retryable \in BOOLEAN
  /\ sent \in [Roles -> [Steps -> Nat]] /\ unknown \in BOOLEAN /\ cut \in BOOLEAN
  /\ runs \in 0..MaxRuns

\* A command the game took, or may have taken, is not sent again in the same
\* attempt: only one rejected before dispatch is.
TakenOnce == \A r \in Roles, k \in Steps : sent[r][k] <= 1

\* After an unknown outcome the job sends nothing more, not even on a retry.
NoSendAfterUnknown == [][unknown /\ unknown' => UNCHANGED sent]_vars

\* No role is sent anything while another one of the job is marked failed.
StopsAtFailure ==
  [][(\E r \in Roles : item[r] = "failed" /\ item'[r] = "failed") => UNCHANGED sent]_vars

Partial(r) == (\E k \in Steps : sent[r][k] > 0) /\ done[r] # Steps

\* A character that only got a part of its commands, whatever ended the run, is
\* never left marked as done, except by a repair that was cut short.
PartialIsMarked ==
  \A r \in Roles : Partial(r) /\ item[r] = "succeeded" =>
    attempt > 1 /\ (at # "idle" \/ cut)

\* The same without the exception.
NeverStripped ==
  at = "idle" => \A r \in Roles : item[r] = "succeeded" => ~Partial(r)

\* A completed job sent every character its whole plan.
CompletedMeansSent == job = "completed" => \A r \in Roles : done[r] = Steps

\* Commands are never sent to a later character before an earlier one got all of
\* its own: what a failed first pass leaves to the user is one partial character.
OnePartial ==
  \A r, s \in Roles : Partial(r) /\ Partial(s) => r = s

\* What the first check confirms by a full inventory is what the game shows.
FirstCheckSound == \A r \in Roles : verified[r] = "first" => held[r] = Plan

\* The same of every check by a full inventory.
VerifiedHolds == \A r \in Roles : verified[r] \in {"first", "later"} => held[r] = Plan

\* What a check by a full inventory calls incomplete is so: the repair that
\* follows takes everything off the character.
MismatchIsReal ==
  [][FullCheck /\ at' = "retry" => \A r \in pending' : held[r] # Plan]_vars

\* A run ends, whatever the game, the source and the observations do.
RunEnds == at # "idle" ~> at = "idle"
=============================================================================
