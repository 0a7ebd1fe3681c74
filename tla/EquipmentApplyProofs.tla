------------------------- MODULE EquipmentApplyProofs -------------------------
(***************************************************************************)
(* Proofs about EquipmentApply, for every number of characters, steps,     *)
(* retries and attempts.  The inductive invariant is a conjunction of      *)
(* parts, each kept by every step by a lemma of its own:                   *)
(*   Types       the types;                                                *)
(*   InRole      where the run stands in its list of characters;           *)
(*   Once        which steps of the current character have been taken;     *)
(*   Doubt       an unknown outcome ends the run and offers no retry;      *)
(*   Failing     an item marked failed ends the run;                       *)
(*   Listed      the first pass works off what is not marked as done;      *)
(*   Progress    what the current character has got;                       *)
(*   Covered, Repaired, Finished   who has the whole plan;                 *)
(*   Single      only the current character can be partial.                *)
(* A second invariant, Fresh, says what the recorded observation tells of  *)
(* the game when none is recorded late.                                    *)
(***************************************************************************)
EXTENDS EquipmentApply, WellFoundedInduction, TLAPS

Places == {"idle", "open", "role", "send", "settle", "recover", "wait", "mark",
           "fail", "post", "retry", "repair", "complete"}

\* The run is busy with the first character of its list.
Busy == {"send", "settle", "recover", "wait", "mark", "fail"}

-----------------------------------------------------------------------------
(* The steps by what they do to the run *)

\* The run is left by an exception; it gives up a character; somebody interferes.
Leave == at # "idle" /\ Raise
GiveUp ==
  /\ at \in {"send", "settle", "recover", "wait", "repair"} /\ (at = "repair" => todo # {})
  /\ at' = "fail" /\ kind' \in {"cancelled", "stopped", "refused"}
  /\ seen' \in {seen, IF attempt = 1 THEN FALSE ELSE seen}
  /\ UNCHANGED <<game, read, obs, heard, db, attempt, todo, pending, step, tries, recoveries,
                 verified, batch, user, unknown, cut, runs>>
Ask ==
  /\ cancelled' \in BOOLEAN /\ current' \in BOOLEAN
  /\ UNCHANGED <<game, sync, db, at, run, batch, retryable, unknown, cut, runs>>

Shape ==
  \/ Start \/ Retry \/ Collect \/ Record \/ Open \/ NextRole \/ NotDispatched \/ RoleDone
  \/ RoleFailed \/ AllSent
  \/ Accepted \/ Rejected \/ RejectedAgain \/ NoAnswer \/ Settle \/ Release \/ Resume
  \/ FullCheck \/ ScopedCheck \/ RetryFence \/ Repair \/ RepairDone \/ RepairFailed
  \/ AllRepaired \/ Complete \/ Crash \/ Leave \/ GiveUp \/ Ask

LEMMA NextShape == cancelled \in BOOLEAN /\ current \in BOOLEAN /\ Next => Shape
<1> SUFFICES ASSUME cancelled \in BOOLEAN, current \in BOOLEAN, Next PROVE Shape
  OBVIOUS
<1>1. OpenFails \/ RoleCancelled \/ RoleDoneLate \/ RoleFailedLate \/ PostStops \/ SourceChanged
        \/ RepairRaises => Leave
  BY DEF OpenFails, RoleCancelled, RoleDoneLate, RoleFailedLate, PostStops, SourceChanged,
     RepairRaises, Check, Leave
<1>2. Cancelled \/ StopRecovery \/ RepairFails => GiveUp
  BY DEF Cancelled, StopRecovery, RepairFails, Fail, GiveUp, game, sync, db, user
<1>3. Refused => GiveUp
  BY DEF Refused, Fence, GiveUp
<1>4. Cancel \/ SwitchAccount => Ask
  BY DEF Cancel, SwitchAccount, Ask
<1> QED
  BY <1>1, <1>2, <1>3, <1>4 DEF Next, Run, Send, Shape

\* The head of the list.
LEMMA SmallestOf ==
  ASSUME NEW S \in SUBSET Nat, S # {}
  PROVE  \E x \in S : \A y \in S : x <= y
<1>1. PICK x \in S : \A y \in S : ~ (<<y, x>> \in OpToRel(<,Nat))
  BY WFMin, NatLessThanWellFounded
<1>2. \A y \in S : ~(y < x)
  BY <1>1 DEF OpToRel
<1> QED
  BY <1>2

LEMMA FirstIs ==
  ASSUME todo \subseteq Roles, todo # {}
  PROVE  First \in todo /\ First \in Roles
<1>1. todo \in SUBSET Nat
  BY ApplyAssumption DEF Roles
<1>2. \E x \in todo : \A y \in todo : x <= y
  BY <1>1, SmallestOf
<1> QED
  BY <1>2 DEF First

LEMMA SameFirst == todo' = todo => First' = First
  BY DEF First

\* Numbers that the steps assign.
LEMMA Bounds ==
  /\ 1 \in 1..MaxAttempts /\ 1 \in Steps /\ 0 \in 0..ShortRetries /\ 0 \in 0..MaxRecoveries
  /\ 0 \in 0..MaxRuns /\ 1 \in Roles /\ {1} \subseteq Steps /\ Plan \subseteq Steps
  /\ \A n \in 1..MaxAttempts : n # MaxAttempts => n + 1 \in 1..MaxAttempts
  /\ \A k \in Steps : k # NSteps => k + 1 \in Steps
  /\ \A n \in 0..ShortRetries : n < ShortRetries => n + 1 \in 0..ShortRetries
  /\ \A n \in 0..MaxRecoveries : n < MaxRecoveries => n + 1 \in 0..MaxRecoveries
  /\ \A n \in 0..MaxRuns : n < MaxRuns => n + 1 \in 0..MaxRuns
  BY ApplyAssumption DEF Steps, Plan, Roles

-----------------------------------------------------------------------------
(* Types *)

Failures == {"", "cancelled", "stopped", "refused", "unknown"}
RunTypes ==
  /\ at \in Places /\ attempt \in 1..MaxAttempts /\ todo \subseteq Roles /\ pending \subseteq Roles
  /\ step \in Steps /\ tries \in 0..ShortRetries /\ kind \in Failures
FlagTypes ==
  /\ seen \in BOOLEAN /\ heard \in BOOLEAN /\ batch \in BOOLEAN /\ cancelled \in BOOLEAN
  /\ current \in BOOLEAN /\ retryable \in BOOLEAN /\ unknown \in BOOLEAN /\ cut \in BOOLEAN
  /\ runs \in 0..MaxRuns
JobTypes ==
  /\ job \in {"none", "prepared", "running", "failed", "completed"}
  /\ item \in [Roles -> Statuses]
  /\ verified \in [Roles -> {"no", "first", "later", "scoped"}]
CountTypes == recoveries \in [Roles -> 0..MaxRecoveries]
GameTypes ==
  /\ held \in [Roles -> SUBSET Steps] /\ obs \in [Roles -> SUBSET Steps]
  /\ read \in [Roles -> SUBSET Steps] \cup {None}
HistoryTypes ==
  /\ sent \in [Roles -> [Steps -> Nat]] /\ done \in [Roles -> SUBSET Steps]

Types == RunTypes /\ FlagTypes /\ JobTypes /\ CountTypes /\ GameTypes /\ HistoryTypes

\* What the history records of a step.
LEMMA TakeGives ==
  ASSUME sent \in [Roles -> [Steps -> Nat]], NEW r \in Roles, NEW k \in Steps, Take(r, k)
  PROVE  /\ sent' \in [Roles -> [Steps -> Nat]]
         /\ \A x \in Roles, j \in Steps :
              sent'[x][j] = IF x = r /\ j = k THEN sent[x][j] + 1 ELSE sent[x][j]
<1>1. sent' = [sent EXCEPT ![r] = [sent[r] EXCEPT ![k] = sent[r][k] + 1]]
  BY DEF Take
<1>2. sent[r] \in [Steps -> Nat] /\ sent[r][k] + 1 \in Nat
  OBVIOUS
<1>3. [sent[r] EXCEPT ![k] = sent[r][k] + 1] \in [Steps -> Nat]
  BY <1>2
<1> QED
  BY <1>1, <1>2, <1>3

LEMMA MetGives ==
  ASSUME done \in [Roles -> SUBSET Steps], NEW r \in Roles, NEW k \in Steps, Met(r, k)
  PROVE  /\ done' \in [Roles -> SUBSET Steps]
         /\ \A x \in Roles : done'[x] = IF x = r THEN done[x] \cup {k} ELSE done[x]
  BY DEF Met

LEMMA BeginRoleGives ==
  ASSUME HistoryTypes, First \in Roles, BeginRole
  PROVE  /\ HistoryTypes'
         /\ \A x \in Roles : sent'[x] = IF x = First THEN Unsent ELSE sent[x]
         /\ \A x \in Roles : done'[x] = IF x = First THEN {} ELSE done[x]
  BY DEF BeginRole, HistoryTypes, Unsent

LEMMA RunTypesKeeps == ASSUME RunTypes, Shape \/ UNCHANGED vars PROVE RunTypes'
<1> USE Bounds DEF RunTypes, Places, Failures
<1>1. CASE Start
  BY <1>1 DEF Start, Begin
<1>2. CASE Retry
  BY <1>2 DEF Retry, Begin
<1>3. CASE Collect
  BY <1>3 DEF Collect, run
<1>4. CASE Record
  BY <1>4 DEF Record, run
<1>5. CASE Open
  BY <1>5 DEF Open, run
<1>6. CASE NextRole
  BY <1>6 DEF NextRole, BeginRole
<1>7. CASE NotDispatched
  BY <1>7 DEF NotDispatched
<1>8. CASE RoleDone
  BY <1>8 DEF RoleDone
<1>9. CASE RoleFailed
  BY <1>9 DEF RoleFailed, run
<1>10. CASE AllSent
  BY <1>10 DEF AllSent, run
<1>11. CASE Accepted
  BY <1>11 DEF Accepted, run
<1>12. CASE Rejected
  BY <1>12 DEF Rejected
<1>13. CASE RejectedAgain
  BY <1>13 DEF RejectedAgain, run
<1>14. CASE NoAnswer
  BY <1>14 DEF NoAnswer
<1>15. CASE Settle
  BY <1>15 DEF Settle, StepDone
<1>16. CASE Release
  BY <1>16 DEF Release
<1>17. CASE Resume
  BY <1>17 DEF Resume, StepDone
<1>18. CASE FullCheck
  BY <1>18 DEF FullCheck, Again
<1>19. CASE ScopedCheck
  BY <1>19 DEF ScopedCheck, Again
<1>20. CASE RetryFence
  BY <1>20 DEF RetryFence
<1>21. CASE Repair
  BY <1>21 DEF Repair, BeginRole
<1>22. CASE RepairDone
  BY <1>22 DEF RepairDone
<1>23. CASE RepairFailed
  BY <1>23 DEF RepairFailed, run
<1>24. CASE AllRepaired
  BY <1>24 DEF AllRepaired, Goto, run
<1>25. CASE Complete
  BY <1>25 DEF Complete, run
<1>26. CASE Crash
  BY <1>26 DEF Crash, run
<1>27. CASE Leave
  BY <1>27 DEF Leave, Raise, run
<1>28. CASE GiveUp
  BY <1>28 DEF GiveUp
<1>29. CASE Ask
  BY <1>29 DEF Ask, run
<1>30. CASE UNCHANGED vars
  BY <1>30 DEF vars, run
<1> QED BY <1>1, <1>2, <1>3, <1>4, <1>5, <1>6, <1>7, <1>8, <1>9, <1>10, <1>11, <1>12, <1>13, <1>14,
   <1>15, <1>16, <1>17, <1>18, <1>19, <1>20, <1>21, <1>22, <1>23, <1>24, <1>25, <1>26, <1>27, <1>28,
   <1>29, <1>30 DEF Shape

LEMMA FlagTypesKeeps == ASSUME FlagTypes, RunTypes, Shape \/ UNCHANGED vars PROVE FlagTypes'
<1> USE Bounds DEF FlagTypes
<1>1. CASE Start
  BY <1>1 DEF Start, Begin, sync
<1>2. CASE Retry
  BY <1>2 DEF Retry, Begin, sync
<1>3. CASE Collect
  BY <1>3 DEF Collect, user
<1>4. CASE Record
  BY <1>4 DEF Record, user
<1>5. CASE Open
  BY <1>5 DEF Open, Opened, sync, user
<1>6. CASE NextRole
  BY <1>6 DEF NextRole, sync, user
<1>7. CASE NotDispatched
  BY <1>7 DEF NotDispatched, sync, user
<1>8. CASE RoleDone
  BY <1>8 DEF RoleDone, sync, user
<1>9. CASE RoleFailed
  <2>1. retryable' \in BOOLEAN
    BY <1>9 DEF RoleFailed, Offered
  <2> QED
    BY <1>9, <2>1 DEF RoleFailed, sync
<1>10. CASE AllSent
  BY <1>10 DEF AllSent, sync, user
<1>11. CASE Accepted
  BY <1>11 DEF Accepted, Fence, user
<1>12. CASE Rejected
  BY <1>12 DEF Rejected, Fence, user
<1>13. CASE RejectedAgain
  BY <1>13 DEF RejectedAgain, Fence, user
<1>14. CASE NoAnswer
  BY <1>14 DEF NoAnswer, Fence, user
<1>15. CASE Settle
  BY <1>15 DEF Settle, sync, user
<1>16. CASE Release
  BY <1>16 DEF Release, user
<1>17. CASE Resume
  BY <1>17 DEF Resume, Opened, user
<1>18. CASE FullCheck
  BY <1>18 DEF FullCheck, sync, user
<1>19. CASE ScopedCheck
  BY <1>19 DEF ScopedCheck, sync, user
<1>20. CASE RetryFence
  BY <1>20 DEF RetryFence, user
<1>21. CASE Repair
  BY <1>21 DEF Repair, Opened, sync, user
<1>22. CASE RepairDone
  BY <1>22 DEF RepairDone, sync, user
<1>23. CASE RepairFailed
  BY <1>23 DEF RepairFailed, sync, user
<1>24. CASE AllRepaired
  BY <1>24 DEF AllRepaired, Goto, sync, user
<1>25. CASE Complete
  BY <1>25 DEF Complete, sync, user
<1>26. CASE Crash
  <2>1. cut' \in BOOLEAN
    BY <1>26 DEF Crash
  <2> QED
    BY <1>26, <2>1 DEF Crash
<1>27. CASE Leave
  <2>1. cut' \in BOOLEAN
    BY <1>27 DEF Leave, Raise
  <2> QED
    BY <1>27, <2>1 DEF Leave, Raise, sync, user
<1>28. CASE GiveUp
  BY <1>28 DEF GiveUp, user
<1>29. CASE Ask
  BY <1>29 DEF Ask, sync
<1>30. CASE UNCHANGED vars
  BY <1>30 DEF vars, sync, user
<1> QED BY <1>1, <1>2, <1>3, <1>4, <1>5, <1>6, <1>7, <1>8, <1>9, <1>10, <1>11, <1>12, <1>13, <1>14,
   <1>15, <1>16, <1>17, <1>18, <1>19, <1>20, <1>21, <1>22, <1>23, <1>24, <1>25, <1>26, <1>27, <1>28,
   <1>29, <1>30 DEF Shape

LEMMA JobTypesKeeps == ASSUME JobTypes, RunTypes, Shape \/ UNCHANGED vars PROVE JobTypes'
<1> USE Bounds DEF JobTypes, Statuses
<1>1. CASE Start
  BY <1>1 DEF Start, Begin
<1>2. CASE Retry
  BY <1>2 DEF Retry, Begin
<1>3. CASE Collect
  BY <1>3 DEF Collect, db, run
<1>4. CASE Record
  BY <1>4 DEF Record, db, run
<1>5. CASE Open
  BY <1>5 DEF Open, db, run
<1>6. CASE NextRole
  BY <1>6 DEF NextRole
<1>7. CASE NotDispatched
  BY <1>7 DEF NotDispatched
<1>8. CASE RoleDone
  BY <1>8 DEF RoleDone
<1>9. CASE RoleFailed
  BY <1>9 DEF RoleFailed, run
<1>10. CASE AllSent
  BY <1>10 DEF AllSent, db, run
<1>11. CASE Accepted
  BY <1>11 DEF Accepted, db, run
<1>12. CASE Rejected
  BY <1>12 DEF Rejected, db
<1>13. CASE RejectedAgain
  BY <1>13 DEF RejectedAgain, db, run
<1>14. CASE NoAnswer
  BY <1>14 DEF NoAnswer, db
<1>15. CASE Settle
  BY <1>15 DEF Settle, db
<1>16. CASE Release
  BY <1>16 DEF Release, db
<1>17. CASE Resume
  BY <1>17 DEF Resume, db
<1>18. CASE FullCheck
  BY <1>18 DEF FullCheck, By
<1>19. CASE ScopedCheck
  BY <1>19 DEF ScopedCheck
<1>20. CASE RetryFence
  BY <1>20 DEF RetryFence, db
<1>21. CASE Repair
  BY <1>21 DEF Repair, db
<1>22. CASE RepairDone
  BY <1>22 DEF RepairDone, db
<1>23. CASE RepairFailed
  BY <1>23 DEF RepairFailed, run
<1>24. CASE AllRepaired
  BY <1>24 DEF AllRepaired, Goto, db, run
<1>25. CASE Complete
  BY <1>25 DEF Complete, run
<1>26. CASE Crash
  BY <1>26 DEF Crash, db, run
<1>27. CASE Leave
  BY <1>27 DEF Leave, Raise, db, run
<1>28. CASE GiveUp
  BY <1>28 DEF GiveUp, db
<1>29. CASE Ask
  BY <1>29 DEF Ask, db, run
<1>30. CASE UNCHANGED vars
  BY <1>30 DEF vars, db, run
<1> QED BY <1>1, <1>2, <1>3, <1>4, <1>5, <1>6, <1>7, <1>8, <1>9, <1>10, <1>11, <1>12, <1>13, <1>14,
   <1>15, <1>16, <1>17, <1>18, <1>19, <1>20, <1>21, <1>22, <1>23, <1>24, <1>25, <1>26, <1>27, <1>28,
   <1>29, <1>30 DEF Shape

LEMMA CountTypesKeeps == ASSUME CountTypes, RunTypes, Shape \/ UNCHANGED vars PROVE CountTypes'
<1> USE Bounds DEF CountTypes
<1>1. CASE Start
  BY <1>1 DEF Start, Begin
<1>2. CASE Retry
  BY <1>2 DEF Retry, Begin
<1>3. CASE Collect
  BY <1>3 DEF Collect, run
<1>4. CASE Record
  BY <1>4 DEF Record, run
<1>5. CASE Open
  BY <1>5 DEF Open, run
<1>6. CASE NextRole
  BY <1>6 DEF NextRole
<1>7. CASE NotDispatched
  BY <1>7 DEF NotDispatched
<1>8. CASE RoleDone
  BY <1>8 DEF RoleDone
<1>9. CASE RoleFailed
  BY <1>9 DEF RoleFailed, run
<1>10. CASE AllSent
  BY <1>10 DEF AllSent, run
<1>11. CASE Accepted
  BY <1>11 DEF Accepted, run
<1>12. CASE Rejected
  BY <1>12 DEF Rejected
<1>13. CASE RejectedAgain
  BY <1>13 DEF RejectedAgain, run
<1>14. CASE NoAnswer
  BY <1>14 DEF NoAnswer
<1>15. CASE Settle
  BY <1>15 DEF Settle
<1>16. CASE Release
  BY <1>16 DEF Release
<1>17. CASE Resume
  BY <1>17 DEF Resume
<1>18. CASE FullCheck
  BY <1>18 DEF FullCheck
<1>19. CASE ScopedCheck
  BY <1>19 DEF ScopedCheck
<1>20. CASE RetryFence
  BY <1>20 DEF RetryFence
<1>21. CASE Repair
  BY <1>21 DEF Repair
<1>22. CASE RepairDone
  BY <1>22 DEF RepairDone
<1>23. CASE RepairFailed
  BY <1>23 DEF RepairFailed, run
<1>24. CASE AllRepaired
  BY <1>24 DEF AllRepaired, Goto, run
<1>25. CASE Complete
  BY <1>25 DEF Complete, run
<1>26. CASE Crash
  BY <1>26 DEF Crash, run
<1>27. CASE Leave
  BY <1>27 DEF Leave, Raise, run
<1>28. CASE GiveUp
  BY <1>28 DEF GiveUp
<1>29. CASE Ask
  BY <1>29 DEF Ask, run
<1>30. CASE UNCHANGED vars
  BY <1>30 DEF vars, run
<1> QED BY <1>1, <1>2, <1>3, <1>4, <1>5, <1>6, <1>7, <1>8, <1>9, <1>10, <1>11, <1>12, <1>13, <1>14,
   <1>15, <1>16, <1>17, <1>18, <1>19, <1>20, <1>21, <1>22, <1>23, <1>24, <1>25, <1>26, <1>27, <1>28,
   <1>29, <1>30 DEF Shape

LEMMA GameTypesKeeps == ASSUME GameTypes, RunTypes, Shape \/ UNCHANGED vars PROVE GameTypes'
<1> USE Bounds DEF GameTypes, Plan, Steps, RunTypes
<1>1. CASE Start
  BY <1>1 DEF Start, Begin, sync
<1>2. CASE Retry
  BY <1>2 DEF Retry, Begin, sync
<1>3. CASE Collect
  BY <1>3 DEF Collect, game
<1>4. CASE Record
  BY <1>4 DEF Record, game
<1>5. CASE Open
  BY <1>5 DEF Open, game, sync
<1>6. CASE NextRole
  BY <1>6 DEF NextRole, sync
<1>7. CASE NotDispatched
  BY <1>7 DEF NotDispatched, game, sync
<1>8. CASE RoleDone
  BY <1>8 DEF RoleDone, game, sync
<1>9. CASE RoleFailed
  BY <1>9 DEF RoleFailed, game, sync
<1>10. CASE AllSent
  BY <1>10 DEF AllSent, game, sync
<1>11. CASE Accepted
  BY <1>11 DEF Accepted, Effect
<1>12. CASE Rejected
  BY <1>12 DEF Rejected, game
<1>13. CASE RejectedAgain
  BY <1>13 DEF RejectedAgain, game
<1>14. CASE NoAnswer
  BY <1>14 DEF NoAnswer, Effect
<1>15. CASE Settle
  BY <1>15 DEF Settle, game, sync
<1>16. CASE Release
  BY <1>16 DEF Release, game
<1>17. CASE Resume
  BY <1>17 DEF Resume
<1>18. CASE FullCheck
  BY <1>18 DEF FullCheck, game, sync
<1>19. CASE ScopedCheck
  BY <1>19 DEF ScopedCheck, game, sync
<1>20. CASE RetryFence
  BY <1>20 DEF RetryFence, game
<1>21. CASE Repair
  BY <1>21 DEF Repair, sync
<1>22. CASE RepairDone
  BY <1>22 DEF RepairDone, game, sync
<1>23. CASE RepairFailed
  BY <1>23 DEF RepairFailed, game, sync
<1>24. CASE AllRepaired
  BY <1>24 DEF AllRepaired, Goto, game, sync
<1>25. CASE Complete
  BY <1>25 DEF Complete, game, sync
<1>26. CASE Crash
  BY <1>26 DEF Crash, Effect, game
<1>27. CASE Leave
  BY <1>27 DEF Leave, Raise, game, sync
<1>28. CASE GiveUp
  BY <1>28 DEF GiveUp, game
<1>29. CASE Ask
  BY <1>29 DEF Ask, game, sync
<1>30. CASE UNCHANGED vars
  BY <1>30 DEF vars, game, sync
<1> QED BY <1>1, <1>2, <1>3, <1>4, <1>5, <1>6, <1>7, <1>8, <1>9, <1>10, <1>11, <1>12, <1>13, <1>14,
   <1>15, <1>16, <1>17, <1>18, <1>19, <1>20, <1>21, <1>22, <1>23, <1>24, <1>25, <1>26, <1>27, <1>28,
   <1>29, <1>30 DEF Shape

-----------------------------------------------------------------------------
(* Where the run stands, and what it has sent *)

InRole ==
  /\ at \in Busy => todo # {}
  /\ at \in {"open", "role"} => attempt = 1
  /\ at \in {"retry", "repair"} => attempt > 1
  /\ at \in {"post", "retry"} => todo = {}
  /\ retryable => at = "idle" /\ attempt = 1 /\ todo # {}

Once ==
  /\ \A r \in Roles, k \in Steps : sent[r][k] <= 1
  /\ at \in {"send", "recover", "wait"} => \A k \in Steps : k >= step => sent[First][k] = 0
  /\ at = "settle" => \A k \in Steps : k > step => sent[First][k] = 0

Doubt ==
  unknown => /\ at \in {"fail", "complete", "idle"} /\ ~retryable
             /\ at = "fail" => kind = "unknown"

Failing == (\E r \in Roles : item[r] = "failed") => at \in {"idle", "complete"}

LEMMA InRoleKeeps == ASSUME RunTypes, FlagTypes, InRole, Shape \/ UNCHANGED vars PROVE InRole'
<1> USE  DEF InRole, Busy, RunTypes, FlagTypes
<1>1. CASE Start
  BY <1>1 DEF Start, Begin
<1>2. CASE Retry
  BY <1>2 DEF Retry, Begin
<1>3. CASE Collect
  BY <1>3 DEF Collect, run, user
<1>4. CASE Record
  BY <1>4 DEF Record, run, user
<1>5. CASE Open
  BY <1>5 DEF Open, run, user
<1>6. CASE NextRole
  BY <1>6 DEF NextRole, BeginRole, user
<1>7. CASE NotDispatched
  BY <1>7 DEF NotDispatched, user
<1>8. CASE RoleDone
  BY <1>8 DEF RoleDone, user
<1>9. CASE RoleFailed
  BY <1>9 DEF RoleFailed, Offered, run
<1>10. CASE AllSent
  BY <1>10 DEF AllSent, run, user
<1>11. CASE Accepted
  BY <1>11 DEF Accepted, run, user
<1>12. CASE Rejected
  BY <1>12 DEF Rejected, user
<1>13. CASE RejectedAgain
  BY <1>13 DEF RejectedAgain, run, user
<1>14. CASE NoAnswer
  BY <1>14 DEF NoAnswer, user
<1>15. CASE Settle
  BY <1>15 DEF Settle, StepDone, user
<1>16. CASE Release
  BY <1>16 DEF Release, user
<1>17. CASE Resume
  BY <1>17 DEF Resume, StepDone, user
<1>18. CASE FullCheck
  BY <1>18 DEF FullCheck, Again, Check, user
<1>19. CASE ScopedCheck
  BY <1>19 DEF ScopedCheck, Again, Check, user
<1>20. CASE RetryFence
  BY <1>20 DEF RetryFence, user
<1>21. CASE Repair
  BY <1>21 DEF Repair, BeginRole, user
<1>22. CASE RepairDone
  BY <1>22 DEF RepairDone, user
<1>23. CASE RepairFailed
  BY <1>23 DEF RepairFailed, run, user
<1>24. CASE AllRepaired
  BY <1>24 DEF AllRepaired, Goto, run, user
<1>25. CASE Complete
  BY <1>25 DEF Complete, run, user
<1>26. CASE Crash
  BY <1>26 DEF Crash, run
<1>27. CASE Leave
  BY <1>27 DEF Leave, Raise, run, user
<1>28. CASE GiveUp
  BY <1>28 DEF GiveUp, user
<1>29. CASE Ask
  BY <1>29 DEF Ask, run
<1>30. CASE UNCHANGED vars
  BY <1>30 DEF vars, run, user
<1> QED BY <1>1, <1>2, <1>3, <1>4, <1>5, <1>6, <1>7, <1>8, <1>9, <1>10, <1>11, <1>12, <1>13, <1>14,
   <1>15, <1>16, <1>17, <1>18, <1>19, <1>20, <1>21, <1>22, <1>23, <1>24, <1>25, <1>26, <1>27, <1>28,
   <1>29, <1>30 DEF Shape

LEMMA DoubtKeeps == ASSUME RunTypes, FlagTypes, InRole, Doubt, Shape \/ UNCHANGED vars PROVE Doubt'
<1> USE  DEF Doubt, InRole, RunTypes, FlagTypes
<1>1. CASE Start
  BY <1>1 DEF Start, Begin
<1>2. CASE Retry
  BY <1>2 DEF Retry, Begin
<1>3. CASE Collect
  BY <1>3 DEF Collect, run, user
<1>4. CASE Record
  BY <1>4 DEF Record, run, user
<1>5. CASE Open
  BY <1>5 DEF Open, run, user
<1>6. CASE NextRole
  BY <1>6 DEF NextRole, BeginRole, user
<1>7. CASE NotDispatched
  BY <1>7 DEF NotDispatched, user
<1>8. CASE RoleDone
  BY <1>8 DEF RoleDone, user
<1>9. CASE RoleFailed
  BY <1>9 DEF RoleFailed, Offered, run
<1>10. CASE AllSent
  BY <1>10 DEF AllSent, run, user
<1>11. CASE Accepted
  BY <1>11 DEF Accepted, run, user
<1>12. CASE Rejected
  BY <1>12 DEF Rejected, user
<1>13. CASE RejectedAgain
  BY <1>13 DEF RejectedAgain, run, user
<1>14. CASE NoAnswer
  BY <1>14 DEF NoAnswer, user
<1>15. CASE Settle
  BY <1>15 DEF Settle, StepDone, user
<1>16. CASE Release
  BY <1>16 DEF Release, user
<1>17. CASE Resume
  BY <1>17 DEF Resume, StepDone, user
<1>18. CASE FullCheck
  BY <1>18 DEF FullCheck, Again, Check, user
<1>19. CASE ScopedCheck
  BY <1>19 DEF ScopedCheck, Again, Check, user
<1>20. CASE RetryFence
  BY <1>20 DEF RetryFence, user
<1>21. CASE Repair
  BY <1>21 DEF Repair, BeginRole, user
<1>22. CASE RepairDone
  BY <1>22 DEF RepairDone, user
<1>23. CASE RepairFailed
  BY <1>23 DEF RepairFailed, run, user
<1>24. CASE AllRepaired
  BY <1>24 DEF AllRepaired, Goto, run, user
<1>25. CASE Complete
  BY <1>25 DEF Complete, run, user
<1>26. CASE Crash
  BY <1>26 DEF Crash, run
<1>27. CASE Leave
  BY <1>27 DEF Leave, Raise, run, user
<1>28. CASE GiveUp
  BY <1>28 DEF GiveUp, user
<1>29. CASE Ask
  BY <1>29 DEF Ask, run
<1>30. CASE UNCHANGED vars
  BY <1>30 DEF vars, run, user
<1> QED BY <1>1, <1>2, <1>3, <1>4, <1>5, <1>6, <1>7, <1>8, <1>9, <1>10, <1>11, <1>12, <1>13, <1>14,
   <1>15, <1>16, <1>17, <1>18, <1>19, <1>20, <1>21, <1>22, <1>23, <1>24, <1>25, <1>26, <1>27, <1>28,
   <1>29, <1>30 DEF Shape

LEMMA FailingKeeps == ASSUME RunTypes, FlagTypes, JobTypes, Failing, Shape \/ UNCHANGED vars PROVE
   Failing'
<1> USE  DEF Failing, JobTypes, RunTypes
<1>1. CASE Start
  BY <1>1 DEF Start, Begin
<1>2. CASE Retry
  BY <1>2 DEF Retry, Begin
<1>3. CASE Collect
  BY <1>3 DEF Collect, db
<1>4. CASE Record
  BY <1>4 DEF Record, db
<1>5. CASE Open
  BY <1>5 DEF Open, db
<1>6. CASE NextRole
  BY <1>6 DEF NextRole, BeginRole
<1>7. CASE NotDispatched
  BY <1>7 DEF NotDispatched
<1>8. CASE RoleDone
  BY <1>8 DEF RoleDone
<1>9. CASE RoleFailed
  BY <1>9 DEF RoleFailed
<1>10. CASE AllSent
  BY <1>10 DEF AllSent, db
<1>11. CASE Accepted
  BY <1>11 DEF Accepted, db
<1>12. CASE Rejected
  BY <1>12 DEF Rejected, db
<1>13. CASE RejectedAgain
  BY <1>13 DEF RejectedAgain, db
<1>14. CASE NoAnswer
  BY <1>14 DEF NoAnswer, db
<1>15. CASE Settle
  BY <1>15 DEF Settle, StepDone, db
<1>16. CASE Release
  BY <1>16 DEF Release, db
<1>17. CASE Resume
  BY <1>17 DEF Resume, StepDone, db
<1>18. CASE FullCheck
  BY <1>18 DEF FullCheck, Again, Check
<1>19. CASE ScopedCheck
  BY <1>19 DEF ScopedCheck, Again, Check
<1>20. CASE RetryFence
  BY <1>20 DEF RetryFence, db
<1>21. CASE Repair
  BY <1>21 DEF Repair, BeginRole, db
<1>22. CASE RepairDone
  BY <1>22 DEF RepairDone, db
<1>23. CASE RepairFailed
  BY <1>23 DEF RepairFailed
<1>24. CASE AllRepaired
  BY <1>24 DEF AllRepaired, Goto, db
<1>25. CASE Complete
  BY <1>25 DEF Complete
<1>26. CASE Crash
  BY <1>26 DEF Crash, db
<1>27. CASE Leave
  BY <1>27 DEF Leave, Raise, db
<1>28. CASE GiveUp
  BY <1>28 DEF GiveUp, db
<1>29. CASE Ask
  BY <1>29 DEF Ask, db
<1>30. CASE UNCHANGED vars
  BY <1>30 DEF vars, db
<1> QED BY <1>1, <1>2, <1>3, <1>4, <1>5, <1>6, <1>7, <1>8, <1>9, <1>10, <1>11, <1>12, <1>13, <1>14,
   <1>15, <1>16, <1>17, <1>18, <1>19, <1>20, <1>21, <1>22, <1>23, <1>24, <1>25, <1>26, <1>27, <1>28,
   <1>29, <1>30 DEF Shape

\* The steps that are no part of the history.
Quiet == sent' = sent /\ done' = done

LEMMA QuietOr ==
  ASSUME Shape \/ UNCHANGED vars
  PROVE  Start \/ NextRole \/ Accepted \/ NoAnswer \/ Resume \/ Repair \/ Crash \/ Quiet
<1> USE DEF Quiet, game
<1>1. CASE Retry
  BY <1>1 DEF Retry
<1>2. CASE Collect
  BY <1>2 DEF Collect
<1>3. CASE Record
  BY <1>3 DEF Record
<1>4. CASE Open
  BY <1>4 DEF Open
<1>5. CASE NotDispatched
  BY <1>5 DEF NotDispatched
<1>6. CASE RoleDone
  BY <1>6 DEF RoleDone
<1>7. CASE RoleFailed
  BY <1>7 DEF RoleFailed
<1>8. CASE AllSent
  BY <1>8 DEF AllSent
<1>9. CASE Rejected
  BY <1>9 DEF Rejected
<1>10. CASE RejectedAgain
  BY <1>10 DEF RejectedAgain
<1>11. CASE Settle
  BY <1>11 DEF Settle
<1>12. CASE Release
  BY <1>12 DEF Release
<1>13. CASE FullCheck
  BY <1>13 DEF FullCheck
<1>14. CASE ScopedCheck
  BY <1>14 DEF ScopedCheck
<1>15. CASE RetryFence
  BY <1>15 DEF RetryFence
<1>16. CASE RepairDone
  BY <1>16 DEF RepairDone
<1>17. CASE RepairFailed
  BY <1>17 DEF RepairFailed
<1>18. CASE AllRepaired
  BY <1>18 DEF AllRepaired, Goto
<1>19. CASE Complete
  BY <1>19 DEF Complete
<1>20. CASE Leave
  BY <1>20 DEF Leave, Raise
<1>21. CASE GiveUp
  BY <1>21 DEF GiveUp
<1>22. CASE Ask
  BY <1>22 DEF Ask
<1>23. CASE UNCHANGED vars
  BY <1>23 DEF vars
<1> QED
   BY <1>1, <1>2, <1>3, <1>4, <1>5, <1>6, <1>7, <1>8, <1>9, <1>10, <1>11, <1>12, <1>13, <1>14,
     <1>15, <1>16, <1>17, <1>18, <1>19, <1>20, <1>21, <1>22, <1>23 DEF Shape

LEMMA HistoryTypesKeeps ==
  ASSUME HistoryTypes, RunTypes, InRole, Shape \/ UNCHANGED vars
  PROVE  HistoryTypes'
<1>0. todo # {} => First \in Roles
  BY FirstIs DEF RunTypes
<1>1. CASE Start
  BY <1>1 DEF Start, HistoryTypes, Unsent
<1>2. CASE NextRole
  BY <1>0, <1>2, BeginRoleGives DEF NextRole
<1>3. CASE Accepted
  <2>1. First \in Roles /\ step \in Steps /\ Take(First, step) /\ Met(First, step)
    BY <1>0, <1>3 DEF Accepted, InRole, Busy, RunTypes
  <2> QED
    BY <2>1, TakeGives, MetGives DEF HistoryTypes
<1>4. CASE NoAnswer
  <2>1. First \in Roles /\ step \in Steps /\ Take(First, step) /\ done' = done
    BY <1>0, <1>4 DEF NoAnswer, InRole, Busy, RunTypes
  <2> QED
    BY <2>1, TakeGives DEF HistoryTypes
<1>5. CASE Resume
  <2>1. First \in Roles /\ step \in Steps /\ sent' = sent
    BY <1>0, <1>5 DEF Resume, InRole, Busy, RunTypes
  <2>2. CASE Met(First, step)
    BY <2>1, <2>2, MetGives DEF HistoryTypes
  <2>3. CASE done' = done
    BY <2>1, <2>3 DEF HistoryTypes
  <2> QED
    BY <1>5, <2>2, <2>3 DEF Resume
<1>6. CASE Repair
  BY <1>0, <1>6, BeginRoleGives DEF Repair
<1>7. CASE Crash
  <2>1. done' = done
    BY <1>7 DEF Crash, game
  <2>2. CASE sent' = sent
    BY <2>1, <2>2 DEF HistoryTypes
  <2>3. CASE at = "send" /\ Take(First, step)
    <3>1. First \in Roles /\ step \in Steps
      BY <1>0, <2>3 DEF InRole, Busy, RunTypes
    <3> QED
      BY <2>1, <2>3, <3>1, TakeGives DEF HistoryTypes
  <2> QED
    BY <1>7, <2>2, <2>3 DEF Crash, game
<1>8. CASE Quiet
  BY <1>8 DEF Quiet, HistoryTypes
<1> QED
  BY <1>1, <1>2, <1>3, <1>4, <1>5, <1>6, <1>7, <1>8, QuietOr

LEMMA OnceKeeps ==
  ASSUME RunTypes, HistoryTypes, InRole, Once, Shape \/ UNCHANGED vars
  PROVE  Once'
<1>1. CASE Start
  <2>1. at' = "open" /\ \A r \in Roles, k \in Steps : sent'[r][k] = 0
    BY <1>1 DEF Start, Begin, Unsent
  <2> QED
    BY <2>1 DEF Once
<1>2. CASE Retry
  BY <1>2, SameFirst DEF Once, Retry, Begin
<1>3. CASE Collect
  BY <1>3, SameFirst DEF Once, Collect, game, run
<1>4. CASE Record
  BY <1>4, SameFirst DEF Once, Record, game, run
<1>5. CASE Open
  BY <1>5, SameFirst DEF Once, Open, game, run
<1>6. CASE NextRole
  <2>1. First \in Roles /\ First' = First /\ at' = "send" /\ step' = 1
    BY <1>6, FirstIs, SameFirst DEF NextRole, BeginRole, RunTypes
  <2>2. \A x \in Roles : sent'[x] = IF x = First THEN Unsent ELSE sent[x]
    BY <1>6, <2>1, BeginRoleGives DEF NextRole, HistoryTypes
  <2>3. \A k \in Steps : Unsent[k] = 0
    BY DEF Unsent
  <2> QED
    BY <2>1, <2>2, <2>3 DEF Once
<1>7. CASE NotDispatched
  BY <1>7, SameFirst DEF Once, NotDispatched, game
<1>8. CASE RoleDone
  BY <1>8, SameFirst DEF Once, RoleDone, game
<1>9. CASE RoleFailed
  BY <1>9, SameFirst DEF Once, RoleFailed, game, run
<1>10. CASE AllSent
  BY <1>10, SameFirst DEF Once, AllSent, game, run
<1>11. CASE Accepted
  <2>1. /\ First \in Roles /\ step \in Steps /\ at = "send" /\ Take(First, step)
        /\ at' = "settle" /\ First' = First /\ step' = step
    BY <1>11, FirstIs, SameFirst DEF Accepted, InRole, Busy, RunTypes, run
  <2>2. \A x \in Roles, j \in Steps :
          sent'[x][j] = IF x = First /\ j = step THEN sent[x][j] + 1 ELSE sent[x][j]
    BY <2>1, TakeGives DEF HistoryTypes
  <2>3. \A k \in Steps : k >= step => sent[First][k] = 0
    BY <2>1 DEF Once
  <2> QED
    BY <2>1, <2>2, <2>3 DEF Once, Steps
<1>12. CASE Rejected
  BY <1>12, SameFirst DEF Once, Rejected, game
<1>13. CASE RejectedAgain
  BY <1>13, SameFirst DEF Once, RejectedAgain, game, run
<1>14. CASE NoAnswer
  <2>1. /\ First \in Roles /\ step \in Steps /\ at = "send" /\ Take(First, step) /\ at' = "fail"
    BY <1>14, FirstIs DEF NoAnswer, InRole, Busy, RunTypes
  <2>2. \A x \in Roles, j \in Steps :
          sent'[x][j] = IF x = First /\ j = step THEN sent[x][j] + 1 ELSE sent[x][j]
    BY <2>1, TakeGives DEF HistoryTypes
  <2> QED
    BY <2>1, <2>2 DEF Once, Steps
<1>15. CASE Settle
  <2>1. at = "settle" /\ First' = First /\ sent' = sent /\ step \in Steps
    BY <1>15, SameFirst DEF Settle, game, RunTypes
  <2>2. at' = "mark" \/ (at' = "send" /\ step' = step + 1)
    BY <1>15 DEF Settle, StepDone
  <2> QED
    BY <2>1, <2>2 DEF Once, Steps
<1>16. CASE Release
  BY <1>16, SameFirst DEF Once, Release, game
<1>17. CASE Resume
  <2>1. at = "wait" /\ First' = First /\ sent' = sent /\ step \in Steps
    BY <1>17, SameFirst DEF Resume, RunTypes
  <2>2. at' = "mark" \/ (at' = "send" /\ (step' = step + 1 \/ step' = step))
    BY <1>17 DEF Resume, StepDone
  <2> QED
    BY <2>1, <2>2 DEF Once, Steps
<1>18. CASE FullCheck
  BY <1>18, SameFirst DEF Once, FullCheck, Again, Check, game
<1>19. CASE ScopedCheck
  BY <1>19, SameFirst DEF Once, ScopedCheck, Again, Check, game
<1>20. CASE RetryFence
  BY <1>20, SameFirst DEF Once, RetryFence, game
<1>21. CASE Repair
  <2>1. First \in Roles /\ First' = First /\ at' = "send" /\ step' = 1
    BY <1>21, FirstIs, SameFirst DEF Repair, BeginRole, RunTypes
  <2>2. \A x \in Roles : sent'[x] = IF x = First THEN Unsent ELSE sent[x]
    BY <1>21, <2>1, BeginRoleGives DEF Repair, HistoryTypes
  <2>3. \A k \in Steps : Unsent[k] = 0
    BY DEF Unsent
  <2> QED
    BY <2>1, <2>2, <2>3 DEF Once
<1>22. CASE RepairDone
  BY <1>22, SameFirst DEF Once, RepairDone, game
<1>23. CASE RepairFailed
  BY <1>23, SameFirst DEF Once, RepairFailed, game, run
<1>24. CASE AllRepaired
  BY <1>24, SameFirst DEF Once, AllRepaired, Goto, game, run
<1>25. CASE Complete
  BY <1>25, SameFirst DEF Once, Complete, game, run
<1>26. CASE Crash
  <2>1. at' = "idle"
    BY <1>26 DEF Crash
  <2>2. CASE sent' = sent
    BY <2>1, <2>2 DEF Once
  <2>3. CASE at = "send" /\ Take(First, step)
    <3>1. First \in Roles /\ step \in Steps
      BY <2>3, FirstIs DEF InRole, Busy, RunTypes
    <3>2. \A x \in Roles, j \in Steps :
            sent'[x][j] = IF x = First /\ j = step THEN sent[x][j] + 1 ELSE sent[x][j]
      BY <2>3, <3>1, TakeGives DEF HistoryTypes
    <3> QED
      BY <2>1, <2>3, <3>1, <3>2 DEF Once, Steps
  <2> QED
    BY <1>26, <2>2, <2>3 DEF Crash, game
<1>27. CASE Leave
  BY <1>27, SameFirst DEF Once, Leave, Raise, game, run
<1>28. CASE GiveUp
  BY <1>28, SameFirst DEF Once, GiveUp, game
<1>29. CASE Ask
  BY <1>29, SameFirst DEF Once, Ask, game, run
<1>30. CASE UNCHANGED vars
  BY <1>30, SameFirst DEF Once, vars, game, run
<1> QED
   BY <1>1, <1>2, <1>3, <1>4, <1>5, <1>6, <1>7, <1>8, <1>9, <1>10, <1>11, <1>12, <1>13, <1>14,
     <1>15, <1>16, <1>17, <1>18, <1>19, <1>20, <1>21, <1>22, <1>23, <1>24, <1>25, <1>26, <1>27,
     <1>28, <1>29, <1>30 DEF Shape

Listed ==
  (attempt = 1 /\ at \in {"open", "role", "post"} \cup Busy) \/ retryable =>
    todo = {r \in Roles : item[r] # "succeeded"}

Progress ==
  /\ at \in {"send", "recover", "wait"} => done[First] = 1..(step - 1)
  /\ at = "settle" => done[First] = 1..step
  /\ at = "mark" => done[First] = Steps

LEMMA ListedKeeps ==
  ASSUME Types, InRole, Listed, Shape \/ UNCHANGED vars
  PROVE  Listed'
<1> USE FirstIs DEF Listed, InRole, Busy, Types, RunTypes, FlagTypes, JobTypes
<1>1. CASE Start
  BY <1>1 DEF Start, Begin
<1>2. CASE Retry
  BY <1>2 DEF Retry, Begin
<1>3. CASE Collect
  BY <1>3 DEF Collect, db, run, user
<1>4. CASE Record
  BY <1>4 DEF Record, db, run, user
<1>5. CASE Open
  BY <1>5 DEF Open, db, run, user
<1>6. CASE NextRole
  BY <1>6 DEF NextRole, BeginRole, user
<1>7. CASE NotDispatched
  BY <1>7 DEF NotDispatched, user
<1>8. CASE RoleDone
  BY <1>8 DEF RoleDone, user
<1>9. CASE RoleFailed
  BY <1>9 DEF RoleFailed, run
<1>10. CASE AllSent
  BY <1>10 DEF AllSent, db, run, user
<1>11. CASE Accepted
  BY <1>11 DEF Accepted, db, run, user
<1>12. CASE Rejected
  BY <1>12 DEF Rejected, db, user
<1>13. CASE RejectedAgain
  BY <1>13 DEF RejectedAgain, db, run, user
<1>14. CASE NoAnswer
  BY <1>14 DEF NoAnswer, db, user
<1>15. CASE Settle
  BY <1>15 DEF Settle, StepDone, db, user
<1>16. CASE Release
  BY <1>16 DEF Release, db, user
<1>17. CASE Resume
  BY <1>17 DEF Resume, StepDone, db, user
<1>18. CASE FullCheck
  BY <1>18 DEF FullCheck, Again, Check, user
<1>19. CASE ScopedCheck
  BY <1>19 DEF ScopedCheck, Again, Check, user
<1>20. CASE RetryFence
  BY <1>20 DEF RetryFence, db, user
<1>21. CASE Repair
  <2>1. attempt > 1 /\ attempt' = attempt /\ ~retryable /\ retryable' = retryable
    BY <1>21 DEF Repair, user
  <2> QED
    BY <2>1
<1>22. CASE RepairDone
  BY <1>22 DEF RepairDone, db, user
<1>23. CASE RepairFailed
  BY <1>23 DEF RepairFailed, run, user
<1>24. CASE AllRepaired
  BY <1>24 DEF AllRepaired, Goto, db, run, user
<1>25. CASE Complete
  BY <1>25 DEF Complete, run, user
<1>26. CASE Crash
  BY <1>26 DEF Crash, db, run
<1>27. CASE Leave
  BY <1>27 DEF Leave, Raise, db, run, user
<1>28. CASE GiveUp
  BY <1>28 DEF GiveUp, db, user
<1>29. CASE Ask
  BY <1>29 DEF Ask, db, run
<1>30. CASE UNCHANGED vars
  BY <1>30 DEF vars, db, run, user
<1> QED
   BY <1>1, <1>2, <1>3, <1>4, <1>5, <1>6, <1>7, <1>8, <1>9, <1>10, <1>11, <1>12, <1>13, <1>14,
     <1>15, <1>16, <1>17, <1>18, <1>19, <1>20, <1>21, <1>22, <1>23, <1>24, <1>25, <1>26, <1>27,
     <1>28, <1>29, <1>30 DEF Shape

LEMMA ProgressKeeps ==
  ASSUME RunTypes, HistoryTypes, InRole, Progress, Shape \/ UNCHANGED vars
  PROVE  Progress'
<1>1. CASE Start
  BY <1>1, SameFirst DEF Progress, Start, Begin
<1>2. CASE Retry
  BY <1>2, SameFirst DEF Progress, Retry, Begin
<1>3. CASE Collect
  BY <1>3, SameFirst DEF Progress, Collect, game, run
<1>4. CASE Record
  BY <1>4, SameFirst DEF Progress, Record, game, run
<1>5. CASE Open
  BY <1>5, SameFirst DEF Progress, Open, game, run
<1>6. CASE NextRole
  <2>1. First \in Roles /\ First' = First /\ at' = "send" /\ step' = 1
    BY <1>6, FirstIs, SameFirst DEF NextRole, BeginRole, RunTypes
  <2>2. done'[First] = {} /\ 1..(step' - 1) = {}
    BY <1>6, <2>1, BeginRoleGives DEF NextRole, HistoryTypes
  <2> QED
    BY <2>1, <2>2 DEF Progress
<1>7. CASE NotDispatched
  BY <1>7, SameFirst DEF Progress, NotDispatched, game
<1>8. CASE RoleDone
  BY <1>8, SameFirst DEF Progress, RoleDone, game
<1>9. CASE RoleFailed
  BY <1>9, SameFirst DEF Progress, RoleFailed, game, run
<1>10. CASE AllSent
  BY <1>10, SameFirst DEF Progress, AllSent, game, run
<1>11. CASE Accepted
  <2>1. /\ First \in Roles /\ step \in Steps /\ at = "send" /\ Met(First, step)
        /\ at' = "settle" /\ First' = First /\ step' = step
    BY <1>11, FirstIs, SameFirst DEF Accepted, InRole, Busy, RunTypes, run
  <2>2. done'[First] = done[First] \cup {step}
    BY <2>1, MetGives DEF HistoryTypes
  <2>3. done[First] = 1..(step - 1)
    BY <2>1 DEF Progress
  <2>4. 1..(step - 1) \cup {step} = 1..step
    BY <2>1 DEF Steps
  <2> QED
    BY <2>1, <2>2, <2>3, <2>4 DEF Progress
<1>12. CASE Rejected
  BY <1>12, SameFirst DEF Progress, Rejected, game
<1>13. CASE RejectedAgain
  BY <1>13, SameFirst DEF Progress, RejectedAgain, game, run
<1>14. CASE NoAnswer
  BY <1>14, SameFirst DEF Progress, NoAnswer
<1>15. CASE Settle
  <2>1. at = "settle" /\ First' = First /\ done' = done /\ done[First] = 1..step
    BY <1>15, SameFirst DEF Settle, game, Progress
  <2>2. \/ at' = "mark" /\ step = NSteps
        \/ at' = "send" /\ step' = step + 1
    BY <1>15 DEF Settle, StepDone
  <2>3. step \in Nat /\ (step + 1) - 1 = step /\ (step = NSteps => 1..step = Steps)
    BY ApplyAssumption DEF RunTypes, Steps
  <2> QED
    BY <2>1, <2>2, <2>3 DEF Progress
<1>16. CASE Release
  BY <1>16, SameFirst DEF Progress, Release, game
<1>17. CASE Resume
  <2>1. /\ at = "wait" /\ First' = First /\ First \in Roles /\ step \in Steps
        /\ done[First] = 1..(step - 1)
    BY <1>17, FirstIs, SameFirst DEF Resume, InRole, Busy, RunTypes, Progress
  <2>2. CASE ~Confirmed
    <3>1. at' = "send" /\ step' = step /\ done' = done
      BY <1>17, <2>2 DEF Resume
    <3> QED
      BY <2>1, <3>1 DEF Progress
  <2>3. CASE Confirmed
    <3>1. Met(First, step) /\ StepDone
      BY <1>17, <2>3 DEF Resume
    <3>2. done'[First] = done[First] \cup {step}
      BY <2>1, <3>1, MetGives DEF HistoryTypes
    <3>3. 1..(step - 1) \cup {step} = 1..step
      BY <2>1 DEF Steps
    <3>4. \/ at' = "mark" /\ step = NSteps
          \/ at' = "send" /\ step' = step + 1
      BY <3>1 DEF StepDone
    <3>5. step \in Nat /\ (step + 1) - 1 = step /\ (step = NSteps => 1..step = Steps)
      BY <2>1, ApplyAssumption DEF Steps
    <3> QED
      BY <2>1, <3>2, <3>3, <3>4, <3>5 DEF Progress
  <2> QED
    BY <2>2, <2>3
<1>18. CASE FullCheck
  BY <1>18, SameFirst DEF Progress, FullCheck, Again, Check, game
<1>19. CASE ScopedCheck
  BY <1>19, SameFirst DEF Progress, ScopedCheck, Again, Check, game
<1>20. CASE RetryFence
  BY <1>20, SameFirst DEF Progress, RetryFence, game
<1>21. CASE Repair
  <2>1. First \in Roles /\ First' = First /\ at' = "send" /\ step' = 1
    BY <1>21, FirstIs, SameFirst DEF Repair, BeginRole, RunTypes
  <2>2. done'[First] = {} /\ 1..(step' - 1) = {}
    BY <1>21, <2>1, BeginRoleGives DEF Repair, HistoryTypes
  <2> QED
    BY <2>1, <2>2 DEF Progress
<1>22. CASE RepairDone
  BY <1>22, SameFirst DEF Progress, RepairDone, game
<1>23. CASE RepairFailed
  BY <1>23, SameFirst DEF Progress, RepairFailed, game, run
<1>24. CASE AllRepaired
  BY <1>24, SameFirst DEF Progress, AllRepaired, Goto, game, run
<1>25. CASE Complete
  BY <1>25, SameFirst DEF Progress, Complete, game, run
<1>26. CASE Crash
  BY <1>26, SameFirst DEF Progress, Crash, game, run
<1>27. CASE Leave
  BY <1>27, SameFirst DEF Progress, Leave, Raise, game, run
<1>28. CASE GiveUp
  BY <1>28, SameFirst DEF Progress, GiveUp, game
<1>29. CASE Ask
  BY <1>29, SameFirst DEF Progress, Ask, game, run
<1>30. CASE UNCHANGED vars
  BY <1>30, SameFirst DEF Progress, vars, game, run
<1> QED
   BY <1>1, <1>2, <1>3, <1>4, <1>5, <1>6, <1>7, <1>8, <1>9, <1>10, <1>11, <1>12, <1>13, <1>14,
     <1>15, <1>16, <1>17, <1>18, <1>19, <1>20, <1>21, <1>22, <1>23, <1>24, <1>25, <1>26, <1>27,
     <1>28, <1>29, <1>30 DEF Shape

Covered ==
  attempt = 1 => \A r \in Roles : item[r] = "succeeded" => done[r] = Steps

Repaired ==
  attempt > 1 => \A r \in Roles :
    \/ done[r] = Steps
    \/ at \in Busy /\ r = First
    \/ at \in {"complete", "idle"} /\ item[r] = "failed"
    \/ at = "idle" /\ cut

Finished == job = "completed" => at = "idle" /\ \A r \in Roles : done[r] = Steps

Single == \A r \in Roles : Partial(r) => todo # {} /\ r = First

LEMMA CoveredKeeps ==
  ASSUME Types, InRole, Listed, Progress, Covered, Shape \/ UNCHANGED vars
  PROVE  Covered'
<1>1. CASE Start
  BY <1>1 DEF Covered, InRole, Types, RunTypes, JobTypes, Start, Begin
<1>2. CASE Retry
  BY <1>2 DEF Covered, InRole, Types, RunTypes, JobTypes, Retry, Begin
<1>3. CASE Collect
  BY <1>3 DEF Covered, InRole, Types, RunTypes, JobTypes, Collect, game, db, run
<1>4. CASE Record
  BY <1>4 DEF Covered, InRole, Types, RunTypes, JobTypes, Record, game, db, run
<1>5. CASE Open
  BY <1>5 DEF Covered, InRole, Types, RunTypes, JobTypes, Open, game, db, run
<1>6. CASE NextRole
  <2>1. First \in Roles /\ First' = First /\ todo # {} /\ todo' = todo
    BY <1>6, FirstIs, SameFirst DEF NextRole, InRole, Busy, Types, RunTypes
  <2>2. \A x \in Roles : done'[x] = IF x = First THEN {} ELSE done[x]
    BY <1>6, <2>1, BeginRoleGives DEF NextRole, Types
  <2>3. attempt' = attempt /\ item' = [item EXCEPT ![First] = "running"]
    BY <1>6 DEF NextRole
  <2> QED
    BY <2>1, <2>2, <2>3 DEF Covered, Types, JobTypes
<1>7. CASE NotDispatched
  BY <1>7 DEF Covered, InRole, Types, RunTypes, JobTypes, NotDispatched, game
<1>8. CASE RoleDone
   <2>1. done[First] = Steps /\ done' = done /\ attempt = 1 /\ item' = [item EXCEPT ![First] =
     "succeeded"]
    BY <1>8 DEF RoleDone, Progress, game
  <2> QED
    BY <2>1 DEF Covered, Types, JobTypes
<1>9. CASE RoleFailed
  BY <1>9 DEF Covered, InRole, Types, RunTypes, JobTypes, RoleFailed, game, run
<1>10. CASE AllSent
  BY <1>10 DEF Covered, InRole, Types, RunTypes, JobTypes, AllSent, game, db, run
<1>11. CASE Accepted
  <2>1. First \in Roles /\ First' = First /\ todo # {} /\ todo' = todo
    BY <1>11, FirstIs, SameFirst DEF Accepted, InRole, Busy, Types, RunTypes, run
  <2>2. \A x \in Roles : done'[x] = IF x = First THEN done[x] \cup {step} ELSE done[x]
    BY <1>11, <2>1, MetGives DEF Accepted, Types, RunTypes, HistoryTypes
  <2>3. attempt' = attempt /\ item' = item /\ (attempt = 1 => First \in todo)
    BY <1>11, <2>1, FirstIs DEF Accepted, db, run, Types, RunTypes
  <2>4. attempt = 1 => item[First] # "succeeded"
    BY <1>11, <2>3 DEF Listed, Accepted, Busy
  <2> QED
    BY <2>1, <2>2, <2>3, <2>4 DEF Covered
<1>12. CASE Rejected
  BY <1>12 DEF Covered, InRole, Types, RunTypes, JobTypes, Rejected, game, db
<1>13. CASE RejectedAgain
  BY <1>13 DEF Covered, InRole, Types, RunTypes, JobTypes, RejectedAgain, game, db, run
<1>14. CASE NoAnswer
  BY <1>14 DEF Covered, InRole, Types, RunTypes, JobTypes, NoAnswer, db
<1>15. CASE Settle
  BY <1>15 DEF Covered, InRole, Types, RunTypes, JobTypes, Settle, game, db
<1>16. CASE Release
  BY <1>16 DEF Covered, InRole, Types, RunTypes, JobTypes, Release, game, db
<1>17. CASE Resume
  <2>1. First \in Roles /\ First' = First /\ todo # {} /\ todo' = todo
    BY <1>17, FirstIs, SameFirst DEF Resume, InRole, Busy, Types, RunTypes
  <2>2. \A x \in Roles : x # First => done'[x] = done[x]
    BY <1>17, <2>1, MetGives DEF Resume, Types, RunTypes, HistoryTypes
  <2>3. attempt' = attempt /\ item' = item /\ First \in todo
    BY <1>17, <2>1, FirstIs DEF Resume, db, Types, RunTypes
  <2>4. attempt = 1 => item[First] # "succeeded"
    BY <1>17, <2>3 DEF Listed, Resume, Busy
  <2> QED
    BY <2>1, <2>2, <2>3, <2>4 DEF Covered
<1>18. CASE FullCheck
  <2>1. attempt = 1 => \A r \in Roles : done[r] = Steps
    BY <1>18 DEF FullCheck, Check, Listed, InRole, Covered
  <2> QED
    BY <1>18, <2>1 DEF Covered, FullCheck, Check, Again, InRole, game, Types, RunTypes, JobTypes
<1>19. CASE ScopedCheck
  <2>1. attempt = 1 => \A r \in Roles : done[r] = Steps
    BY <1>19 DEF ScopedCheck, Check, Listed, InRole, Covered
  <2> QED
    BY <1>19, <2>1 DEF Covered, ScopedCheck, Check, Again, InRole, game, Types, RunTypes, JobTypes
<1>20. CASE RetryFence
  BY <1>20 DEF Covered, InRole, Types, RunTypes, JobTypes, RetryFence, game, db
<1>21. CASE Repair
  <2>1. attempt > 1 /\ attempt' = attempt
    BY <1>21 DEF Repair, InRole
  <2> QED
    BY <2>1 DEF Covered
<1>22. CASE RepairDone
  BY <1>22 DEF Covered, InRole, Types, RunTypes, JobTypes, RepairDone, game, db
<1>23. CASE RepairFailed
  BY <1>23 DEF Covered, InRole, Types, RunTypes, JobTypes, RepairFailed, game, run
<1>24. CASE AllRepaired
  BY <1>24 DEF Covered, InRole, Types, RunTypes, JobTypes, AllRepaired, Goto, game, db, run
<1>25. CASE Complete
  BY <1>25 DEF Covered, InRole, Types, RunTypes, JobTypes, Complete, game, run
<1>26. CASE Crash
  BY <1>26 DEF Covered, InRole, Types, RunTypes, JobTypes, Crash, game, db, run
<1>27. CASE Leave
  BY <1>27 DEF Covered, InRole, Types, RunTypes, JobTypes, Leave, Raise, game, db, run
<1>28. CASE GiveUp
  BY <1>28 DEF Covered, InRole, Types, RunTypes, JobTypes, GiveUp, game, db
<1>29. CASE Ask
  BY <1>29 DEF Covered, InRole, Types, RunTypes, JobTypes, Ask, game, db, run
<1>30. CASE UNCHANGED vars
  BY <1>30 DEF Covered, InRole, Types, RunTypes, JobTypes, vars, game, db, run
<1> QED
   BY <1>1, <1>2, <1>3, <1>4, <1>5, <1>6, <1>7, <1>8, <1>9, <1>10, <1>11, <1>12, <1>13, <1>14,
     <1>15, <1>16, <1>17, <1>18, <1>19, <1>20, <1>21, <1>22, <1>23, <1>24, <1>25, <1>26, <1>27,
     <1>28, <1>29, <1>30 DEF Shape

LEMMA RepairedKeeps ==
  ASSUME Types, InRole, Listed, Progress, Covered, Repaired, Shape \/ UNCHANGED vars
  PROVE  Repaired'
<1>1. CASE Start
  <2>1. attempt' = 1
    BY <1>1 DEF Start, Begin
  <2> QED
    BY <2>1 DEF Repaired
<1>2. CASE Retry
  <2>1. attempt' = 1
    BY <1>2 DEF Retry, Begin
  <2> QED
    BY <2>1 DEF Repaired
<1>3. CASE Collect
  BY <1>3, SameFirst DEF Repaired, Busy, InRole, Types, RunTypes, JobTypes, Collect, game, db, run
<1>4. CASE Record
  BY <1>4, SameFirst DEF Repaired, Busy, InRole, Types, RunTypes, JobTypes, Record, game, db, run
<1>5. CASE Open
  BY <1>5, SameFirst DEF Repaired, Busy, InRole, Types, RunTypes, JobTypes, Open, game, db, run
<1>6. CASE NextRole
  <2>1. attempt' = 1
    BY <1>6 DEF NextRole, InRole
  <2> QED
    BY <2>1 DEF Repaired
<1>7. CASE NotDispatched
  BY <1>7, SameFirst DEF Repaired, Busy, InRole, Types, RunTypes, JobTypes, NotDispatched, game
<1>8. CASE RoleDone
  <2>1. attempt' = 1
    BY <1>8 DEF RoleDone
  <2> QED
    BY <2>1 DEF Repaired
<1>9. CASE RoleFailed
  BY <1>9, SameFirst DEF Repaired, Busy, InRole, Types, RunTypes, JobTypes, RoleFailed, game, run
<1>10. CASE AllSent
  BY <1>10, SameFirst DEF Repaired, Busy, InRole, Types, RunTypes, JobTypes, AllSent, game, db, run
<1>11. CASE Accepted
  <2>1. First \in Roles /\ First' = First /\ todo # {} /\ todo' = todo
    BY <1>11, FirstIs, SameFirst DEF Accepted, InRole, Busy, Types, RunTypes, run
  <2>2. \A x \in Roles : done'[x] = IF x = First THEN done[x] \cup {step} ELSE done[x]
    BY <1>11, <2>1, MetGives DEF Accepted, Types, RunTypes, HistoryTypes
  <2>3. at = "send" /\ at' = "settle" /\ attempt' = attempt
    BY <1>11 DEF Accepted, run
  <2> QED
    BY <2>1, <2>2, <2>3 DEF Repaired, Busy
<1>12. CASE Rejected
  BY <1>12, SameFirst DEF Repaired, Busy, InRole, Types, RunTypes, JobTypes, Rejected, game, db
<1>13. CASE RejectedAgain
   BY <1>13, SameFirst DEF Repaired, Busy, InRole, Types, RunTypes, JobTypes, RejectedAgain, game,
     db, run
<1>14. CASE NoAnswer
  BY <1>14, SameFirst DEF Repaired, Busy, InRole, Types, RunTypes, JobTypes, NoAnswer, db
<1>15. CASE Settle
   BY <1>15, SameFirst DEF Repaired, Busy, InRole, Types, RunTypes, JobTypes, Settle, StepDone,
     game, db
<1>16. CASE Release
  BY <1>16, SameFirst DEF Repaired, Busy, InRole, Types, RunTypes, JobTypes, Release, game, db
<1>17. CASE Resume
  <2>1. First \in Roles /\ First' = First /\ todo # {} /\ todo' = todo
    BY <1>17, FirstIs, SameFirst DEF Resume, InRole, Busy, Types, RunTypes
  <2>2. \A x \in Roles : x # First => done'[x] = done[x]
    BY <1>17, <2>1, MetGives DEF Resume, Types, RunTypes, HistoryTypes
  <2>3. at = "wait" /\ at' \in {"send", "mark"} /\ attempt' = attempt
    BY <1>17 DEF Resume, StepDone
  <2> QED
    BY <2>1, <2>2, <2>3 DEF Repaired, Busy
<1>18. CASE FullCheck
  <2>1. \A r \in Roles : done[r] = Steps
    <3>1. CASE attempt = 1
      BY <1>18, <3>1 DEF FullCheck, Check, Listed, InRole, Covered
    <3>2. CASE attempt > 1
      BY <1>18, <3>2 DEF FullCheck, Check, Repaired, Busy
    <3> QED
      BY <3>1, <3>2 DEF Types, RunTypes
  <2> QED
    BY <1>18, <2>1 DEF Repaired, FullCheck, game
<1>19. CASE ScopedCheck
  <2>1. \A r \in Roles : done[r] = Steps
    <3>1. CASE attempt = 1
      BY <1>19, <3>1 DEF ScopedCheck, Check, Listed, InRole, Covered
    <3>2. CASE attempt > 1
      BY <1>19, <3>2 DEF ScopedCheck, Check, Repaired, Busy
    <3> QED
      BY <3>1, <3>2 DEF Types, RunTypes
  <2> QED
    BY <1>19, <2>1 DEF Repaired, ScopedCheck, game
<1>20. CASE RetryFence
  BY <1>20, SameFirst DEF Repaired, Busy, InRole, Types, RunTypes, JobTypes, RetryFence, game, db
<1>21. CASE Repair
  <2>1. First \in Roles /\ First' = First /\ todo # {} /\ todo' = todo
    BY <1>21, FirstIs, SameFirst DEF Repair, InRole, Busy, Types, RunTypes
  <2>2. \A x \in Roles : done'[x] = IF x = First THEN {} ELSE done[x]
    BY <1>21, <2>1, BeginRoleGives DEF Repair, Types
  <2>3. at = "repair" /\ at' = "send" /\ attempt' = attempt
    BY <1>21 DEF Repair, BeginRole
  <2> QED
    BY <2>1, <2>2, <2>3 DEF Repaired, Busy
<1>22. CASE RepairDone
  <2>1. done[First] = Steps /\ done' = done /\ at = "mark" /\ at' = "repair" /\ attempt' = attempt
    BY <1>22 DEF RepairDone, Progress, game
  <2> QED
    BY <2>1 DEF Repaired, Busy
<1>23. CASE RepairFailed
  BY <1>23, SameFirst DEF Repaired, Busy, InRole, Types, RunTypes, JobTypes, RepairFailed, game, run
<1>24. CASE AllRepaired
   BY <1>24, SameFirst DEF Repaired, Busy, InRole, Types, RunTypes, JobTypes, AllRepaired, Goto,
     game, db, run
<1>25. CASE Complete
  BY <1>25, SameFirst DEF Repaired, Busy, InRole, Types, RunTypes, JobTypes, Complete, game, run
<1>26. CASE Crash
  BY <1>26, SameFirst DEF Repaired, Busy, InRole, Types, RunTypes, JobTypes, Crash, game, db, run
<1>27. CASE Leave
   BY <1>27, SameFirst DEF Repaired, Busy, InRole, Types, RunTypes, JobTypes, Leave, Raise, game,
     db, run
<1>28. CASE GiveUp
  BY <1>28, SameFirst DEF Repaired, Busy, InRole, Types, RunTypes, JobTypes, GiveUp, game, db
<1>29. CASE Ask
  BY <1>29, SameFirst DEF Repaired, Busy, InRole, Types, RunTypes, JobTypes, Ask, game, db, run
<1>30. CASE UNCHANGED vars
  BY <1>30, SameFirst DEF Repaired, Busy, InRole, Types, RunTypes, JobTypes, vars, game, db, run
<1> QED
   BY <1>1, <1>2, <1>3, <1>4, <1>5, <1>6, <1>7, <1>8, <1>9, <1>10, <1>11, <1>12, <1>13, <1>14,
     <1>15, <1>16, <1>17, <1>18, <1>19, <1>20, <1>21, <1>22, <1>23, <1>24, <1>25, <1>26, <1>27,
     <1>28, <1>29, <1>30 DEF Shape

LEMMA FinishedKeeps ==
  ASSUME Types, InRole, Covered, Repaired, Finished, Shape \/ UNCHANGED vars
  PROVE  Finished'
<1>1. CASE Start
  BY <1>1 DEF Finished, InRole, Start, Begin
<1>2. CASE Retry
  BY <1>2 DEF Finished, InRole, Retry, Begin
<1>3. CASE Collect
  BY <1>3 DEF Finished, InRole, Collect, game, db
<1>4. CASE Record
  BY <1>4 DEF Finished, InRole, Record, game, db
<1>5. CASE Open
  BY <1>5 DEF Finished, InRole, Open, game, db
<1>6. CASE NextRole
  <2>1. job # "completed" /\ (job' = job \/ job' \in {"running", "failed"})
    BY <1>6 DEF NextRole, Finished
  <2> QED
    BY <2>1 DEF Finished
<1>7. CASE NotDispatched
  BY <1>7 DEF Finished, InRole, NotDispatched, game
<1>8. CASE RoleDone
  BY <1>8 DEF Finished, InRole, RoleDone, game
<1>9. CASE RoleFailed
  BY <1>9 DEF Finished, InRole, RoleFailed, game
<1>10. CASE AllSent
  BY <1>10 DEF Finished, InRole, AllSent, game, db
<1>11. CASE Accepted
  <2>1. job # "completed" /\ (job' = job \/ job' \in {"running", "failed"})
    BY <1>11 DEF Accepted, Finished, db
  <2> QED
    BY <2>1 DEF Finished
<1>12. CASE Rejected
  BY <1>12 DEF Finished, InRole, Rejected, game, db
<1>13. CASE RejectedAgain
  BY <1>13 DEF Finished, InRole, RejectedAgain, game, db
<1>14. CASE NoAnswer
  <2>1. job # "completed" /\ (job' = job \/ job' \in {"running", "failed"})
    BY <1>14 DEF NoAnswer, Finished, db
  <2> QED
    BY <2>1 DEF Finished
<1>15. CASE Settle
  BY <1>15 DEF Finished, InRole, Settle, StepDone, game, db
<1>16. CASE Release
  BY <1>16 DEF Finished, InRole, Release, game, db
<1>17. CASE Resume
  <2>1. job # "completed" /\ (job' = job \/ job' \in {"running", "failed"})
    BY <1>17 DEF Resume, Finished, db
  <2> QED
    BY <2>1 DEF Finished
<1>18. CASE FullCheck
  BY <1>18 DEF Finished, InRole, FullCheck, Again, Check, game
<1>19. CASE ScopedCheck
  BY <1>19 DEF Finished, InRole, ScopedCheck, Again, Check, game
<1>20. CASE RetryFence
  BY <1>20 DEF Finished, InRole, RetryFence, game, db
<1>21. CASE Repair
  <2>1. job # "completed" /\ (job' = job \/ job' \in {"running", "failed"})
    BY <1>21 DEF Repair, Finished, db
  <2> QED
    BY <2>1 DEF Finished
<1>22. CASE RepairDone
  BY <1>22 DEF Finished, InRole, RepairDone, game, db
<1>23. CASE RepairFailed
  BY <1>23 DEF Finished, InRole, RepairFailed, game
<1>24. CASE AllRepaired
  BY <1>24 DEF Finished, InRole, AllRepaired, Goto, game, db
<1>25. CASE Complete
  <2>1. at = "complete" /\ at' = "idle" /\ done' = done /\ job # "completed"
    BY <1>25 DEF Complete, game, Finished
  <2>2. CASE \A r \in Roles : item[r] = "succeeded"
    <3>1. \A r \in Roles : done[r] = Steps
      <4>1. CASE attempt = 1
        BY <2>2, <4>1 DEF Covered
      <4>2. CASE attempt > 1
        BY <2>1, <2>2, <4>2 DEF Repaired, Busy
      <4> QED
        BY <4>1, <4>2 DEF Types, RunTypes
    <3> QED
      BY <2>1, <3>1 DEF Finished
  <2>3. CASE ~\A r \in Roles : item[r] = "succeeded"
    BY <1>25, <2>1, <2>3 DEF Complete, Finished
  <2> QED
    BY <2>2, <2>3
<1>26. CASE Crash
  <2>1. job # "completed" /\ (job' = job \/ job' \in {"running", "failed"})
    BY <1>26 DEF Crash, Finished, db
  <2> QED
    BY <2>1 DEF Finished
<1>27. CASE Leave
  BY <1>27 DEF Finished, InRole, Leave, Raise, game, db
<1>28. CASE GiveUp
  BY <1>28 DEF Finished, InRole, GiveUp, game, db
<1>29. CASE Ask
  BY <1>29 DEF Finished, InRole, Ask, game, db
<1>30. CASE UNCHANGED vars
  BY <1>30 DEF Finished, InRole, vars, game, db
<1> QED
   BY <1>1, <1>2, <1>3, <1>4, <1>5, <1>6, <1>7, <1>8, <1>9, <1>10, <1>11, <1>12, <1>13, <1>14,
     <1>15, <1>16, <1>17, <1>18, <1>19, <1>20, <1>21, <1>22, <1>23, <1>24, <1>25, <1>26, <1>27,
     <1>28, <1>29, <1>30 DEF Shape

LEMMA SingleStays ==
  ASSUME Single, Quiet, todo' = todo \/ \A r \in Roles : ~Partial(r)
  PROVE  Single'
  BY SameFirst DEF Single, Quiet, Partial

LEMMA SingleKeeps ==
  ASSUME Types, InRole, Listed, Progress, Single, Shape \/ UNCHANGED vars
  PROVE  Single'
<1>1. CASE Start
  <2>1. \A r \in Roles, k \in Steps : sent'[r][k] = 0
    BY <1>1 DEF Start, Unsent
  <2> QED
    BY <2>1 DEF Single, Partial
<1>2. CASE Retry
  <2>1. todo' = todo
    BY <1>2 DEF Retry, Begin, Listed
  <2> QED
    BY <1>2, <2>1, SingleStays DEF Retry, Quiet
<1>3. CASE Collect
  BY <1>3, SingleStays DEF Collect, Quiet, game, run
<1>4. CASE Record
  BY <1>4, SingleStays DEF Record, Quiet, game, run
<1>5. CASE Open
  BY <1>5, SingleStays DEF Open, Quiet, game, run
<1>6. CASE NextRole
  <2>1. First \in Roles /\ First' = First /\ todo # {} /\ todo' = todo
    BY <1>6, FirstIs, SameFirst DEF NextRole, InRole, Busy, Types, RunTypes
  <2>2. \A x \in Roles : x # First => sent'[x] = sent[x] /\ done'[x] = done[x]
    BY <1>6, <2>1, BeginRoleGives DEF NextRole, Types
  <2>3. \A k \in Steps : sent'[First][k] = 0
    BY <1>6, <2>1, BeginRoleGives DEF NextRole, Types, Unsent
  <2> QED
    BY <2>1, <2>2, <2>3 DEF Single, Partial
<1>7. CASE NotDispatched
  BY <1>7, SingleStays DEF NotDispatched, Quiet, game
<1>8. CASE RoleDone
  <2>1. \A r \in Roles : ~Partial(r)
    BY <1>8 DEF RoleDone, Progress, Single, Partial
  <2> QED
    BY <1>8, <2>1, SingleStays DEF RoleDone, Quiet, game
<1>9. CASE RoleFailed
  BY <1>9, SingleStays DEF RoleFailed, Quiet, game, run
<1>10. CASE AllSent
  BY <1>10, SingleStays DEF AllSent, Quiet, game, run
<1>11. CASE Accepted
  <2>1. First \in Roles /\ First' = First /\ todo # {} /\ todo' = todo
    BY <1>11, FirstIs, SameFirst DEF Accepted, InRole, Busy, Types, RunTypes, run
  <2>2. step \in Steps /\ Take(First, step) /\ Met(First, step)
    BY <1>11 DEF Accepted, Types, RunTypes
  <2>3. \A x \in Roles, k \in Steps : x # First => sent'[x][k] = sent[x][k]
    BY <2>1, <2>2, TakeGives DEF Types, HistoryTypes
  <2>4. \A x \in Roles : x # First => done'[x] = done[x]
    BY <2>1, <2>2, MetGives DEF Types, HistoryTypes
  <2> QED
    BY <2>1, <2>3, <2>4 DEF Single, Partial
<1>12. CASE Rejected
  BY <1>12, SingleStays DEF Rejected, Quiet, game
<1>13. CASE RejectedAgain
  BY <1>13, SingleStays DEF RejectedAgain, Quiet, game, run
<1>14. CASE NoAnswer
  <2>1. First \in Roles /\ First' = First /\ todo # {} /\ todo' = todo
    BY <1>14, FirstIs, SameFirst DEF NoAnswer, InRole, Busy, Types, RunTypes
   <2>2. \A x \in Roles : x # First => done'[x] = done[x] /\ \A k \in Steps : sent'[x][k] =
     sent[x][k]
    BY <1>14, <2>1, TakeGives, MetGives DEF NoAnswer, Types, RunTypes, HistoryTypes
  <2> QED
    BY <2>1, <2>2 DEF Single, Partial
<1>15. CASE Settle
  BY <1>15, SingleStays DEF Settle, Quiet, game
<1>16. CASE Release
  BY <1>16, SingleStays DEF Release, Quiet, game
<1>17. CASE Resume
  <2>1. First \in Roles /\ First' = First /\ todo # {} /\ todo' = todo
    BY <1>17, FirstIs, SameFirst DEF Resume, InRole, Busy, Types, RunTypes
  <2>2. sent' = sent /\ \A x \in Roles : x # First => done'[x] = done[x]
    BY <1>17, <2>1, MetGives DEF Resume, Types, RunTypes, HistoryTypes
  <2> QED
    BY <2>1, <2>2 DEF Single, Partial
<1>18. CASE FullCheck
  BY <1>18, SingleStays DEF FullCheck, Quiet, game
<1>19. CASE ScopedCheck
  BY <1>19, SingleStays DEF ScopedCheck, Quiet, game
<1>20. CASE RetryFence
  <2>1. \A r \in Roles : ~Partial(r)
    BY <1>20 DEF RetryFence, InRole, Single
  <2> QED
    BY <1>20, <2>1, SingleStays DEF RetryFence, Quiet, game
<1>21. CASE Repair
  <2>1. First \in Roles /\ First' = First /\ todo # {} /\ todo' = todo
    BY <1>21, FirstIs, SameFirst DEF Repair, InRole, Busy, Types, RunTypes
  <2>2. \A x \in Roles : x # First => sent'[x] = sent[x] /\ done'[x] = done[x]
    BY <1>21, <2>1, BeginRoleGives DEF Repair, Types
  <2>3. \A k \in Steps : sent'[First][k] = 0
    BY <1>21, <2>1, BeginRoleGives DEF Repair, Types, Unsent
  <2> QED
    BY <2>1, <2>2, <2>3 DEF Single, Partial
<1>22. CASE RepairDone
  <2>1. \A r \in Roles : ~Partial(r)
    BY <1>22 DEF RepairDone, Progress, Single, Partial
  <2> QED
    BY <1>22, <2>1, SingleStays DEF RepairDone, Quiet, game
<1>23. CASE RepairFailed
  BY <1>23, SingleStays DEF RepairFailed, Quiet, game, run
<1>24. CASE AllRepaired
  BY <1>24, SingleStays DEF AllRepaired, Goto, Quiet, game, run
<1>25. CASE Complete
  BY <1>25, SingleStays DEF Complete, Quiet, game, run
<1>26. CASE Crash
  <2>1. CASE Quiet
    BY <1>26, <2>1, SingleStays DEF Crash, run
  <2>2. CASE at = "send" /\ Take(First, step) /\ done' = done
    <3>1. First \in Roles /\ First' = First /\ todo # {} /\ todo' = todo
      BY <1>26, <2>2, FirstIs, SameFirst DEF Crash, InRole, Busy, Types, RunTypes, run
    <3>2. \A x \in Roles, k \in Steps : x # First => sent'[x][k] = sent[x][k]
      BY <2>2, <3>1, TakeGives DEF Types, RunTypes, HistoryTypes
    <3> QED
      BY <2>2, <3>1, <3>2 DEF Single, Partial
  <2> QED
    BY <1>26, <2>1, <2>2 DEF Crash, Quiet, game
<1>27. CASE Leave
  BY <1>27, SingleStays DEF Leave, Raise, Quiet, game, run
<1>28. CASE GiveUp
  BY <1>28, SingleStays DEF GiveUp, Quiet, game
<1>29. CASE Ask
  BY <1>29, SingleStays DEF Ask, Quiet, game, run
<1>30. CASE UNCHANGED vars
  BY <1>30, SingleStays DEF vars, Quiet, game, run
<1> QED
   BY <1>1, <1>2, <1>3, <1>4, <1>5, <1>6, <1>7, <1>8, <1>9, <1>10, <1>11, <1>12, <1>13, <1>14,
     <1>15, <1>16, <1>17, <1>18, <1>19, <1>20, <1>21, <1>22, <1>23, <1>24, <1>25, <1>26, <1>27,
     <1>28, <1>29, <1>30 DEF Shape

-----------------------------------------------------------------------------
(* The invariant and the theorems *)

Inv ==
  /\ Types /\ InRole /\ Once /\ Doubt /\ Failing
  /\ Listed /\ Progress /\ Covered /\ Repaired /\ Finished /\ Single

LEMMA InitInv == Init => Inv
<1> SUFFICES ASSUME Init PROVE Inv
  OBVIOUS
<1> USE Bounds DEF Init
<1>1. RunTypes
  BY DEF RunTypes, Places, Failures
<1>2. 0 \in 0..MaxRuns
  OBVIOUS
<1>3. FlagTypes
  BY <1>2 DEF FlagTypes
<1>4. JobTypes /\ CountTypes
  BY DEF JobTypes, Statuses, CountTypes
<1>5. {1} \in SUBSET Steps /\ Plan \in SUBSET Steps
  OBVIOUS
<1>6. GameTypes
  BY <1>5 DEF GameTypes
<1>7. HistoryTypes /\ \A r \in Roles, k \in Steps : sent[r][k] = 0
  BY DEF HistoryTypes, Unsent
<1>8. at = "idle" /\ attempt = 1 /\ ~retryable /\ ~unknown /\ job = "none"
  OBVIOUS
<1>9. \A r \in Roles : item[r] = "pending"
  OBVIOUS
<1> HIDE DEF Init
<1>10. InRole /\ Once
  BY <1>7, <1>8 DEF InRole, Busy, Once
<1>11. Doubt /\ Failing /\ Listed
  BY <1>8, <1>9 DEF Doubt, Failing, Listed, Busy
<1>12. Progress /\ Covered /\ Repaired /\ Finished
  BY <1>8, <1>9 DEF Progress, Covered, Repaired, Finished
<1>13. Single
  BY <1>7 DEF Single, Partial
<1> QED
  BY <1>1, <1>3, <1>4, <1>6, <1>7, <1>10, <1>11, <1>12, <1>13 DEF Inv, Types

LEMMA NextInv == Inv /\ [Next]_vars => Inv'
<1> SUFFICES ASSUME Inv, [Next]_vars PROVE Inv'
  OBVIOUS
<1>1. Shape \/ UNCHANGED vars
  BY NextShape DEF Inv, Types, FlagTypes
<1>2. Types /\ InRole /\ Listed /\ Progress
  BY DEF Inv
<1>3. RunTypes /\ FlagTypes /\ JobTypes /\ CountTypes /\ GameTypes /\ HistoryTypes
  BY <1>2 DEF Types
<1>4. Types'
  BY <1>1, <1>2, <1>3, RunTypesKeeps, FlagTypesKeeps, JobTypesKeeps, CountTypesKeeps,
     GameTypesKeeps, HistoryTypesKeeps DEF Types
<1>5. InRole' /\ Once' /\ Doubt' /\ Failing'
  BY <1>1, <1>2, <1>3, InRoleKeeps, OnceKeeps, DoubtKeeps, FailingKeeps DEF Inv
<1>6. Listed' /\ Progress' /\ Covered' /\ Single'
  BY <1>1, <1>2, <1>3, ListedKeeps, ProgressKeeps, CoveredKeeps, SingleKeeps DEF Inv
<1>7. Repaired' /\ Finished'
  BY <1>1, <1>2, <1>3, RepairedKeeps, FinishedKeeps DEF Inv
<1> QED
  BY <1>4, <1>5, <1>6, <1>7 DEF Inv

\* The parts hold in every state, whatever the game, the source and the user do.
THEOREM ApplyInvariant == Spec => []Inv
  BY InitInv, NextInv, PTL DEF Spec

\* The types of the state.
THEOREM ApplyTypeCorrect == Spec => []TypeOK
<1>1. Inv => TypeOK
  BY DEF Inv, Types, RunTypes, FlagTypes, JobTypes, CountTypes, GameTypes, HistoryTypes, Places,
     Failures, TypeOK
<1> QED
  BY <1>1, ApplyInvariant, PTL

\* A command the game may have taken is not sent again in the same attempt.
THEOREM TakenAtMostOnce == Spec => []TakenOnce
<1>1. Inv => TakenOnce
  BY DEF Inv, Once, TakenOnce
<1> QED
  BY <1>1, ApplyInvariant, PTL

\* At most one character is left with a part of its commands.
THEOREM AtMostOnePartial == Spec => []OnePartial
<1>1. Inv => OnePartial
  BY DEF Inv, Single, OnePartial
<1> QED
  BY <1>1, ApplyInvariant, PTL

\* A partial character is never left marked as done, but by a repair that was cut short.
THEOREM PartialsAreMarked == Spec => []PartialIsMarked
<1>1. Inv => PartialIsMarked
  <2> SUFFICES ASSUME Inv, NEW r \in Roles, Partial(r), item[r] = "succeeded"
               PROVE  attempt > 1 /\ (at # "idle" \/ cut)
    BY DEF PartialIsMarked
  <2>1. done[r] # Steps
    BY DEF Partial
  <2>2. attempt # 1
    BY <2>1 DEF Inv, Covered
  <2>3. attempt > 1
    BY <2>2 DEF Inv, Types, RunTypes
  <2> QED
    BY <2>1, <2>3 DEF Inv, Repaired, Busy
<1> QED
  BY <1>1, ApplyInvariant, PTL

\* A completed job sent every character its whole plan.
THEOREM CompletedIsSent == Spec => []CompletedMeansSent
<1>1. Inv => CompletedMeansSent
  BY DEF Inv, Finished, CompletedMeansSent
<1> QED
  BY <1>1, ApplyInvariant, PTL

\* Where a step sends something to the game.
LEMMA Senders ==
  ASSUME Inv, [Next]_vars
  PROVE  \/ sent' = sent
         \/ Start
         \/ at \in {"role", "send", "repair"}
<1>1. Shape \/ UNCHANGED vars
  BY NextShape DEF Inv, Types, FlagTypes
<1>2. Start \/ NextRole \/ Accepted \/ NoAnswer \/ Resume \/ Repair \/ Crash \/ Quiet
  BY <1>1, QuietOr
<1> QED
  BY <1>2 DEF NextRole, Accepted, NoAnswer, Resume, Repair, Crash, Quiet, game

\* After an unknown outcome nothing more is sent, not even on a retry.
THEOREM DoubtEnds == Spec => NoSendAfterUnknown
<1>1. Inv /\ [Next]_vars => [unknown /\ unknown' => UNCHANGED sent]_vars
  <2> SUFFICES ASSUME Inv, [Next]_vars, unknown, unknown' PROVE sent' = sent
    OBVIOUS
  <2>1. at \in {"fail", "complete", "idle"}
    BY DEF Inv, Doubt
  <2>2. CASE Start
    BY <2>2 DEF Start
  <2> QED
    BY <2>1, <2>2, Senders
<1> QED
  BY <1>1, ApplyInvariant, PTL DEF Spec, NoSendAfterUnknown

\* Nobody is sent anything while another character is marked failed.
THEOREM FailureStops == Spec => StopsAtFailure
<1>1. Inv /\ [Next]_vars =>
        [(\E r \in Roles : item[r] = "failed" /\ item'[r] = "failed") => UNCHANGED sent]_vars
  <2> SUFFICES ASSUME Inv, [Next]_vars, NEW r \in Roles, item[r] = "failed", item'[r] = "failed"
               PROVE  sent' = sent
    OBVIOUS
  <2>1. at \in {"complete", "idle"}
    BY DEF Inv, Failing
  <2>2. ~Start
    BY DEF Start
  <2> QED
    BY <2>1, <2>2, Senders
<1> QED
  BY <1>1, ApplyInvariant, PTL DEF Spec, StopsAtFailure

-----------------------------------------------------------------------------
(* What the observations say, when none is recorded late *)

Prompt ==
  /\ batch => read = None
  /\ at \in {"role", "send", "settle", "recover", "mark"} => batch
  /\ read # None => read = held

Queue ==
  /\ todo \subseteq pending
  /\ attempt = 1 /\ at \notin {"idle", "complete"} => pending # {}

\* The first pass has sent a command.
Dispatched ==
  todo # pending \/ at \in {"settle", "recover", "wait", "mark"} \/ (at = "send" /\ step > 1)

Current == attempt = 1 /\ seen /\ Dispatched => obs = held

Sound == \A r \in Roles : verified[r] = "first" => held[r] = Plan /\ r \notin pending

LEMMA PromptKeeps ==
  ASSUME MayLag = FALSE, Types, Prompt, Shape \/ UNCHANGED vars
  PROVE  Prompt'
<1>1. CASE Start
  BY <1>1 DEF Prompt, Types, FlagTypes, Start, Begin, sync
<1>2. CASE Retry
  BY <1>2 DEF Prompt, Types, FlagTypes, Retry, Begin, sync
<1>3. CASE Collect
  BY <1>3 DEF Prompt, Types, FlagTypes, Collect, game
<1>4. CASE Record
  BY <1>4 DEF Prompt, Types, FlagTypes, Record, game
<1>5. CASE Open
  BY <1>5 DEF Prompt, Types, FlagTypes, Open, Opened, game, sync
<1>6. CASE NextRole
  BY <1>6 DEF Prompt, Types, FlagTypes, NextRole, BeginRole, sync
<1>7. CASE NotDispatched
  BY <1>7 DEF Prompt, Types, FlagTypes, NotDispatched, game, sync
<1>8. CASE RoleDone
  BY <1>8 DEF Prompt, Types, FlagTypes, RoleDone, game, sync
<1>9. CASE RoleFailed
  BY <1>9 DEF Prompt, Types, FlagTypes, RoleFailed, game, sync
<1>10. CASE AllSent
  BY <1>10 DEF Prompt, Types, FlagTypes, AllSent, game, sync
<1>11. CASE Accepted
  BY <1>11 DEF Prompt, Types, FlagTypes, Accepted
<1>12. CASE Rejected
  BY <1>12 DEF Prompt, Types, FlagTypes, Rejected, game
<1>13. CASE RejectedAgain
  BY <1>13 DEF Prompt, Types, FlagTypes, RejectedAgain, game
<1>14. CASE NoAnswer
  BY <1>14 DEF Prompt, Types, FlagTypes, NoAnswer
<1>15. CASE Settle
  BY <1>15 DEF Prompt, Types, FlagTypes, Settle, StepDone, game, sync
<1>16. CASE Release
  BY <1>16 DEF Prompt, Types, FlagTypes, Release, game
<1>17. CASE Resume
  BY <1>17 DEF Prompt, Types, FlagTypes, Resume, StepDone, Opened
<1>18. CASE FullCheck
  BY <1>18 DEF Prompt, Types, FlagTypes, FullCheck, Again, game, sync
<1>19. CASE ScopedCheck
  BY <1>19 DEF Prompt, Types, FlagTypes, ScopedCheck, Again, game, sync
<1>20. CASE RetryFence
  BY <1>20 DEF Prompt, Types, FlagTypes, RetryFence, game
<1>21. CASE Repair
  BY <1>21 DEF Prompt, Types, FlagTypes, Repair, BeginRole, Opened, sync
<1>22. CASE RepairDone
  BY <1>22 DEF Prompt, Types, FlagTypes, RepairDone, game, sync
<1>23. CASE RepairFailed
  BY <1>23 DEF Prompt, Types, FlagTypes, RepairFailed, game, sync
<1>24. CASE AllRepaired
  BY <1>24 DEF Prompt, Types, FlagTypes, AllRepaired, Goto, game, sync
<1>25. CASE Complete
  BY <1>25 DEF Prompt, Types, FlagTypes, Complete, game, sync
<1>26. CASE Crash
  BY <1>26 DEF Prompt, Types, FlagTypes, Crash, game
<1>27. CASE Leave
  BY <1>27 DEF Prompt, Types, FlagTypes, Leave, Raise, game, sync
<1>28. CASE GiveUp
  BY <1>28 DEF Prompt, Types, FlagTypes, GiveUp, game
<1>29. CASE Ask
  BY <1>29 DEF Prompt, Types, FlagTypes, Ask, game, sync
<1>30. CASE UNCHANGED vars
  BY <1>30 DEF Prompt, Types, FlagTypes, vars, game, sync
<1> QED
   BY <1>1, <1>2, <1>3, <1>4, <1>5, <1>6, <1>7, <1>8, <1>9, <1>10, <1>11, <1>12, <1>13, <1>14,
     <1>15, <1>16, <1>17, <1>18, <1>19, <1>20, <1>21, <1>22, <1>23, <1>24, <1>25, <1>26, <1>27,
     <1>28, <1>29, <1>30 DEF Shape

LEMMA QueueKeeps ==
  ASSUME Types, InRole, Listed, Queue, Shape \/ UNCHANGED vars
  PROVE  Queue'
<1>1. CASE Start
  <2>1. todo' = Roles /\ pending' = Roles
    BY <1>1 DEF Start, Begin
  <2> QED
    BY <2>1, Bounds DEF Queue
<1>2. CASE Retry
  <2>1. todo' = todo /\ pending' = todo /\ todo # {}
    BY <1>2 DEF Retry, Begin, Listed, InRole
  <2> QED
    BY <2>1 DEF Queue
<1>3. CASE Collect
  BY <1>3 DEF Queue, InRole, Types, RunTypes, FlagTypes, Collect, run
<1>4. CASE Record
  BY <1>4 DEF Queue, InRole, Types, RunTypes, FlagTypes, Record, run
<1>5. CASE Open
  BY <1>5 DEF Queue, InRole, Types, RunTypes, FlagTypes, Open, run
<1>6. CASE NextRole
  BY <1>6 DEF Queue, InRole, Types, RunTypes, FlagTypes, NextRole, BeginRole
<1>7. CASE NotDispatched
  BY <1>7 DEF Queue, InRole, Types, RunTypes, FlagTypes, NotDispatched
<1>8. CASE RoleDone
  BY <1>8 DEF Queue, InRole, Types, RunTypes, FlagTypes, RoleDone
<1>9. CASE RoleFailed
  BY <1>9 DEF Queue, InRole, Types, RunTypes, FlagTypes, RoleFailed, run
<1>10. CASE AllSent
  BY <1>10 DEF Queue, InRole, Types, RunTypes, FlagTypes, AllSent, run
<1>11. CASE Accepted
  BY <1>11 DEF Queue, InRole, Types, RunTypes, FlagTypes, Accepted, run
<1>12. CASE Rejected
  BY <1>12 DEF Queue, InRole, Types, RunTypes, FlagTypes, Rejected
<1>13. CASE RejectedAgain
  BY <1>13 DEF Queue, InRole, Types, RunTypes, FlagTypes, RejectedAgain, run
<1>14. CASE NoAnswer
  BY <1>14 DEF Queue, InRole, Types, RunTypes, FlagTypes, NoAnswer
<1>15. CASE Settle
  BY <1>15 DEF Queue, InRole, Types, RunTypes, FlagTypes, Settle, StepDone
<1>16. CASE Release
  BY <1>16 DEF Queue, InRole, Types, RunTypes, FlagTypes, Release
<1>17. CASE Resume
  BY <1>17 DEF Queue, InRole, Types, RunTypes, FlagTypes, Resume, StepDone
<1>18. CASE FullCheck
  BY <1>18 DEF Queue, InRole, Types, RunTypes, FlagTypes, FullCheck, Again, Check
<1>19. CASE ScopedCheck
  BY <1>19 DEF Queue, InRole, Types, RunTypes, FlagTypes, ScopedCheck, Again, Check
<1>20. CASE RetryFence
  BY <1>20 DEF Queue, InRole, Types, RunTypes, FlagTypes, RetryFence
<1>21. CASE Repair
  BY <1>21 DEF Queue, InRole, Types, RunTypes, FlagTypes, Repair, BeginRole
<1>22. CASE RepairDone
  BY <1>22 DEF Queue, InRole, Types, RunTypes, FlagTypes, RepairDone
<1>23. CASE RepairFailed
  BY <1>23 DEF Queue, InRole, Types, RunTypes, FlagTypes, RepairFailed, run
<1>24. CASE AllRepaired
  BY <1>24 DEF Queue, InRole, Types, RunTypes, FlagTypes, AllRepaired, Goto, run
<1>25. CASE Complete
  BY <1>25 DEF Queue, InRole, Types, RunTypes, FlagTypes, Complete, run
<1>26. CASE Crash
  BY <1>26 DEF Queue, InRole, Types, RunTypes, FlagTypes, Crash, run
<1>27. CASE Leave
  BY <1>27 DEF Queue, InRole, Types, RunTypes, FlagTypes, Leave, Raise, run
<1>28. CASE GiveUp
  BY <1>28 DEF Queue, InRole, Types, RunTypes, FlagTypes, GiveUp
<1>29. CASE Ask
  BY <1>29 DEF Queue, InRole, Types, RunTypes, FlagTypes, Ask, run
<1>30. CASE UNCHANGED vars
  BY <1>30 DEF Queue, InRole, Types, RunTypes, FlagTypes, vars, run
<1> QED
   BY <1>1, <1>2, <1>3, <1>4, <1>5, <1>6, <1>7, <1>8, <1>9, <1>10, <1>11, <1>12, <1>13, <1>14,
     <1>15, <1>16, <1>17, <1>18, <1>19, <1>20, <1>21, <1>22, <1>23, <1>24, <1>25, <1>26, <1>27,
     <1>28, <1>29, <1>30 DEF Shape

LEMMA CurrentKeeps ==
  ASSUME Types, InRole, Prompt, Queue, Current, Shape \/ UNCHANGED vars
  PROVE  Current'
<1>1. CASE Start
   BY <1>1 DEF Current, Dispatched, Queue, Prompt, InRole, Types, RunTypes, FlagTypes, Start, Begin,
     sync
<1>2. CASE Retry
   BY <1>2 DEF Current, Dispatched, Queue, Prompt, InRole, Types, RunTypes, FlagTypes, Retry, Begin,
     sync
<1>3. CASE Collect
   BY <1>3 DEF Current, Dispatched, Queue, Prompt, InRole, Types, RunTypes, FlagTypes, Collect,
     game, run
<1>4. CASE Record
   BY <1>4 DEF Current, Dispatched, Queue, Prompt, InRole, Types, RunTypes, FlagTypes, Record, game,
     run
<1>5. CASE Open
   BY <1>5 DEF Current, Dispatched, Queue, Prompt, InRole, Types, RunTypes, FlagTypes, Open, game,
     sync, run
<1>6. CASE NextRole
  <2>1. at' = "send" /\ step' = 1 /\ seen' = seen /\ obs' = obs /\ held' = held
    BY <1>6 DEF NextRole, BeginRole, sync
  <2>2. attempt' = attempt /\ todo' = todo /\ pending' = pending
    BY <1>6 DEF NextRole
  <2> QED
    BY <2>1, <2>2 DEF Current, Dispatched
<1>7. CASE NotDispatched
   BY <1>7 DEF Current, Dispatched, Queue, Prompt, InRole, Types, RunTypes, FlagTypes,
     NotDispatched, game, sync
<1>8. CASE RoleDone
   BY <1>8 DEF Current, Dispatched, Queue, Prompt, InRole, Types, RunTypes, FlagTypes, RoleDone,
     game, sync
<1>9. CASE RoleFailed
   BY <1>9 DEF Current, Dispatched, Queue, Prompt, InRole, Types, RunTypes, FlagTypes, RoleFailed,
     game, sync, run
<1>10. CASE AllSent
   BY <1>10 DEF Current, Dispatched, Queue, Prompt, InRole, Types, RunTypes, FlagTypes, AllSent,
     game, sync, run
<1>11. CASE Accepted
   BY <1>11 DEF Current, Dispatched, Queue, Prompt, InRole, Types, RunTypes, FlagTypes, Accepted,
     Fence, run
<1>12. CASE Rejected
   BY <1>12 DEF Current, Dispatched, Queue, Prompt, InRole, Types, RunTypes, FlagTypes, Rejected,
     Fence, game
<1>13. CASE RejectedAgain
   BY <1>13 DEF Current, Dispatched, Queue, Prompt, InRole, Types, RunTypes, FlagTypes,
     RejectedAgain, Fence, game, run
<1>14. CASE NoAnswer
   BY <1>14 DEF Current, Dispatched, Queue, Prompt, InRole, Types, RunTypes, FlagTypes, NoAnswer,
     Fence
<1>15. CASE Settle
   BY <1>15 DEF Current, Dispatched, Queue, Prompt, InRole, Types, RunTypes, FlagTypes, Settle,
     StepDone, game, sync
<1>16. CASE Release
  BY <1>16 DEF Current, Dispatched, Queue, Prompt, InRole, Types, RunTypes, FlagTypes, Release, game
<1>17. CASE Resume
   BY <1>17 DEF Current, Dispatched, Queue, Prompt, InRole, Types, RunTypes, FlagTypes, Resume,
     StepDone
<1>18. CASE FullCheck
   BY <1>18 DEF Current, Dispatched, Queue, Prompt, InRole, Types, RunTypes, FlagTypes, FullCheck,
     Again, Check, game, sync
<1>19. CASE ScopedCheck
   BY <1>19 DEF Current, Dispatched, Queue, Prompt, InRole, Types, RunTypes, FlagTypes, ScopedCheck,
     Again, Check, game, sync
<1>20. CASE RetryFence
   BY <1>20 DEF Current, Dispatched, Queue, Prompt, InRole, Types, RunTypes, FlagTypes, RetryFence,
     game
<1>21. CASE Repair
  <2>1. attempt > 1 /\ attempt' = attempt
    BY <1>21 DEF Repair, InRole
  <2> QED
    BY <2>1 DEF Current
<1>22. CASE RepairDone
   BY <1>22 DEF Current, Dispatched, Queue, Prompt, InRole, Types, RunTypes, FlagTypes, RepairDone,
     game, sync
<1>23. CASE RepairFailed
   BY <1>23 DEF Current, Dispatched, Queue, Prompt, InRole, Types, RunTypes, FlagTypes,
     RepairFailed, game, sync, run
<1>24. CASE AllRepaired
   BY <1>24 DEF Current, Dispatched, Queue, Prompt, InRole, Types, RunTypes, FlagTypes, AllRepaired,
     Goto, game, sync, run
<1>25. CASE Complete
   BY <1>25 DEF Current, Dispatched, Queue, Prompt, InRole, Types, RunTypes, FlagTypes, Complete,
     game, sync, run
<1>26. CASE Crash
   BY <1>26 DEF Current, Dispatched, Queue, Prompt, InRole, Types, RunTypes, FlagTypes, Crash, game,
     run
<1>27. CASE Leave
   BY <1>27 DEF Current, Dispatched, Queue, Prompt, InRole, Types, RunTypes, FlagTypes, Leave,
     Raise, game, sync, run
<1>28. CASE GiveUp
  BY <1>28 DEF Current, Dispatched, Queue, Prompt, InRole, Types, RunTypes, FlagTypes, GiveUp, game
<1>29. CASE Ask
   BY <1>29 DEF Current, Dispatched, Queue, Prompt, InRole, Types, RunTypes, FlagTypes, Ask, game,
     sync, run
<1>30. CASE UNCHANGED vars
   BY <1>30 DEF Current, Dispatched, Queue, Prompt, InRole, Types, RunTypes, FlagTypes, vars, game,
     sync, run
<1> QED
   BY <1>1, <1>2, <1>3, <1>4, <1>5, <1>6, <1>7, <1>8, <1>9, <1>10, <1>11, <1>12, <1>13, <1>14,
     <1>15, <1>16, <1>17, <1>18, <1>19, <1>20, <1>21, <1>22, <1>23, <1>24, <1>25, <1>26, <1>27,
     <1>28, <1>29, <1>30 DEF Shape

LEMMA SoundKeeps ==
  ASSUME Types, InRole, Queue, Current, Sound, Shape \/ UNCHANGED vars
  PROVE  Sound'
<1>1. CASE Start
   BY <1>1, FirstIs DEF Sound, Queue, InRole, Busy, Types, RunTypes, JobTypes, GameTypes, Effect,
     Start, Begin
<1>2. CASE Retry
   BY <1>2, FirstIs DEF Sound, Queue, InRole, Busy, Types, RunTypes, JobTypes, GameTypes, Effect,
     Retry, Begin
<1>3. CASE Collect
   BY <1>3, FirstIs DEF Sound, Queue, InRole, Busy, Types, RunTypes, JobTypes, GameTypes, Effect,
     Collect, game, run
<1>4. CASE Record
   BY <1>4, FirstIs DEF Sound, Queue, InRole, Busy, Types, RunTypes, JobTypes, GameTypes, Effect,
     Record, game, run
<1>5. CASE Open
   BY <1>5, FirstIs DEF Sound, Queue, InRole, Busy, Types, RunTypes, JobTypes, GameTypes, Effect,
     Open, game, run
<1>6. CASE NextRole
   BY <1>6, FirstIs DEF Sound, Queue, InRole, Busy, Types, RunTypes, JobTypes, GameTypes, Effect,
     NextRole, BeginRole
<1>7. CASE NotDispatched
   BY <1>7, FirstIs DEF Sound, Queue, InRole, Busy, Types, RunTypes, JobTypes, GameTypes, Effect,
     NotDispatched, game
<1>8. CASE RoleDone
   BY <1>8, FirstIs DEF Sound, Queue, InRole, Busy, Types, RunTypes, JobTypes, GameTypes, Effect,
     RoleDone, game
<1>9. CASE RoleFailed
   BY <1>9, FirstIs DEF Sound, Queue, InRole, Busy, Types, RunTypes, JobTypes, GameTypes, Effect,
     RoleFailed, game, run
<1>10. CASE AllSent
   BY <1>10, FirstIs DEF Sound, Queue, InRole, Busy, Types, RunTypes, JobTypes, GameTypes, Effect,
     AllSent, game, run
<1>11. CASE Accepted
   BY <1>11, FirstIs DEF Sound, Queue, InRole, Busy, Types, RunTypes, JobTypes, GameTypes, Effect,
     Accepted, run
<1>12. CASE Rejected
   BY <1>12, FirstIs DEF Sound, Queue, InRole, Busy, Types, RunTypes, JobTypes, GameTypes, Effect,
     Rejected, game
<1>13. CASE RejectedAgain
   BY <1>13, FirstIs DEF Sound, Queue, InRole, Busy, Types, RunTypes, JobTypes, GameTypes, Effect,
     RejectedAgain, game, run
<1>14. CASE NoAnswer
   BY <1>14, FirstIs DEF Sound, Queue, InRole, Busy, Types, RunTypes, JobTypes, GameTypes, Effect,
     NoAnswer
<1>15. CASE Settle
   BY <1>15, FirstIs DEF Sound, Queue, InRole, Busy, Types, RunTypes, JobTypes, GameTypes, Effect,
     Settle, StepDone, game
<1>16. CASE Release
   BY <1>16, FirstIs DEF Sound, Queue, InRole, Busy, Types, RunTypes, JobTypes, GameTypes, Effect,
     Release, game
<1>17. CASE Resume
   BY <1>17, FirstIs DEF Sound, Queue, InRole, Busy, Types, RunTypes, JobTypes, GameTypes, Effect,
     Resume, StepDone
<1>18. CASE FullCheck
  <2>1. attempt = 1 => obs = held
    BY <1>18 DEF FullCheck, Check, InRole, Queue, Current, Dispatched
  <2>2. PICK broken \in SUBSET pending :
          LET good == {r \in pending \ broken : obs[r] = Plan} IN
            /\ verified' = [r \in Roles |-> IF r \in good THEN By ELSE verified[r]]
            /\ pending' = pending \ good
    BY <1>18 DEF FullCheck, Again
  <2>3. held' = held /\ (By = "first" => attempt = 1)
    BY <1>18 DEF FullCheck, game, By
  <2>4. ASSUME NEW r \in Roles, verified'[r] = "first"
        PROVE  held[r] = Plan /\ r \notin pending'
    <3>1. CASE r \in pending \ broken /\ obs[r] = Plan
      BY <2>1, <2>2, <2>3, <2>4, <3>1
    <3>2. CASE ~(r \in pending \ broken /\ obs[r] = Plan)
      BY <2>2, <2>4, <3>2 DEF Sound
    <3> QED
      BY <3>1, <3>2
  <2> QED
    BY <2>3, <2>4 DEF Sound
<1>19. CASE ScopedCheck
   BY <1>19, FirstIs DEF Sound, Queue, InRole, Busy, Types, RunTypes, JobTypes, GameTypes, Effect,
     ScopedCheck, Again, game
<1>20. CASE RetryFence
   BY <1>20, FirstIs DEF Sound, Queue, InRole, Busy, Types, RunTypes, JobTypes, GameTypes, Effect,
     RetryFence, game
<1>21. CASE Repair
   BY <1>21, FirstIs DEF Sound, Queue, InRole, Busy, Types, RunTypes, JobTypes, GameTypes, Effect,
     Repair, BeginRole
<1>22. CASE RepairDone
   BY <1>22, FirstIs DEF Sound, Queue, InRole, Busy, Types, RunTypes, JobTypes, GameTypes, Effect,
     RepairDone, game
<1>23. CASE RepairFailed
   BY <1>23, FirstIs DEF Sound, Queue, InRole, Busy, Types, RunTypes, JobTypes, GameTypes, Effect,
     RepairFailed, game, run
<1>24. CASE AllRepaired
   BY <1>24, FirstIs DEF Sound, Queue, InRole, Busy, Types, RunTypes, JobTypes, GameTypes, Effect,
     AllRepaired, Goto, game, run
<1>25. CASE Complete
   BY <1>25, FirstIs DEF Sound, Queue, InRole, Busy, Types, RunTypes, JobTypes, GameTypes, Effect,
     Complete, game, run
<1>26. CASE Crash
   BY <1>26, FirstIs DEF Sound, Queue, InRole, Busy, Types, RunTypes, JobTypes, GameTypes, Effect,
     Crash, game, run
<1>27. CASE Leave
   BY <1>27, FirstIs DEF Sound, Queue, InRole, Busy, Types, RunTypes, JobTypes, GameTypes, Effect,
     Leave, Raise, game, run
<1>28. CASE GiveUp
   BY <1>28, FirstIs DEF Sound, Queue, InRole, Busy, Types, RunTypes, JobTypes, GameTypes, Effect,
     GiveUp, game
<1>29. CASE Ask
   BY <1>29, FirstIs DEF Sound, Queue, InRole, Busy, Types, RunTypes, JobTypes, GameTypes, Effect,
     Ask, game, run
<1>30. CASE UNCHANGED vars
   BY <1>30, FirstIs DEF Sound, Queue, InRole, Busy, Types, RunTypes, JobTypes, GameTypes, Effect,
     vars, game, run
<1> QED
   BY <1>1, <1>2, <1>3, <1>4, <1>5, <1>6, <1>7, <1>8, <1>9, <1>10, <1>11, <1>12, <1>13, <1>14,
     <1>15, <1>16, <1>17, <1>18, <1>19, <1>20, <1>21, <1>22, <1>23, <1>24, <1>25, <1>26, <1>27,
     <1>28, <1>29, <1>30 DEF Shape

Fresh == Prompt /\ Queue /\ Current /\ Sound

LEMMA InitFresh == Init => Fresh
  BY DEF Init, Fresh, Prompt, Queue, Current, Dispatched, Sound

LEMMA NextFresh == MayLag = FALSE /\ Inv /\ Fresh /\ [Next]_vars => Fresh'
<1> SUFFICES ASSUME MayLag = FALSE, Inv, Fresh, [Next]_vars PROVE Fresh'
  OBVIOUS
<1>1. Shape \/ UNCHANGED vars
  BY NextShape DEF Inv, Types, FlagTypes
<1>2. Types /\ InRole /\ Listed
  BY DEF Inv
<1>3. Prompt' /\ Queue'
  BY <1>1, <1>2, PromptKeeps, QueueKeeps DEF Fresh
<1>4. Current' /\ Sound'
  BY <1>1, <1>2, CurrentKeeps, SoundKeeps DEF Fresh
<1> QED
  BY <1>3, <1>4 DEF Fresh

\* When no inventory that was collected before a batch is recorded within it, what the
\* first check confirms by a full inventory is what the game shows, and remains so.
THEOREM FirstCheckIsSound ==
  ASSUME MayLag = FALSE
  PROVE  Spec => []FirstCheckSound
<1>1. Inv /\ Fresh /\ [Next]_vars => Fresh'
  BY NextFresh
<1>2. Fresh => FirstCheckSound
  BY DEF Fresh, Sound, FirstCheckSound
<1> QED
  BY <1>1, <1>2, InitFresh, ApplyInvariant, PTL DEF Spec
=============================================================================
