--------------------------- MODULE GameObservation ---------------------------
(***************************************************************************)
(* The observer thread (services/game_observation_service.py): it ticks    *)
(* every interval, runs the checks and teardowns submitted meanwhile, and  *)
(* runs the finalizer when it is closed.  _run is split at its lock blocks *)
(* and at the tests of _stop; other threads submit and close in between.   *)
(***************************************************************************)
EXTENDS Integers, Sequences

CONSTANTS
  JobKeys,          \* keys of submitted jobs; "" is a job without a key
  MaxJobs           \* bound: jobs submitted

ASSUME ObservationAssumption == MaxJobs \in Nat

VARIABLES
  goStop, goWake, goDone,   \* the events _stop, _wake, _finished
  goJobs,           \* _jobs
  goAt,             \* the thread: none, check (_stop), take, run, publish, wait, final, end
  goFinal,          \* _finalize: none, given, ran
  goCount           \* jobs accepted so far

goVars == <<goStop, goWake, goDone, goJobs, goAt, goFinal, goCount>>

ObservationInit ==
  /\ goStop = FALSE /\ goWake = FALSE /\ goDone = FALSE /\ goJobs = <<>>
  /\ goAt = "none" /\ goFinal = "none" /\ goCount = 0

-----------------------------------------------------------------------------

StartObserver ==     \* start
  /\ ~goStop /\ goAt = "none" /\ goAt' = "check"
  /\ UNCHANGED <<goStop, goWake, goDone, goJobs, goFinal, goCount>>

StartedObserver == IF goAt = "none" THEN "check" ELSE goAt

SubmitJob(key) ==    \* submit: a queued job of the same key is replaced
  /\ ~goStop /\ goCount < MaxJobs /\ goCount' = goCount + 1
  /\ goJobs' = Append(SelectSeq(goJobs, LAMBDA j : key = "" \/ j.key # key),
                      [id |-> goCount', key |-> key])
  /\ goAt' = StartedObserver /\ goWake' = TRUE
  /\ UNCHANGED <<goStop, goDone, goFinal>>

CloseObserver(finalizer) ==   \* close; without a thread one is started for the finalizer
  /\ ~goStop /\ goStop' = TRUE /\ goFinal' = finalizer
  /\ goJobs' = <<>> /\ goWake' = TRUE /\ UNCHANGED goCount
  /\ \/ (goAt # "none" \/ finalizer = "given") /\ goAt' = StartedObserver /\ UNCHANGED goDone
     \/ goAt = "none" /\ finalizer = "none" /\ goDone' = TRUE /\ UNCHANGED goAt

CheckStop ==
  /\ goAt = "check" /\ goAt' = IF goStop THEN "final" ELSE "take"
  /\ UNCHANGED <<goStop, goWake, goDone, goJobs, goFinal, goCount>>

TakeJob ==           \* a job, or the tick when none is queued
  /\ goAt = "take" /\ goAt' = "run" /\ goWake' = FALSE
  /\ goJobs' = IF goJobs = <<>> THEN <<>> ELSE Tail(goJobs)
  /\ UNCHANGED <<goStop, goDone, goFinal, goCount>>

JobEnds ==           \* it returned or raised
  /\ goAt = "run" /\ goAt' = "publish"
  /\ UNCHANGED <<goStop, goWake, goDone, goJobs, goFinal, goCount>>

PublishResult_Forgets ==
  /\ goAt = "publish" /\ goAt' = "wait" /\ goWake' = FALSE
  /\ UNCHANGED <<goStop, goDone, goJobs, goFinal, goCount>>

PublishResult ==
  /\ goAt = "publish" /\ goAt' = IF goJobs # <<>> THEN "check" ELSE "wait"
  /\ UNCHANGED <<goStop, goWake, goDone, goJobs, goFinal, goCount>>

Woken ==
  /\ goAt = "wait" /\ goWake /\ goAt' = "check"
  /\ UNCHANGED <<goStop, goWake, goDone, goJobs, goFinal, goCount>>

IntervalEnds ==
  /\ goAt = "wait" /\ goAt' = "check"
  /\ UNCHANGED <<goStop, goWake, goDone, goJobs, goFinal, goCount>>

Finalize ==          \* it may raise: _finished is set all the same
  /\ goAt = "final" /\ goAt' = "end" /\ goDone' = TRUE
  /\ goFinal' = IF goFinal = "given" THEN "ran" ELSE goFinal
  /\ UNCHANGED <<goStop, goWake, goJobs, goCount>>

-----------------------------------------------------------------------------

ObserverRun == CheckStop \/ TakeJob \/ JobEnds \/ PublishResult \/ Woken \/ Finalize

ObservationNext ==
  \/ StartObserver \/ \E key \in JobKeys : SubmitJob(key)
  \/ \E finalizer \in {"none", "given"} : CloseObserver(finalizer)
  \/ ObserverRun \/ IntervalEnds

ObservationSpec == ObservationInit /\ [][ObservationNext]_goVars

-----------------------------------------------------------------------------
(* Properties *)

Observer == {"none", "check", "take", "run", "publish", "wait", "final", "end"}

\* Types of the state.
ObservationTypeOK ==
  /\ goStop \in BOOLEAN /\ goWake \in BOOLEAN /\ goDone \in BOOLEAN
  /\ goAt \in Observer /\ goFinal \in {"none", "given", "ran"}
  /\ goJobs \in Seq([id : Nat, key : JobKeys]) /\ goCount \in Nat

\* No wake-up is lost: a thread that waits while a job is queued has been woken, and a
\* job never lies in the queue without a thread.
JobIsWoken ==
  /\ goAt = "wait" /\ goJobs # <<>> => goWake
  /\ goAt \in {"none", "final", "end"} => goJobs = <<>>

\* wait_closed() returns only when the teardown given to close() has run, and no job
\* can follow it.
FinishedMeansTornDown ==
  goDone => goStop /\ goJobs = <<>> /\ goFinal # "given" /\ goAt \in {"none", "end"}

\* Jobs are taken in the order they were submitted, at most one per key is queued.
JobsInOrder ==
  \A i, j \in DOMAIN goJobs : i < j =>
    goJobs[i].id < goJobs[j].id /\ (goJobs[i].key # "" => goJobs[i].key # goJobs[j].key)

\* A job that was accepted leaves the queue, be it taken, replaced or cleared, without
\* the help of the interval.
JobsLeave ==
  \A id \in 1..MaxJobs :
    (\E i \in DOMAIN goJobs : goJobs[i].id = id) ~> (\A i \in DOMAIN goJobs : goJobs[i].id # id)

\* What close() says: it stops scheduling immediately.
StopsAtOnce == [][TakeJob => ~goStop]_goVars
=============================================================================
