--------------------------- MODULE DriveReservation ---------------------------
(***************************************************************************)
(* The allocation of drives to priority groups (execute_role_priority of   *)
(* optimizer/role_priority_execution.py) with its deferred reservations    *)
(* (optimizer/deferred_drive_reservations.py).  A group that has its plans *)
(* reserves for each slot every drive that would do as well; a later group *)
(* may use such a drive if all earlier slots can still be filled.  At the  *)
(* end a matching says which slot gets which drive.  Here any largest      *)
(* matching does; how it is found is in DriveMatching.                     *)
(*                                                                         *)
(* Drives are numbered in the order of their UIDs and have one shape:      *)
(* slots and drives of different shapes never compete.  Which plan is best *)
(* and which drives are equivalent is computed from scores, here any plan  *)
(* and any drives.  A slot is <<group, role, index>>.                      *)
(***************************************************************************)
EXTENDS Matchings, Sequences

CONSTANTS
  NDrives,    \* how many drives there are
  NScreened,  \* how many of them the first screening selects
  Demands     \* the groups to serve: for each group the number of slots of each of its roles

ASSUME DemandsAssumption ==
  NDrives \in Nat /\ NScreened \in 0..NDrives /\ \A demand \in Demands : demand \in Seq(Seq(Nat))

VARIABLES
  drDemand,     \* the groups to serve
  drAt,         \* "plan", "check", "protect", "again", "rescue", "settle", "finish",
                \* "end", or "raised"
  drGroup,      \* group_index
  drPool,       \* drives_pool
  drOccupied,   \* occupied_drive_uids
  drReserved,   \* _slots: the deferred slots with their candidate_uids
  drConsumed,   \* _consumed_uids
  drProtected,  \* protected_uids of the group
  drTry,        \* the plans of the group: the drive of each slot of the valid roles
  drPlans,      \* final_allocation
  drRefused     \* the last group was refused at the boundary

drVars == <<drDemand, drAt, drGroup, drPool, drOccupied, drReserved, drConsumed, drProtected, drTry,
            drPlans, drRefused>>
keptVars == <<drDemand, drGroup, drPool, drOccupied, drReserved, drConsumed, drPlans>>

AllDrives == 1..NDrives
GroupRoles == DOMAIN drDemand[drGroup]
SlotsOf(roles) == UNION {{<<drGroup, r, i>> : i \in 1..drDemand[drGroup][r]} : r \in roles}

Empty == <<>>     \* the function without arguments

\* dict.update: the entries of new, and those of old for other keys.
Updated(old, new) ==
  [x \in DOMAIN old \cup DOMAIN new |-> IF x \in DOMAIN new THEN new[x] ELSE old[x]]

ReservationInit ==
  /\ drDemand \in Demands /\ drAt = "plan" /\ drGroup = 1 /\ drPool = 1..NScreened
  /\ drOccupied = {} /\ drReserved = Empty /\ drConsumed = {} /\ drProtected = {}
  /\ drTry = Empty /\ drPlans = Empty /\ drRefused = FALSE

-----------------------------------------------------------------------------
(* The reservations *)

ReservationUids == UNION Range(drReserved)
Left_All(used) == ReservationUids \ used
Left(used) == ReservationUids \ (drConsumed \cup used)

\* The drives each deferred slot may get, and how many slots _maximum_matching serves.
Offered(drives) == [s \in DOMAIN drReserved |-> drReserved[s] \cap drives]
MatchingSize(used) == LargestSize(Offered(Left(used)))

CanConsume(used) ==
  used \cap drConsumed = {} /\ MatchingSize(used) = Cardinality(DOMAIN drReserved)

\* effective_blocker_uids; matching_size_after_consuming is -1 for what is consumed
Blockers(used) ==
  LET fresh == used \ drConsumed IN
  {d \in fresh \cap ReservationUids : MatchingSize(fresh \ {d}) > MatchingSize(fresh)}

\* register: a drive that nobody else may have, or whose slot is left with one candidate, is
\* fixed, and its peers lose it: the least set of drives of which that is true.
Settles(tried, candidates, consumed, fixed) ==
  \A s \in DOMAIN tried :
    tried[s] \in consumed \/ Cardinality(candidates[s] \ (fixed \cup consumed)) < 2
      => tried[s] \in fixed

Fixed(tried, candidates, consumed) ==
  {d \in Range(tried) :
     \A fixed \in SUBSET Range(tried) :
       Settles(tried, candidates, consumed, fixed) => d \in fixed}

-----------------------------------------------------------------------------
(* A group *)

\* Plans for some roles, no drive used twice.
PlansFrom(roles, drives) ==
  {f \in [SlotsOf(roles) -> drives] : \A s, t \in SlotsOf(roles) : f[s] = f[t] => s = t}

FullPlan == DOMAIN drTry = SlotsOf(GroupRoles)
Used == Range(drTry)

\* _normal_group_allocation and _best_single_role_plan.  A role alone gets a plan or none; a
\* group of several that cannot be served from the pool is completed from all drives that
\* are not occupied, for some of its roles.
NormalPlans(pool) ==
  IF Cardinality(GroupRoles) = 1 THEN PlansFrom(GroupRoles, pool) \cup {Empty}
  ELSE PlansFrom(GroupRoles, pool)
       \cup UNION {PlansFrom(roles, AllDrives \ drOccupied) : roles \in SUBSET GroupRoles}

PlanGroup ==
  /\ drAt = "plan" /\ drAt' = "check" /\ drTry' \in NormalPlans(drPool)
  /\ drProtected' = {} /\ drRefused' = FALSE /\ UNCHANGED keptVars

TakePlan ==
  /\ drAt \in {"check", "again"} /\ FullPlan /\ CanConsume(Used) /\ drAt' = "settle"
  /\ UNCHANGED <<drProtected, drTry, drRefused, keptVars>>

KeepFailure ==       \* the ordinary result is kept when a role of it failed
  /\ drAt = "check" /\ ~FullPlan /\ drAt' = "settle"
  /\ UNCHANGED <<drProtected, drTry, drRefused, keptVars>>

Protect ==           \* the blocker with the lowest score
  /\ drAt \in {"check", "again"} /\ FullPlan /\ ~CanConsume(Used)
  /\ \E d \in Blockers(Used) \ drProtected : drProtected' = drProtected \cup {d}
  /\ drAt' = "protect" /\ UNCHANGED <<drTry, drRefused, keptVars>>

PlanAgain ==         \* _rescreen_protected_drive_types
  /\ drAt = "protect" /\ drAt' = "again"
  /\ drTry' \in NormalPlans(AllDrives \ (drOccupied \cup drConsumed \cup drProtected))
  /\ UNCHANGED <<drProtected, drRefused, keptVars>>

GiveUpProtecting ==
  /\ \/ drAt = "again" /\ ~FullPlan
     \/ drAt \in {"check", "again"} /\ FullPlan /\ ~CanConsume(Used)
        /\ Blockers(Used) \subseteq drProtected
  /\ drAt' = "rescue" /\ UNCHANGED <<drProtected, drTry, drRefused, keptVars>>

Rescue ==            \* _final_group_rescue, _final_single_rescue
  /\ drAt = "rescue" /\ drAt' = "settle"
  /\ \/ drTry' \in PlansFrom(GroupRoles, AllDrives \ (drOccupied \cup drConsumed))
        /\ CanConsume(Range(drTry'))
     \/ drTry' = Empty
  /\ UNCHANGED <<drProtected, drRefused, keptVars>>

\* Drives that would do as well in a slot: _deferred_equivalent_drives leaves out the other
\* drives of the same role and those that are occupied.
Replacements(tried) ==
  {r \in (DOMAIN tried) \X (AllDrives \ drOccupied) :
     \A t \in DOMAIN tried : t[2] = r[1][2] => tried[t] # r[2]}

\* commit, register and _updated_drives_pool; tried are the plans that passed the boundary.
Register(tried, candidates) ==
  LET consumed == drConsumed \cup (Range(tried) \cap ReservationUids)
      fixed    == Fixed(tried, candidates, consumed)
      pending  == {s \in DOMAIN tried : tried[s] \notin fixed}
      rest     == [s \in pending |-> candidates[s] \ (fixed \cup consumed)]
  IN /\ drConsumed' = consumed
     /\ drReserved' = Updated(drReserved, rest)
     /\ drOccupied' = drOccupied \cup fixed
     /\ drPool' = (drPool \cup UNION Range(rest)) \ (fixed \cup consumed)

SettleGroup ==       \* commit looks at what is consumed again, and may raise
  LET tried == IF CanConsume(Used) THEN drTry ELSE Empty
  IN /\ drAt = "settle" /\ drRefused' = ~CanConsume(Used)
     /\ drPlans' = Updated(drPlans, tried)
     /\ \E equivalent \in SUBSET Replacements(tried) :
          Register(tried, [s \in DOMAIN tried |->
                             {tried[s]} \cup {d \in AllDrives : <<s, d>> \in equivalent}])
     /\ drAt' = (IF ~CanConsume(Range(tried) \cap ReservationUids) THEN "raised"
                 ELSE IF drGroup = Len(drDemand) THEN "finish" ELSE "plan")
     /\ drGroup' = (IF drGroup = Len(drDemand) THEN drGroup ELSE drGroup + 1)
     /\ drTry' = Empty /\ drProtected' = {} /\ UNCHANGED drDemand

Finish ==            \* _finalize_deferred_slots: it raises when a slot stays empty
  /\ drAt = "finish"
  /\ \E drive \in LargestMatchings(Offered(Left({}))) :
       /\ drAt' = (IF DOMAIN drive = DOMAIN drReserved THEN "end" ELSE "raised")
       /\ drPlans' = Updated(drPlans, drive)
  /\ UNCHANGED <<drDemand, drGroup, drPool, drOccupied, drReserved, drConsumed, drProtected,
                 drTry, drRefused>>

ReservationNext ==
  \/ PlanGroup \/ TakePlan \/ KeepFailure \/ Protect \/ PlanAgain \/ GiveUpProtecting
  \/ Rescue \/ SettleGroup \/ Finish

ReservationSpec == ReservationInit /\ [][ReservationNext]_drVars

-----------------------------------------------------------------------------
(* Properties *)

\* Types of the state.
ReservationTypeOK ==
  /\ drAt \in {"plan", "check", "protect", "again", "rescue", "settle", "finish", "end", "raised"}
  /\ drGroup \in Nat \ {0} /\ drRefused \in BOOLEAN
  /\ {drPool, drOccupied, drConsumed, drProtected} \subseteq SUBSET AllDrives
  /\ drReserved \in [DOMAIN drReserved -> SUBSET AllDrives]
  /\ drTry \in [DOMAIN drTry -> AllDrives] /\ drPlans \in [DOMAIN drPlans -> AllDrives]

\* No drive is in two plans once the reservations are filled, whoever used what somebody
\* else had reserved, and they can always be filled.
PlansDisjoint ==
  /\ drAt # "raised"
  /\ drAt = "end" =>
       \A s, t \in DOMAIN drPlans : drPlans[s] = drPlans[t] => s = t

\* A plan made without the protected drives that does not leave enough has a drive to
\* protect next: the progressive protection never gives up for want of a blocker.
BlockerFound ==
  drAt = "again" /\ FullPlan /\ Used \cap drProtected = {} =>
    CanConsume(Used) \/ Blockers(Used) \ drProtected # {}

\* "A recovery routine must never hand a conflicting fallback to the commit path."  Not so:
\* the plans of a group in which a role failed are handed on without a look at the
\* reservations, and the plans of its other roles are lost.
RecoveryIsConsistent == ~drRefused
=============================================================================
