---------------------------- MODULE DriveMatching ----------------------------
(***************************************************************************)
(* _maximum_matching of optimizer/deferred_drive_reservations.py, one      *)
(* candidate per step: for each slot in turn assign looks for a drive, and *)
(* asks the slot that has a drive to take another one.  The calls of       *)
(* assign that are under way are the slot and the owners of dmPath.        *)
(*                                                                         *)
(* Slots and drives are numbered in the order in which they are tried.     *)
(***************************************************************************)
EXTENDS Matchings, Sequences

CONSTANTS
  NSlots,   \* how many slots are deferred
  NUids     \* how many drives there are

ASSUME MatchingAssumption == NSlots \in Nat /\ NUids \in Nat

VARIABLES
  dmWanted,   \* candidate_uids of each slot, those that are available
  dmOf,       \* assigned_uid_to_slot
  dmSlot,     \* the slot that assign is called for
  dmSeen,     \* visited
  dmPath      \* uid of each call of assign that waits for the next one

searchVars == <<dmWanted, dmOf, dmSlot, dmSeen, dmPath>>

MatchingInit ==
  /\ dmWanted \in [1..NSlots -> SUBSET (1..NUids)] /\ dmOf = <<>> /\ dmSlot = 1
  /\ dmSeen = {} /\ dmPath = <<>>

\* The slot of a call: the first one is for the slot itself, the next one for the slot
\* that has the drive in question.
Caller(path, i) == IF i = 1 THEN dmSlot ELSE dmOf[path[i - 1]]
Asking == Caller(dmPath, Len(dmPath) + 1)

Untried == dmWanted[Asking] \ dmSeen

\* A slot was served or not: the next one, with a fresh visited.
NextSlot == dmSlot' = dmSlot + 1 /\ dmSeen' = {} /\ dmPath' = <<>> /\ UNCHANGED dmWanted

\* Every call returns True: each drive on the way goes to the slot that asked for it.
HandedOver(path) ==
  [d \in DOMAIN dmOf \cup Range(path) |->
     IF d \in Range(path) THEN Caller(path, CHOOSE i \in DOMAIN path : path[i] = d) ELSE dmOf[d]]

TakeFree ==          \* incumbent_key is None
  /\ dmSlot <= NSlots /\ Untried # {} /\ Min(Untried) \notin DOMAIN dmOf
  /\ dmOf' = HandedOver(Append(dmPath, Min(Untried))) /\ NextSlot

AskOwner_Greedy ==
  /\ dmSlot <= NSlots /\ Untried # {} /\ Min(Untried) \in DOMAIN dmOf
  /\ dmSeen' = dmSeen \cup {Min(Untried)} /\ UNCHANGED <<dmWanted, dmOf, dmSlot, dmPath>>

AskOwner ==          \* assign(by_key[incumbent_key], visited)
  /\ dmSlot <= NSlots /\ Untried # {} /\ Min(Untried) \in DOMAIN dmOf
  /\ dmSeen' = dmSeen \cup {Min(Untried)} /\ dmPath' = Append(dmPath, Min(Untried))
  /\ UNCHANGED <<dmWanted, dmOf, dmSlot>>

FindsNone ==         \* return False, to the call before it
  /\ dmSlot <= NSlots /\ Untried = {} /\ dmPath # <<>>
  /\ dmPath' = SubSeq(dmPath, 1, Len(dmPath) - 1)
  /\ UNCHANGED <<dmWanted, dmOf, dmSlot, dmSeen>>

LeaveEmpty ==        \* return False, to the loop over the slots
  /\ dmSlot <= NSlots /\ Untried = {} /\ dmPath = <<>> /\ NextSlot /\ UNCHANGED dmOf

MatchingNext == TakeFree \/ AskOwner \/ FindsNone \/ LeaveEmpty

MatchingSpec == MatchingInit /\ [][MatchingNext]_searchVars

\* The drive of each slot that got one.
Matched == [s \in Range(dmOf) |-> CHOOSE d \in DOMAIN dmOf : dmOf[d] = s]

-----------------------------------------------------------------------------
(* Properties *)

\* The search finds a largest matching: a slot that stays without a drive cannot be served
\* by any other distribution unless another slot loses its drive.
MatchingIsMaximum == dmSlot > NSlots => Matched \in LargestMatchings(dmWanted)
=============================================================================
