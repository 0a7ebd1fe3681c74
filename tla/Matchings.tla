------------------------------ MODULE Matchings ------------------------------
(***************************************************************************)
(* What _maximum_matching of optimizer/deferred_drive_reservations.py is   *)
(* for: drives for slots, none of them twice.  wanted gives for each slot  *)
(* the drives it may get.  DriveMatching is the search itself and finds a  *)
(* largest matching; DriveReservation relies on no more than that.         *)
(***************************************************************************)
EXTENDS FiniteSetsExt

\* The ways to serve all of some slots.
MatchingsOf(slots, wanted) ==
  {m \in Injection(slots, UNION Range(wanted)) : \A s \in slots : m[s] \in wanted[s]}

Servable(wanted) == {slots \in SUBSET DOMAIN wanted : MatchingsOf(slots, wanted) # {}}

LargestSize(wanted) == Max({Cardinality(slots) : slots \in Servable(wanted)})

LargestMatchings(wanted) ==
  UNION {MatchingsOf(slots, wanted) :
         slots \in {some \in Servable(wanted) : Cardinality(some) = LargestSize(wanted)}}
=============================================================================
