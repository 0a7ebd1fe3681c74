---------------------------- MODULE CoreOwnership ----------------------------
(***************************************************************************)
(* What the session promises to the rest of the application about the Core *)
(* subprocess, without locks, threads, tokens or leases: there is one Core *)
(* at most, it has one exclusive user at a time, nobody but a crash takes  *)
(* it from a battle capture, and it does not run while the plugin files    *)
(* are replaced.                                                           *)
(***************************************************************************)
CONSTANTS Cores, None

VARIABLES core,  \* the Core that runs, or None
          lost,  \* the Cores that died by themselves
          user   \* "nobody", "refresh", "battle" or "update"

Users == {"refresh", "battle", "update"}

Init == core = None /\ lost = {} /\ user = "nobody"

(* a connection replaced under a refresh leaves that refresh to fail *)
Start(c) ==
  /\ core = None /\ user \in {"nobody", "refresh"}
  /\ core' = c
  /\ UNCHANGED <<lost, user>>

Stop ==
  /\ core # None /\ user # "battle"
  /\ core' = None
  /\ UNCHANGED <<lost, user>>

Crash ==
  /\ core # None
  /\ core' = None /\ lost' = lost \cup {core}
  /\ UNCHANGED user

Take(u) ==
  /\ user = "nobody"
  /\ u = "update" => core = None
  /\ user' = u
  /\ UNCHANGED <<core, lost>>

Drop ==
  /\ user # "nobody"
  /\ user' = "nobody"
  /\ UNCHANGED <<core, lost>>

Next ==
  \/ \E c \in Cores : Start(c)
  \/ Stop \/ Crash
  \/ \E u \in Users : Take(u)
  \/ Drop

Spec == Init /\ [][Next]_<<core, lost, user>>
=============================================================================
