-------------------------- MODULE InventoryPromise --------------------------
(***************************************************************************)
(* What the synchronisation promises about the inventory the application   *)
(* shows, without callbacks, guards, candidates, buffers and locks.  Only  *)
(* what the game had when it was read is shown: the worker saves the       *)
(* latest reading, and each one once at most; a job imports any reading;   *)
(* the state of a single item comes from a reading that is not older than  *)
(* the snapshot it is shown on, nor than what was observed of it before,   *)
(* or from a command.                                                      *)
(***************************************************************************)
EXTENDS Naturals, Sequences

CONSTANT Contents     \* the inventories: functions from items to their states

VARIABLES
  game,      \* the inventory the player has
  readings,  \* the inventories that were read, by their sequence numbers
  saved,     \* the snapshots; the last one is the current
  shown      \* the states of single items on top of it

Latest == CHOOSE n \in DOMAIN readings : \A m \in DOMAIN readings : m <= n
Current == saved[Len(saved)]

Init ==
  /\ game \in Contents /\ readings = [n \in {0} |-> game]
  /\ saved = <<[items |-> game, seq |-> 0, by |-> "worker"]>>
  /\ DOMAIN shown = {}

Change == game' \in Contents /\ UNCHANGED <<readings, saved, shown>>

Look ==
  /\ readings' = [n \in DOMAIN readings \cup {Latest + 1} |->
                    IF n = Latest + 1 THEN game ELSE readings[n]]
  /\ UNCHANGED <<game, saved, shown>>

Snapshot(n, who) ==
  /\ saved' = Append(saved, [items |-> readings[n], seq |-> n, by |-> who])
  /\ DOMAIN shown' = {} /\ UNCHANGED <<game, readings>>

Save ==
  /\ \A i \in 1..Len(saved) : saved[i].by = "worker" => saved[i].seq < Latest
  /\ Snapshot(Latest, "worker")

Import == \E n \in DOMAIN readings : Snapshot(n, "job")

\* Some items of a reading are shown as they were in it.
Observe(n, items) ==
  /\ items \subseteq DOMAIN readings[n] \cap DOMAIN Current.items
  /\ Current.seq <= n
  /\ \A i \in items \cap DOMAIN shown : shown[i].forced \/ shown[i].seq <= n
  /\ shown' = [i \in DOMAIN shown \cup items |->
                 IF i \in items THEN [state |-> readings[n][i], seq |-> n, forced |-> FALSE]
                 ELSE shown[i]]
  /\ UNCHANGED <<game, readings, saved>>

\* An item is shown as a command should have left it, until a reading says otherwise.
Command(i, n) ==
  /\ Current.seq <= n
  /\ shown' = [k \in DOMAIN shown \cup {i} |->
                 IF k = i THEN [state |-> TRUE, seq |-> n, forced |-> TRUE] ELSE shown[k]]
  /\ UNCHANGED <<game, readings, saved>>

Next ==
  \/ Change \/ Look \/ Save \/ Import
  \/ \E n \in DOMAIN readings, items \in SUBSET DOMAIN Current.items : Observe(n, items)
  \/ \E i \in DOMAIN Current.items, n \in {Latest, Latest + 1} : Command(i, n)

Spec == Init /\ [][Next]_<<game, readings, saved, shown>>
=============================================================================
