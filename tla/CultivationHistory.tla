-------------------------- MODULE CultivationHistory --------------------------
(***************************************************************************)
(* The cultivation records and the drafts bound to them                    *)
(* (services/cultivation_history_service.py over                           *)
(* storage/sqlite/cultivation_history_dao.py).  save() and delete() run on *)
(* background threads under _operations, one at a time, and are split      *)
(* where they take _state_lock or call check(): the user interface freezes,*)
(* edits, discards and closes in between, and another service on the same  *)
(* database may change its rows.                                           *)
(***************************************************************************)
EXTENDS Integers, FiniteSets

CONSTANTS
  Drafts,           \* sessions opened, each with one binding
  MaxEnvelopes,     \* bound: calculations frozen
  MaxIds,           \* bound: record ids given out
  MaxForeign        \* bound: changes made by another service

ASSUME CultivationAssumption ==
  MaxEnvelopes \in Nat /\ MaxIds \in Nat /\ MaxForeign \in Nat

VARIABLES
  chBound,          \* _bindings: id (0: None), rev (0: None), req, epoch, sup
  chOpen,           \* the drafts with a binding
  chEnv,            \* the envelopes frozen: draft, req, epoch
  chRows,           \* cultivation_history: revision by id, 0: no row
  chWhat,           \* the content of each row, by the envelope that wrote it (0: another's)
  chIds,            \* ids given out
  chTask,           \* the operation under _operations
  chEnded,          \* how it ended: "", saved, expired, conflict, failed, deleted
  chLost,           \* history: drafts whose record was deleted and that have not been
                    \* calculated explicitly since
  chForeign         \* changes made by another service; history: the ids it touched

bindingVars == <<chBound, chOpen, chEnv, chIds>>
rowVars == <<chRows, chWhat>>
chVars == <<bindingVars, rowVars, chTask, chEnded, chLost, chForeign>>

Ids == 1..MaxIds
Envelopes == 1..MaxEnvelopes
Unbound == [id |-> 0, rev |-> 0, req |-> 0, epoch |-> 0, sup |-> FALSE]
NoTask == [at |-> "none"]

CultivationInit ==
  /\ chBound = [d \in Drafts |-> Unbound] /\ chOpen = Drafts /\ chIds = 0
  /\ chEnv = <<>>
  /\ chRows = [i \in Ids |-> 0] /\ chWhat = [i \in Ids |-> 0]
  /\ chTask = NoTask /\ chEnded = ""
  /\ chLost = {} /\ chForeign = {}

Frozen == DOMAIN chEnv

-----------------------------------------------------------------------------
(* The user interface, under _state_lock only *)

Reopens(d, explicit) == chBound[d].sup /\ explicit

Freeze(d, explicit) ==   \* only an explicit calculation reopens a deleted binding
  LET b == chBound[d]
      n == [b EXCEPT !.id = IF Reopens(d, explicit) THEN 0 ELSE b.id,
                     !.rev = IF Reopens(d, explicit) THEN 0 ELSE b.rev,
                     !.epoch = IF Reopens(d, explicit) THEN b.epoch + 1 ELSE b.epoch,
                     !.sup = b.sup /\ ~explicit,
                     !.req = b.req + 1]
      e == 1 + (IF Frozen = {} THEN 0 ELSE CHOOSE i \in Frozen : \A j \in Frozen : j <= i)
  IN /\ d \in chOpen /\ e \in Envelopes
     /\ chBound' = [chBound EXCEPT ![d] = n]
     /\ chEnv' = [i \in Frozen \cup {e} |->
                    IF i = e THEN [draft |-> d, req |-> n.req, epoch |-> n.epoch] ELSE chEnv[i]]
     /\ chLost' = IF explicit THEN chLost \ {d} ELSE chLost
     /\ UNCHANGED <<chOpen, chIds, rowVars, chTask, chEnded, chForeign>>

Invalidate(d) ==     \* the draft was edited; bounded by the envelopes it outdates
  /\ d \in chOpen /\ \E e \in Frozen : chEnv[e].draft = d /\ chEnv[e].req = chBound[d].req
  /\ chBound' = [chBound EXCEPT ![d].req = @ + 1]
  /\ UNCHANGED <<chOpen, chEnv, chIds, rowVars, chTask, chEnded, chLost, chForeign>>

Discard(d) ==        \* discard_session, and close() for all of them
  /\ d \in chOpen /\ chOpen' \in {chOpen \ {d}, {}}
  /\ UNCHANGED <<chBound, chEnv, chIds, rowVars, chTask, chEnded, chLost, chForeign>>

Current(e) ==        \* _check_envelope
  LET d == chEnv[e].draft
  IN d \in chOpen /\ ~chBound[d].sup
       /\ chBound[d].req = chEnv[e].req /\ chBound[d].epoch = chEnv[e].epoch

-----------------------------------------------------------------------------
(* save, on a background thread *)

BeginSave(e) ==      \* the first check; the same envelope may be saved again
  /\ chTask.at = "none" /\ e \in Frozen
  /\ IF Current(e)
       THEN chTask' = [at |-> "bind", env |-> e] /\ chEnded' = ""
       ELSE chTask' = NoTask /\ chEnded' = "expired"
  /\ UNCHANGED <<bindingVars, rowVars, chLost, chForeign>>

Saver == chEnv[chTask.env].draft

Bind ==              \* the binding is looked up again: it may be gone (KeyError)
  /\ chTask.at = "bind"
  /\ IF Saver \notin chOpen
       THEN chTask' = NoTask /\ chEnded' = "failed" /\ UNCHANGED <<chBound, chIds>>
       ELSE LET b == chBound[Saver]
                i == IF b.id = 0 THEN chIds + 1 ELSE b.id
            IN /\ i \in Ids /\ chIds' = IF b.id = 0 THEN i ELSE chIds
               /\ chBound' = [chBound EXCEPT ![Saver].id = i]
               /\ chTask' = [at |-> "write", env |-> chTask.env, id |-> i, rev |-> b.rev]
               /\ UNCHANGED chEnded
  /\ UNCHANGED <<chOpen, chEnv, rowVars, chLost, chForeign>>

Conflicts == (chTask.rev = 0 /\ chRows[chTask.id] # 0)
             \/ (chTask.rev # 0 /\ chRows[chTask.id] # chTask.rev)

\* BEGIN IMMEDIATE, the check and the comparison of the revisions: from here no other
\* writer gets in.
Write ==
  /\ chTask.at = "write"
  /\ \/ ~Current(chTask.env) /\ chTask' = NoTask /\ chEnded' = "expired"
     \/ Current(chTask.env) /\ Conflicts /\ chTask' = [chTask EXCEPT !.at = "conflict"]
          /\ UNCHANGED chEnded
     \/ Current(chTask.env) /\ ~Conflicts /\ chTask' = [chTask EXCEPT !.at = "written"]
          /\ UNCHANGED chEnded
     \/ chTask' = NoTask /\ chEnded' = "failed"
  /\ UNCHANGED <<bindingVars, rowVars, chLost, chForeign>>

CheckWritten ==      \* the check before the commit
  /\ chTask.at = "written"
  /\ IF Current(chTask.env)
       THEN chTask' = [chTask EXCEPT !.at = "commit"] /\ UNCHANGED chEnded
       ELSE chTask' = NoTask /\ chEnded' = "expired"
  /\ UNCHANGED <<bindingVars, rowVars, chLost, chForeign>>

SameContent == chTask.rev # 0 /\ chWhat[chTask.id] = chTask.env

CommitSave ==        \* the same content does not raise the revision
  /\ chTask.at = "commit"
  /\ \/ /\ chRows' = [chRows EXCEPT ![chTask.id] = IF SameContent THEN @ ELSE @ + 1]
        /\ chWhat' = [chWhat EXCEPT ![chTask.id] = chTask.env]
        /\ chTask' = [chTask EXCEPT !.at = "remember", !.rev = chRows'[chTask.id]]
        /\ UNCHANGED chEnded
     \/ chTask' = NoTask /\ chEnded' = "failed" /\ UNCHANGED rowVars
  /\ UNCHANGED <<bindingVars, chLost, chForeign>>

StillBound == Saver \in chOpen /\ chBound[Saver].id = chTask.id

Remember ==          \* the revision that was saved
  /\ chTask.at = "remember" /\ chTask' = NoTask /\ chEnded' = "saved"
  /\ chBound' = IF StillBound THEN [chBound EXCEPT ![Saver].rev = chTask.rev] ELSE chBound
  /\ UNCHANGED <<chOpen, chEnv, chIds, rowVars, chLost, chForeign>>

SuppressSaver ==     \* HistoryConflict
  /\ chTask.at = "conflict" /\ chTask' = NoTask /\ chEnded' = "conflict"
  /\ chBound' = IF StillBound
                  THEN [chBound EXCEPT ![Saver].sup = TRUE, ![Saver].epoch = @ + 1]
                  ELSE chBound
  /\ UNCHANGED <<chOpen, chEnv, chIds, rowVars, chLost, chForeign>>

-----------------------------------------------------------------------------
(* delete, on a background thread *)

BeginDelete(i) ==    \* a record as the list showed it: the revision may be outdated
  /\ chTask.at = "none" /\ chOpen # {} /\ chRows[i] # 0
  /\ \E rev \in 1..chRows[i] : chTask' = [at |-> "delete", id |-> i, rev |-> rev]
  /\ chEnded' = ""
  /\ UNCHANGED <<bindingVars, rowVars, chLost, chForeign>>

CommitDelete ==      \* one transaction; a record deleted meanwhile is not an error
  /\ chTask.at = "delete"
  /\ \/ /\ chRows[chTask.id] \in {0, chTask.rev} /\ chOpen # {}
        /\ chRows' = [chRows EXCEPT ![chTask.id] = 0]
        /\ chTask' = [chTask EXCEPT !.at = "unbind"] /\ UNCHANGED chEnded
        /\ chLost' = chLost \cup {d \in Drafts : chBound[d].id = chTask.id}
     \/ /\ chTask' = NoTask /\ chEnded' = "failed" /\ UNCHANGED <<chRows, chLost>>
  /\ UNCHANGED <<bindingVars, chWhat, chForeign>>

UnbindDeleted_Keeps ==
  /\ chTask.at = "unbind" /\ chTask' = NoTask /\ chEnded' = "deleted"
  /\ chBound' = [d \in Drafts |->
       IF chBound[d].id = chTask.id THEN [chBound[d] EXCEPT !.id = 0, !.rev = 0] ELSE chBound[d]]
  /\ UNCHANGED <<chOpen, chEnv, chIds, rowVars, chLost, chForeign>>

UnbindDeleted ==
  /\ chTask.at = "unbind" /\ chTask' = NoTask /\ chEnded' = "deleted"
  /\ chBound' = [d \in Drafts |->
       IF d \in chOpen /\ chBound[d].id = chTask.id
         THEN [chBound[d] EXCEPT !.sup = TRUE, !.epoch = @ + 1, !.req = @ + 1]
         ELSE chBound[d]]
  /\ UNCHANGED <<chOpen, chEnv, chIds, rowVars, chLost, chForeign>>

-----------------------------------------------------------------------------

\* Another service on the same database saves or deletes a record; it cannot write
\* between BEGIN IMMEDIATE and the commit.
OtherWriter(i) ==
  /\ chRows[i] # 0 /\ chTask.at \notin {"written", "commit"}
  /\ Cardinality(chForeign) < MaxForeign /\ chForeign' = chForeign \cup {i}
  /\ i \notin chForeign
  /\ \E rev \in {0, chRows[i] + 1} :
       chRows' = [chRows EXCEPT ![i] = rev]
  /\ chWhat' = [chWhat EXCEPT ![i] = 0]
  /\ chLost' = IF chRows'[i] = 0 THEN chLost \cup {d \in Drafts : chBound[d].id = i} ELSE chLost
  /\ UNCHANGED <<bindingVars, chTask, chEnded>>

HistoryRun == Bind \/ Write \/ CheckWritten \/ CommitSave \/ Remember \/ SuppressSaver
              \/ CommitDelete \/ UnbindDeleted

CultivationNext ==
  \/ \E d \in Drafts : (\E explicit \in BOOLEAN : Freeze(d, explicit)) \/ Invalidate(d) \/ Discard(d)
  \/ \E e \in Envelopes : BeginSave(e)
  \/ \E i \in Ids : BeginDelete(i) \/ OtherWriter(i)
  \/ HistoryRun

CultivationSpec == CultivationInit /\ [][CultivationNext]_chVars

-----------------------------------------------------------------------------
(* Properties *)

\* Types of the state.
CultivationTypeOK ==
  /\ chOpen \subseteq Drafts /\ chIds \in 0..MaxIds /\ Frozen \subseteq Envelopes
  /\ \A d \in Drafts : /\ chBound[d].id \in 0..MaxIds /\ chBound[d].sup \in BOOLEAN
                       /\ {chBound[d].rev, chBound[d].req, chBound[d].epoch} \subseteq Nat
  /\ \A i \in Ids : chRows[i] \in Nat /\ chWhat[i] \in 0..MaxEnvelopes
  /\ chTask.at \in {"none", "bind", "write", "conflict", "written", "commit", "remember",
                    "delete", "unbind"}
  /\ chEnded \in {"", "saved", "expired", "conflict", "failed", "deleted"}

\* A record that was deleted does not come back: a calculation frozen before the
\* deletion, or one the user did not ask for, creates no new record either.
NotRevived == [][CommitSave /\ chTask'.at = "remember" => Saver \notin chLost]_chVars

\* A draft is told of a conflict only when somebody else changed its record: what the
\* draft wrote itself never turns against it.
ConflictIsReal == chTask.at = "conflict" => chTask.id \in chForeign

\* Between operations a live binding knows the revision of its record.
BindingIsFresh ==
  chTask.at = "none" =>
    \A d \in chOpen : LET b == chBound[d] IN
      b.id # 0 /\ ~b.sup /\ b.id \notin chForeign => chRows[b.id] = b.rev
=============================================================================
