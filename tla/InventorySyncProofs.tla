------------------------ MODULE InventorySyncProofs ------------------------
(***************************************************************************)
(* Proofs about InventorySync for every set of items, whatever the player  *)
(* does to them, every set of jobs and every bound.                        *)
(***************************************************************************)
EXTENDS InventorySync, TLAPS

-----------------------------------------------------------------------------
(* Types *)

(* An inventory is a Boolean function on some of the items. *)
LEMMA ContentsOf ==
  ASSUME NEW f
  PROVE  f \in Contents <=> DOMAIN f \in SUBSET Items /\ f \in [DOMAIN f -> BOOLEAN]
  BY DEF Contents

(* Changing or adding an item, and losing one, leave an inventory. *)
LEMMA WithContents ==
  ASSUME NEW f \in Contents, NEW i \in Items, NEW v \in BOOLEAN
  PROVE  With(f, i, v) \in Contents
<1>1. /\ DOMAIN f \cup {i} \in SUBSET Items
      /\ With(f, i, v) \in [DOMAIN f \cup {i} -> BOOLEAN]
  BY ContentsOf DEF With
<1> QED
  BY <1>1 DEF Contents

(* Losing an item leaves an inventory. *)
LEMMA WithoutContents ==
  ASSUME NEW f \in Contents, NEW i
  PROVE  Without(f, i) \in Contents
<1>1. /\ DOMAIN f \ {i} \in SUBSET Items
      /\ Without(f, i) \in [DOMAIN f \ {i} -> BOOLEAN]
  BY ContentsOf DEF Without
<1> QED
  BY <1>1 DEF Contents

(* No event is an event, of no items. *)
LEMMA NothingType == Nothing \in Events /\ Empty \in Contents
<1>1. Empty \in [{} -> BOOLEAN]
  BY DEF Empty
<1>2. Empty \in Contents
  BY <1>1 DEF Contents
<1> QED
  BY <1>2 DEF Nothing, Events

(* What a read of the game returns is an event. *)
LEMMA EventType ==
  ASSUME NEW i \in Contents, NEW s \in Nat, NEW r \in Nat
  PROVE  [seq |-> s, rev |-> r, items |-> i] \in Events
  BY DEF Events

(* A counter below its bound stays within it. *)
LEMMA CountUp ==
  ASSUME NEW n \in Nat, NEW m \in 0 .. n, m < n
  PROVE  m + 1 \in 0 .. n
  OBVIOUS

(* What the player does keeps the types. *)
LEMMA GameType ==
  ASSUME TypeOK, NEW i \in Items, Play(i)
  PROVE  TypeOK'
<1>1. \A w \in Contents : Change(w) => world' \in Contents /\ rev' \in Nat
  BY DEF Change, TypeOK
<1>2. world' \in Contents /\ rev' \in Nat
  <2>1. CASE "toggle" \in Moves /\ i \in DOMAIN world /\ Change(With(world, i, ~world[i]))
    BY <2>1, <1>1, WithContents, ContentsOf DEF TypeOK
  <2>2. CASE "lose" \in Moves /\ i \in DOMAIN world /\ Change(Without(world, i))
    BY <2>2, <1>1, WithoutContents DEF TypeOK
  <2>3. CASE "find" \in Moves /\ i \notin DOMAIN world /\ Change(With(world, i, FALSE))
    BY <2>3, <1>1, WithContents DEF TypeOK
  <2> QED
    BY <2>1, <2>2, <2>3 DEF Play
<1> QED
  BY <1>2 DEF Play, TypeOK, leaseVars, bufVars, locals, stabVars, stateVars, dbVars, Current

(* The worker's status() keeps the types. *)
LEMMA StatusType ==
  ASSUME TypeOK, Status
  PROVE  TypeOK'
<1> USE DEF TypeOK, gameVars, leaseVars, bufVars, locals, stabVars, stateVars,
            dbVars, Goto, Stages, Current, Phases
<1>1. CASE Poll
  BY <1>1 DEF Poll
<1>2. CASE StatusCurrent
  BY <1>2 DEF StatusCurrent
<1>3. CASE StatusDeferred
  BY <1>3 DEF StatusDeferred
<1>4. CASE StatusTimeout
  <2>1. timeouts' \in 0 .. MaxTimeouts
    BY <1>4, CountUp, ConstantsAssumption DEF StatusTimeout
  <2> QED
    BY <1>4, <2>1 DEF StatusTimeout
<1>5. CASE Read
  <2>1. ev' \in Events
    <3>1. world \in Contents /\ sent \in Nat /\ rev \in Nat
      OBVIOUS
    <3>2. ev' = [seq |-> sent + 1, rev |-> rev, items |-> world]
      BY <1>5 DEF Read
    <3> HIDE DEF TypeOK
    <3> QED
      BY <3>1, <3>2, EventType
  <2> QED
    BY <1>5, <2>1 DEF Read
<1>6. CASE Accept
  <2>1. accepted' \in Nat /\ sent' \in Nat
    BY <1>6 DEF Accept, Events
  <2> QED
    BY <1>6, <2>1 DEF Accept
<1>7. CASE EndStatus
  BY <1>7 DEF EndStatus
<1> QED
  BY <1>1, <1>2, <1>3, <1>4, <1>5, <1>6, <1>7 DEF Status

(* A released guard is one. *)
LEMMA NoGuardType ==
  ASSUME TypeOK
  PROVE  NoGuard \in Guards
<1>1. guard.gen + 1 \in Nat
  BY DEF TypeOK, Guards
<1> QED
  BY <1>1 DEF NoGuard, Guards

(* The callback of an event keeps the types. *)
LEMMA CallbackType ==
  ASSUME TypeOK, Callback
  PROVE  TypeOK'
<1> USE DEF TypeOK, gameVars, leaseVars, bufVars, locals, stabVars, stateVars,
            dbVars, Goto, Stages, Current, Phases
<1>1. CASE ReadGuard
  BY <1>1 DEF ReadGuard, Guards
<1>2. CASE ReadSource
  BY <1>2 DEF ReadSource, Guards
<1>3. CASE CheckGuard
  BY <1>3 DEF CheckGuard
<1>4. CASE AppendScoped
  <2>1. scoped' \in Seq(Scoped)
    <3>1. cursor \in Nat /\ ev \in Events /\ scoped \in Seq(Scoped)
      OBVIOUS
    <3>3. scoped' = Append(scoped, [cursor |-> cursor + 1, ev |-> ev])
      BY <1>4 DEF AppendScoped
    <3> HIDE DEF TypeOK
    <3>2. [cursor |-> cursor + 1, ev |-> ev] \in Scoped
      BY <3>1 DEF Scoped
    <3> QED
      BY <3>1, <3>2, <3>3
  <2>2. [i \in DOMAIN ev.items \cap allowed |-> ev.items[i]] \in Contents
    <3>1. ev.items \in Contents
      BY DEF Events
    <3>2. [i \in DOMAIN ev.items \cap allowed |-> ev.items[i]]
            \in [DOMAIN ev.items \cap allowed -> BOOLEAN]
      BY <3>1, ContentsOf
    <3> QED
      BY <3>1, <3>2 DEF Contents
  <2>3. ev.seq \in Nat
    BY DEF Events
  <2>4. deltas' \in Seq(Deltas)
    <3>1. source \in Nat /\ deltas \in Seq(Deltas)
      OBVIOUS
    <3> DEFINE d == [source |-> source, seq |-> ev.seq,
                     items |-> [i \in DOMAIN ev.items \cap allowed |-> ev.items[i]]]
    <3>2. d \in Deltas
      BY <2>2, <2>3, <3>1 DEF Deltas
    <3>3. deltas' = deltas \/ deltas' = Append(deltas, d)
      BY <1>4 DEF AppendScoped
    <3> HIDE DEF d, TypeOK
    <3> QED
      BY <3>1, <3>2, <3>3
  <2> QED
    <3>1. cursor \in Nat
      OBVIOUS
    <3>2. cursor' = cursor + 1
      BY <1>4 DEF AppendScoped
    <3> HIDE DEF TypeOK
    <3>3. cursor' \in Nat
      BY <3>1, <3>2
    <3> QED
      BY <1>4, <2>1, <2>4, <3>3 DEF AppendScoped, TypeOK
<1>5. CASE ReleaseFinished
  BY <1>5, NoGuardType DEF ReleaseFinished
<1>6. CASE FillSlot
  BY <1>6 DEF FillSlot
<1> QED
  BY <1>1, <1>2, <1>3, <1>4, <1>5, <1>6 DEF Callback

(* Observed states are merged into the items of the current snapshot only. *)
LEMMA MergedType ==
  ASSUME TypeOK, NEW d \in Deltas
  PROVE  /\ DOMAIN Merged(d) \subseteq DOMAIN db[Current].items
         /\ Merged(d) \in [DOMAIN Merged(d) -> States]
<1> DEFINE old == DOMAIN overlay
           new == {i \in DOMAIN d.items \cap DOMAIN db[Current].items :
                     i \in old => overlay[i].forced \/ overlay[i].seq <= d.seq}
<1>1. DOMAIN Merged(d) = old \cup new
  BY DEF Merged
<1>2. old \subseteq DOMAIN db[Current].items
  BY DEF TypeOK
<1>3. \A i \in old \cup new : Merged(d)[i] \in States
  <2>1. d.seq \in Nat /\ \A i \in DOMAIN d.items : d.items[i] \in BOOLEAN
    BY ContentsOf DEF Deltas
  <2>2. \A i \in old : overlay[i] \in States
    BY DEF TypeOK
  <2> TAKE i \in old \cup new
  <2>3. CASE i \in new
    BY <2>1, <2>3 DEF Merged, States
  <2>4. CASE i \notin new
    BY <2>2, <2>4 DEF Merged
  <2> QED
    BY <2>3, <2>4
<1>4. Merged(d) = [i \in DOMAIN Merged(d) |-> Merged(d)[i]]
  BY DEF Merged
<1> QED
  BY <1>1, <1>2, <1>3, <1>4

(* The stabilizer keeps an event or nothing. *)
LEMMA OfferType ==
  ASSUME TypeOK, NEW c \in Events, Offer(c)
  PROVE  /\ cand' \in Events /\ base' \in Contents /\ last' \in Nat
         /\ settled' \in BOOLEAN
         /\ phase' \in Phases
<1>1. ev \in Events /\ ev.seq \in Nat /\ base \in Contents /\ last \in Nat /\ settled \in BOOLEAN
      /\ phase \in Phases
  BY DEF TypeOK, Events
<1> QED
  BY <1>1, NothingType DEF Offer, Phases

(* The worker's loop keeps the types, given that it has a snapshot to publish. *)
LEMMA LoopType ==
  ASSUME TypeOK, SavedInv, Loop
  PROVE  TypeOK'
<1> USE DEF TypeOK, gameVars, leaseVars, bufVars, locals, stabVars, stateVars,
            dbVars, Goto, Stages, Current, Phases
<1>1. CASE Wait
  BY <1>1 DEF Wait
<1>2. CASE NotReady
  BY <1>2, NothingType DEF NotReady, Discard
<1>3. CASE TakeEvent
  BY <1>3, NothingType DEF TakeEvent
<1>4. CASE TakeDeltas
  <2>1. <<>> \in Seq(Deltas)
    OBVIOUS
  <2> QED
    BY <1>4, <2>1 DEF TakeDeltas
<1>5. CASE ApplyDelta
  <2>1. Head(taken) \in Deltas /\ taken' \in Seq(Deltas)
    BY <1>5 DEF ApplyDelta
  <2>2. /\ DOMAIN overlay' \subseteq DOMAIN db[Current].items
        /\ overlay' \in [DOMAIN overlay' -> States]
    BY <1>5, <2>1, MergedType DEF ApplyDelta
  <2> QED
    BY <1>5, <2>1, <2>2 DEF ApplyDelta
<1>6. CASE OfferEvent
  <2>1. Kept \in Events
    BY NothingType DEF Kept
  <2>2. known' \in Nat
    BY <1>6 DEF OfferEvent, Guards
  <2> QED
    BY <1>6, <2>1, <2>2, OfferType DEF OfferEvent
<1>7. CASE Ready
  BY <1>7 DEF Ready
<1>8. CASE Confirm
  BY <1>8 DEF Confirm
<1>9. CASE Refuse
  <2>1. timeouts' \in 0 .. MaxTimeouts
    <3>1. CASE UNCHANGED timeouts
      BY <3>1
    <3>2. CASE timeouts < MaxTimeouts /\ timeouts' = timeouts + 1
      <4>1. timeouts \in 0 .. MaxTimeouts
        OBVIOUS
      <4> HIDE DEF TypeOK
      <4> QED
        BY <3>2, <4>1, ConstantsAssumption
    <3> QED
      BY <1>9, <3>1, <3>2 DEF Refuse
  <2> QED
    BY <1>9, <2>1, NothingType DEF Refuse, Discard
<1>10. CASE Save
  <2>1. cand.items \in Contents /\ cand.seq \in Nat
    BY DEF Events
  <2>2. /\ db' \in Seq(Snapshots)
        /\ Len(db') = Len(db) + 1
    BY <1>10, <2>1 DEF Save, Import, Snapshots
  <2>3. /\ DOMAIN overlay' = {}
        /\ overlay' \in [DOMAIN overlay' -> States]
    BY <1>10 DEF Save, Import, Empty
  <2>4. published' \in 1 .. Len(db')
    BY <1>10, <2>2 DEF Save
  <2> QED
    BY <1>10, <2>1, <2>2, <2>3, <2>4, NothingType DEF Save, MarkCommitted
<1>11. CASE FailSave
  <2>1. fails' \in 0 .. MaxFails
    <3>1. fails < MaxFails /\ fails' = fails + 1 /\ fails \in 0 .. MaxFails
      BY <1>11 DEF FailSave
    <3> HIDE DEF TypeOK
    <3> QED
      BY <3>1, ConstantsAssumption
  <2> QED
    BY <1>11, <2>1 DEF FailSave
<1>12. CASE Publish
  <2>1. LastSaved \in 1 .. Current
    BY DEF LastSaved, SavedInv
  <2> QED
    BY <1>12, <2>1 DEF Publish
<1> QED
  BY <1>1, <1>2, <1>3, <1>4, <1>5, <1>6, <1>7, <1>8, <1>9, <1>10, <1>11, <1>12 DEF Loop

(* A step of a job keeps the type of its locals. *)
LEMMA StepType ==
  ASSUME TypeOK, NEW j \in Jobs, NEW p, NEW q \in JobStages, Step(j, p, q)
  PROVE  job' \in [Jobs -> JobLocals]
<1>1. job \in [Jobs -> JobLocals] /\ job[j] \in JobLocals
  BY DEF TypeOK
<1> QED
  BY <1>1 DEF Step, JobLocals

(* An import appends a snapshot and empties the overlay. *)
LEMMA ImportType ==
  ASSUME TypeOK, NEW e \in Events, NEW who \in {"worker", "job"}, Import(e, who)
  PROVE  /\ db' \in Seq(Snapshots) /\ Len(db') = Len(db) + 1
         /\ published \in 1 .. Len(db')
         /\ DOMAIN overlay' = {} /\ overlay' \in [DOMAIN overlay' -> States]
<1>1. db \in Seq(Snapshots) /\ published \in 1 .. Len(db)
  BY DEF TypeOK, Current
<1>2. [items |-> e.items, seq |-> e.seq, by |-> who] \in Snapshots
  BY DEF Events, Snapshots
<1>3. db' \in Seq(Snapshots) /\ Len(db') = Len(db) + 1
  BY <1>1, <1>2 DEF Import
<1>4. DOMAIN overlay' = {} /\ overlay' \in [{} -> States]
  BY DEF Import, Empty
<1> QED
  BY <1>1, <1>3, <1>4

(* A projected state is one of the overlay. *)
LEMMA ProjectionType ==
  ASSUME TypeOK, NEW s \in States, Target \in DOMAIN db[Current].items,
         NEW o, o = With(overlay, Target, s)
  PROVE  DOMAIN o \subseteq DOMAIN db[Current].items /\ o \in [DOMAIN o -> States]
<1>1. DOMAIN overlay \subseteq DOMAIN db[Current].items /\ overlay \in [DOMAIN overlay -> States]
  BY DEF TypeOK
<1> QED
  BY <1>1 DEF With

(* A job keeps the types, given that it knows the snapshot it changes. *)
LEMMA JobType ==
  ASSUME TypeOK, PlanInv, NEW j \in Jobs, Job(j)
  PROVE  TypeOK'
<1> USE DEF TypeOK, gameVars, leaseVars, bufVars, locals, stabVars, stateVars,
            dbVars, Current
<1>0. job[j] \in JobLocals
  OBVIOUS
<1>1. CASE CheckListening(j)
  <2>1. job' \in [Jobs -> JobLocals]
    BY <1>1, StepType DEF CheckListening, JobStages
  <2> QED
    BY <1>1, <2>1 DEF CheckListening
<1>2. CASE Pin(j)
  <2>1. DOMAIN db[Current].items \in SUBSET Items /\ Len(db) \in Nat
    <3>1. db \in Seq(Snapshots) /\ published \in 1 .. Len(db)
      OBVIOUS
    <3> HIDE DEF TypeOK
    <3>2. db[Current] \in Snapshots
      BY <3>1
    <3> QED
      BY <3>1, <3>2, ContentsOf DEF Snapshots
  <2>2. job' \in [Jobs -> JobLocals]
    BY <1>2, <1>0, <2>1 DEF Pin, JobLocals, JobStages
  <2> QED
    BY <1>2, <2>2 DEF Pin
<1>3. CASE BeginGuard(j)
  <2>1. guard.gen + 1 \in Nat
    BY DEF Guards
  <2>2. guard' \in Guards /\ job' \in [Jobs -> JobLocals]
    BY <1>3, <1>0, <2>1 DEF BeginGuard, JobLocals, JobStages, Guards
  <2> QED
    BY <1>3, <2>2 DEF BeginGuard
<1>4. CASE RefuseGuard(j)
  <2>1. job' \in [Jobs -> JobLocals]
    BY <1>4, StepType DEF RefuseGuard, JobStages
  <2> QED
    BY <1>4, <2>1 DEF RefuseGuard
<1>5. CASE Clear(j)
  <2>1. <<>> \in Seq(Scoped) /\ <<>> \in Seq(Deltas)
    OBVIOUS
  <2>2. job' \in [Jobs -> JobLocals]
    BY <1>5, StepType DEF Clear, JobStages
  <2> QED
    BY <1>5, <2>1, <2>2 DEF Clear, ClearBuffers
<1>6. CASE ReadCursor(j)
  <2>1. job' \in [Jobs -> JobLocals]
    BY <1>6, <1>0 DEF ReadCursor, JobLocals, JobStages
  <2> QED
    BY <1>6, <2>1 DEF ReadCursor
<1>7. CASE Dispatch(j)
  <2>1. job' \in [Jobs -> JobLocals]
    <3>1. PICK q \in {"sent", "finishing"} :
            job' = [job EXCEPT ![j].pc = q, ![j].seen = sent]
      BY <1>7 DEF Dispatch
    <3>2. sent \in Nat /\ job \in [Jobs -> JobLocals]
      OBVIOUS
    <3> HIDE DEF TypeOK
    <3> QED
      BY <3>1, <3>2, <1>0 DEF JobLocals, JobStages
  <2>2. world' \in Contents /\ rev' \in Nat
    <3>1. CASE UNCHANGED gameVars
      BY <3>1
    <3>2. CASE Change(With(world, Target, TRUE))
      <4>1. world \in Contents /\ rev \in Nat
        OBVIOUS
      <4> HIDE DEF TypeOK
      <4> QED
        <5>1. With(world, Target, TRUE) \in Contents
          BY <4>1, WithContents, ConstantsAssumption
        <5>2. world' = With(world, Target, TRUE) /\ rev' = rev + 1
          BY <3>2 DEF Change
        <5>3. rev' \in Nat
          BY <4>1, <5>2
        <5> QED
          BY <5>1, <5>2, <5>3
    <3> QED
      BY <1>7, <3>1, <3>2 DEF Dispatch
  <2> QED
    BY <1>7, <2>1, <2>2 DEF Dispatch
<1>8. CASE Project(j)
  <2>1. job' \in [Jobs -> JobLocals]
    BY <1>8, StepType DEF Project, JobStages
  <2>2. DOMAIN overlay' \subseteq DOMAIN db[Current].items /\ overlay' \in [DOMAIN overlay' -> States]
    <3>1. CASE job[j].plan = Current
      <4> DEFINE s == [state |-> TRUE, forced |-> TRUE,
                       seq |-> IF at = "read" THEN ev.seq ELSE sent]
      <4>1. s \in States
        BY DEF States, Events
      <4>2. Target \in DOMAIN db[Current].items
        BY <1>8, <3>1 DEF Project, Step, PlanInv
      <4>3. overlay' = With(overlay, Target, s)
        BY <1>8, <3>1 DEF Project
      <4> HIDE DEF s, TypeOK, Current
      <4> QED
        BY <4>1, <4>2, <4>3, ProjectionType
    <3>2. CASE job[j].plan # Current
      BY <1>8, <3>2 DEF Project
    <3> QED
      BY <3>1, <3>2
  <2> QED
    BY <1>8, <2>1, <2>2 DEF Project
<1>9. CASE FinishGuard(j)
  <2>1. job' \in [Jobs -> JobLocals]
    BY <1>9, StepType DEF FinishGuard, JobStages
  <2>2. guard' \in Guards
    BY <1>9 DEF FinishGuard, Guards
  <2> QED
    BY <1>9, <2>1, <2>2 DEF FinishGuard
<1>10. CASE SeeSnapshot(j)
  <2>1. job' \in [Jobs -> JobLocals]
    BY <1>10, StepType DEF SeeSnapshot, JobStages
  <2> QED
    BY <1>10, <2>1 DEF SeeSnapshot
<1>11. CASE SeeNone(j)
  <2>1. job' \in [Jobs -> JobLocals]
    BY <1>11, StepType DEF SeeNone, JobStages
  <2> QED
    BY <1>11, <2>1 DEF SeeNone
<1>12. CASE FindPacket(j)
  <2>1. job' \in [Jobs -> JobLocals]
    <3>1. PICK n \in DOMAIN scoped :
            job' = [job EXCEPT ![j].pc = "import", ![j].packet = scoped[n].ev]
      BY <1>12 DEF FindPacket, Packets
    <3>2. scoped[n].ev \in Events
      <4>1. scoped \in Seq(Scoped)
        OBVIOUS
      <4> HIDE DEF TypeOK
      <4>2. scoped[n] \in Scoped
        BY <4>1
      <4> QED
        BY <4>2 DEF Scoped
    <3> QED
      BY <3>1, <3>2, <1>0 DEF JobLocals, JobStages
  <2> QED
    BY <1>12, <2>1 DEF FindPacket
<1>13. CASE FindNone(j)
  <2>1. job' \in [Jobs -> JobLocals]
    BY <1>13, StepType DEF FindNone, JobStages
  <2> QED
    BY <1>13, <2>1 DEF FindNone
<1>14. CASE ReplaceSnapshot(j)
  <2>1. job' \in [Jobs -> JobLocals]
    BY <1>14, StepType DEF ReplaceSnapshot, JobStages
  <2>2. job[j].packet \in Events
    BY <1>0 DEF JobLocals
  <2>3. /\ db' \in Seq(Snapshots) /\ published \in 1 .. Len(db')
        /\ DOMAIN overlay' = {} /\ overlay' \in [DOMAIN overlay' -> States]
    BY <1>14, <2>2, ImportType DEF ReplaceSnapshot
  <2> QED
    BY <1>14, <2>1, <2>3 DEF ReplaceSnapshot
<1>15. CASE EndGuard(j)
  <2>1. job' \in [Jobs -> JobLocals]
    BY <1>15, StepType DEF EndGuard, JobStages
  <2> QED
    BY <1>15, <2>1, NoGuardType DEF EndGuard
<1>16. CASE ClearEnded(j)
  <2>1. <<>> \in Seq(Scoped) /\ <<>> \in Seq(Deltas)
    OBVIOUS
  <2>2. job' \in [Jobs -> JobLocals]
    BY <1>16, StepType DEF ClearEnded, JobStages
  <2> QED
    BY <1>16, <2>1, <2>2 DEF ClearEnded, ClearBuffers
<1> QED
  BY <1>1, <1>2, <1>3, <1>4, <1>5, <1>6, <1>7, <1>8, <1>9, <1>10, <1>11, <1>12, <1>13, <1>14, <1>15, <1>16 DEF Job

-----------------------------------------------------------------------------
(* Who changes the guard, the snapshots and the locals of a job *)

(* Steps that are neither a job's nor touch the guard. *)
Quiet ==
  /\ UNCHANGED <<guard, known, job>>
  /\ cand' = cand \/ cand' = Nothing
  /\ UNCHANGED db \/ Import(cand, "worker")

(* Every step is one of these kinds. *)
LEMMA NextCases ==
  ASSUME [Next]_vars
  PROVE  Quiet \/ OfferEvent \/ ReleaseFinished \/ \E j \in Jobs : Job(j)
<1> USE DEF gameVars, leaseVars, bufVars, locals, stabVars, stateVars, dbVars, Goto
<1>1. CASE \E i \in Items : Play(i)
  BY <1>1 DEF Play, Quiet
<1>2. CASE Status
  BY <1>2 DEF Status, Poll, StatusCurrent, StatusDeferred, StatusTimeout, Read, Accept,
     EndStatus, Quiet
<1>3. CASE Callback
  BY <1>3 DEF Callback, ReadGuard, ReadSource, CheckGuard, AppendScoped, FillSlot, Quiet
<1>4. CASE Loop
  BY <1>4 DEF Loop, Wait, NotReady, TakeEvent, TakeDeltas, ApplyDelta, Ready, Confirm, Refuse,
     Discard, Save, MarkCommitted, FailSave, Publish, Quiet
<1>5. CASE Settle
  BY <1>5 DEF Settle, Quiet
<1>6. CASE UNCHANGED vars
  BY <1>6 DEF vars, Quiet
<1> QED
  BY <1>1, <1>2, <1>3, <1>4, <1>5, <1>6 DEF Next

(* A job leaves the candidate alone and saves its packet only. *)
LEMMA JobKeeps ==
  ASSUME NEW j \in Jobs, Job(j)
  PROVE  /\ UNCHANGED <<known, cand>>
         /\ UNCHANGED db \/ Import(job[j].packet, "job")
<1> USE DEF gameVars, leaseVars, bufVars, locals, stabVars, stateVars, dbVars
<1> QED
  BY DEF Job, CheckListening, Pin, BeginGuard, RefuseGuard, Clear, ReadCursor, Dispatch, Project,
     FinishGuard, SeeSnapshot, SeeNone, FindPacket, FindNone, ReplaceSnapshot, EndGuard, ClearEnded

(* Snapshots are only ever appended. *)
LEMMA DbGrows ==
  ASSUME TypeOK, [Next]_vars
  PROVE  \/ UNCHANGED db
         \/ \E s \in Snapshots : db' = Append(db, s)
<1>1. \A e \in Events, who \in {"worker", "job"} :
        Import(e, who) => \E s \in Snapshots : db' = Append(db, s)
  BY DEF Import, Events, Snapshots
<1>2. cand \in Events /\ \A j \in Jobs : job[j].packet \in Events
  BY DEF TypeOK, JobLocals
<1>3. UNCHANGED db \/ Import(cand, "worker") \/ \E j \in Jobs : Import(job[j].packet, "job")
  <2>1. OfferEvent \/ ReleaseFinished => UNCHANGED db
    BY DEF OfferEvent, ReleaseFinished, dbVars
  <2> QED
    BY <2>1, NextCases, JobKeeps DEF Quiet
<1> QED
  BY <1>1, <1>2, <1>3

(* There remains a snapshot of the worker. *)
LEMMA SavedStep ==
  ASSUME TypeOK, SavedInv, [Next]_vars
  PROVE  SavedInv'
<1>1. db \in Seq(Snapshots)
  BY DEF TypeOK
<1>2. CASE UNCHANGED db
  BY <1>2 DEF SavedInv, Current
<1>3. CASE \E s \in Snapshots : db' = Append(db, s)
  <2>1. PICK s \in Snapshots : db' = Append(db, s)
    BY <1>3
  <2>2. PICK n \in 1 .. Len(db) :
          db[n].by = "worker" /\ \A m \in n + 1 .. Len(db) : db[m].by # "worker"
    BY DEF SavedInv, Current
  <2>3. Len(db') = Len(db) + 1 /\ db'[Len(db) + 1] = s /\ \A m \in 1 .. Len(db) : db'[m] = db[m]
    BY <1>1, <2>1
  <2>4. s.by \in {"worker", "job"}
    BY DEF Snapshots
  <2>5. CASE s.by = "worker"
    BY <1>1, <2>3, <2>5 DEF SavedInv, Current
  <2>6. CASE s.by = "job"
    <3>1. n \in 1 .. Len(db') /\ db'[n].by = "worker"
      BY <1>1, <2>2, <2>3
    <3>2. \A m \in n + 1 .. Len(db') : db'[m].by # "worker"
      BY <1>1, <2>2, <2>3, <2>6
    <3> QED
      BY <3>1, <3>2 DEF SavedInv, Current
  <2> QED
    BY <2>4, <2>5, <2>6
<1> QED
  BY <1>2, <1>3, DbGrows

(* A job leaves the locals of the others alone. *)
LEMMA JobOthers ==
  ASSUME TypeOK, NEW j \in Jobs, Job(j)
  PROVE  \A k \in Jobs : k # j => job'[k] = job[k]
<1>1. job \in [Jobs -> JobLocals]
  BY DEF TypeOK
<1> QED
  BY <1>1 DEF Job, CheckListening, Pin, BeginGuard, RefuseGuard, Clear, ReadCursor, Dispatch,
     Project, FinishGuard, SeeSnapshot, SeeNone, FindPacket, FindNone, ReplaceSnapshot,
     EndGuard, ClearEnded, Step

(* What a job keeps of its plan. *)
PlanOf(j) ==
  job[j].pc \notin {"idle", "ready"} =>
    /\ job[j].plan \in 1 .. Current
    /\ job[j].uids = DOMAIN db[job[j].plan].items /\ Target \in job[j].uids

(* The plan of a job stays that of a snapshot, for snapshots never change. *)
LEMMA PlanStep ==
  ASSUME TypeOK, PlanInv, [Next]_vars
  PROVE  PlanInv'
<1>1. db \in Seq(Snapshots) /\ Len(db) \in Nat /\ Current \in 1 .. Len(db)
  BY DEF TypeOK, Current
<1>2. Len(db') \in Nat /\ Len(db') >= Len(db) /\ \A n \in 1 .. Len(db) : db'[n] = db[n]
  BY <1>1, DbGrows
<1>3. ASSUME NEW k \in Jobs, PlanOf(k),
             \/ job'[k] = job[k]
             \/ /\ job[k].pc \notin {"idle", "ready"} \/ job'[k].pc = "ready"
                /\ job'[k].plan = job[k].plan /\ job'[k].uids = job[k].uids
      PROVE  PlanOf(k)'
  BY <1>1, <1>2, <1>3 DEF PlanOf, Current
<1>4. \A k \in Jobs : PlanOf(k)
  BY DEF PlanInv, PlanOf
<1>5. CASE UNCHANGED job
  <2>1. \A k \in Jobs : PlanOf(k)'
    BY <1>3, <1>4, <1>5
  <2> QED
    BY <1>5, <2>1 DEF PlanInv, PlanOf
<1>6. CASE \E j \in Jobs : Job(j)
  <2>1. PICK j \in Jobs : Job(j)
    BY <1>6
  <2>2. job \in [Jobs -> JobLocals] /\ job[j] \in JobLocals
    BY DEF TypeOK
  <2>3. \/ Pin(j)
        \/ /\ job[j].pc \notin {"idle", "ready"} \/ job'[j].pc = "ready"
           /\ job'[j].plan = job[j].plan /\ job'[j].uids = job[j].uids
    <3>1. CASE CheckListening(j)
      BY <2>2, <3>1 DEF CheckListening, Step, JobLocals
    <3>2. ASSUME NEW p, p # "idle", p # "ready", NEW q, Step(j, p, q)
          PROVE  /\ job[j].pc \notin {"idle", "ready"}
                 /\ job'[j].plan = job[j].plan /\ job'[j].uids = job[j].uids
      BY <2>2, <3>2 DEF Step, JobLocals
    <3>3. CASE BeginGuard(j) \/ ReadCursor(j)
      BY <2>2, <3>3 DEF BeginGuard, ReadCursor, JobLocals
    <3>4. CASE Dispatch(j)
      <4>1. PICK q \in {"sent", "finishing"} :
              job' = [job EXCEPT ![j].pc = q, ![j].seen = sent]
        BY <3>4 DEF Dispatch
      <4> QED
        BY <2>2, <3>4, <4>1 DEF Dispatch, JobLocals
    <3>5. CASE FindPacket(j)
      <4>1. PICK n \in DOMAIN scoped :
              job' = [job EXCEPT ![j].pc = "import", ![j].packet = scoped[n].ev]
        BY <3>5 DEF FindPacket, Packets
      <4> QED
        BY <2>2, <3>5, <4>1 DEF FindPacket, JobLocals
    <3> QED
      BY <2>1, <3>1, <3>2, <3>3, <3>4, <3>5 DEF Job, RefuseGuard, Clear, Project, FinishGuard,
         SeeSnapshot, SeeNone, FindNone, ReplaceSnapshot, EndGuard, ClearEnded
  <2>4. Pin(j) => PlanOf(j)'
    <3> SUFFICES ASSUME Pin(j)
                 PROVE  PlanOf(j)'
      OBVIOUS
    <3>1. UNCHANGED db
      BY DEF Pin, dbVars
    <3> QED
      BY <1>1, <2>2, <3>1 DEF Pin, PlanOf, Current, JobLocals
  <2>5. \A k \in Jobs : k # j => job'[k] = job[k]
    BY <2>1, JobOthers
  <2>6. \A k \in Jobs : PlanOf(k)'
    BY <1>3, <1>4, <2>3, <2>4, <2>5
  <2> QED
    BY <2>6 DEF PlanInv, PlanOf
<1>7. (OfferEvent \/ ReleaseFinished \/ Quiet) => UNCHANGED job
  BY DEF OfferEvent, ReleaseFinished, Quiet
<1> QED
  BY <1>5, <1>6, <1>7, NextCases

(* A job changes the guard in three steps only. *)
LEMMA JobGuard ==
  ASSUME TypeOK, NEW j \in Jobs, Job(j)
  PROVE  \/ BeginGuard(j) \/ FinishGuard(j) \/ EndGuard(j)
         \/ /\ UNCHANGED guard
            /\ job[j].pc \in Guarding <=> job'[j].pc \in Guarding
            /\ job[j].pc \in Guarding => job'[j].token = job[j].token /\ job'[j].uids = job[j].uids
<1> USE DEF Guarding
<1>1. job \in [Jobs -> JobLocals] /\ job[j] \in JobLocals
  BY DEF TypeOK
<1>2. ASSUME NEW p, NEW q, Step(j, p, q)
      PROVE  /\ job[j].pc = p /\ job'[j].pc = q
             /\ job'[j].token = job[j].token /\ job'[j].uids = job[j].uids
  BY <1>1, <1>2 DEF Step, JobLocals
<1>3. CASE CheckListening(j) \/ RefuseGuard(j) \/ ClearEnded(j)
  BY <1>2, <1>3 DEF CheckListening, RefuseGuard, ClearEnded
<1>4. CASE Pin(j)
  BY <1>1, <1>4 DEF Pin, JobLocals
<1>5. CASE Clear(j) \/ SeeSnapshot(j) \/ SeeNone(j) \/ FindNone(j) \/ ReplaceSnapshot(j) \/ Project(j)
  BY <1>2, <1>5 DEF Clear, SeeSnapshot, SeeNone, FindNone, ReplaceSnapshot, Project
<1>6. CASE ReadCursor(j)
  BY <1>1, <1>6 DEF ReadCursor, JobLocals
<1>7. CASE Dispatch(j)
  <2>1. PICK q \in {"sent", "finishing"} :
          job' = [job EXCEPT ![j].pc = q, ![j].seen = sent]
    BY <1>7 DEF Dispatch
  <2> QED
    BY <1>1, <1>7, <2>1 DEF Dispatch, JobLocals
<1>8. CASE FindPacket(j)
  <2>1. PICK n \in DOMAIN scoped :
          job' = [job EXCEPT ![j].pc = "import", ![j].packet = scoped[n].ev]
    BY <1>8 DEF FindPacket, Packets
  <2> QED
    BY <1>1, <1>8, <2>1 DEF FindPacket, JobLocals
<1> QED
  BY <1>3, <1>4, <1>5, <1>6, <1>7, <1>8 DEF Job

(* What a job with a guard owns. *)
Owner(j) ==
  job[j].pc \in Guarding => /\ job[j].token = guard.token /\ job[j].token # 0
                           /\ ~guard.finished /\ guard.uids = job[j].uids

(* The ownership of the guard, one job at a time. *)
LEMMA OwnershipByJob ==
  TokenInv /\ GuardOwnership <=>
    /\ guard.token <= guard.gen /\ known <= guard.gen
    /\ guard.uids = {} => guard.token = 0
    /\ \A j \in Jobs : Owner(j)
    /\ guard.token # 0 /\ ~guard.finished => \E j \in Jobs : job[j].pc \in Guarding
    /\ \A j, k \in Jobs : job[j].pc \in Guarding /\ job[k].pc \in Guarding => j = k
  BY DEF TokenInv, GuardOwnership, Owner

(* The guard has one owner, whoever takes a step: a finished guard has none to lose. *)
LEMMA GuardStep ==
  ASSUME TypeOK, PlanInv, TokenInv, GuardOwnership, [Next]_vars
  PROVE  (TokenInv /\ GuardOwnership)'
<1>1. /\ guard \in Guards /\ known \in Nat /\ job \in [Jobs -> JobLocals]
      /\ guard.token \in Nat /\ guard.gen \in Nat
  BY DEF TypeOK, Guards
<1>2. /\ guard.token <= guard.gen /\ known <= guard.gen
      /\ guard.uids = {} => guard.token = 0
      /\ \A j \in Jobs : Owner(j)
      /\ guard.token # 0 /\ ~guard.finished => \E j \in Jobs : job[j].pc \in Guarding
      /\ \A j, k \in Jobs : job[j].pc \in Guarding /\ job[k].pc \in Guarding => j = k
  BY OwnershipByJob
<1>3. CASE Quiet \/ OfferEvent
  <2>1. UNCHANGED <<guard, job>> /\ (known' = known \/ known' = guard.gen)
    BY <1>3 DEF Quiet, OfferEvent
  <2> QED
    BY <1>1, <2>1 DEF TokenInv, GuardOwnership
<1>4. CASE ReleaseFinished
  <2>1. UNCHANGED <<job, known>>
    BY <1>4 DEF ReleaseFinished
  <2>2. CASE UNCHANGED guard
    BY <2>1, <2>2 DEF TokenInv, GuardOwnership
  <2>3. CASE guard' = NoGuard /\ guard.finished
    <3>1. \A j \in Jobs : job[j].pc \notin Guarding
      BY <1>2, <2>3 DEF Owner
    <3>2. guard'.token = 0 /\ guard'.gen = guard.gen + 1
      BY <2>3 DEF NoGuard
    <3> QED
      BY <1>1, <1>2, <2>1, <3>1, <3>2 DEF TokenInv, GuardOwnership
  <2> QED
    BY <1>4, <2>2, <2>3 DEF ReleaseFinished, MayRelease
<1>5. ASSUME NEW j \in Jobs, Job(j)
      PROVE  (TokenInv /\ GuardOwnership)'
  <2>1. (\A k \in Jobs : k # j => job'[k] = job[k]) /\ known' = known
    BY <1>5, JobOthers, JobKeeps
  <2>2. job[j] \in JobLocals
    BY <1>1
  <2>3. CASE BeginGuard(j)
    <3>1. \A k \in Jobs : job[k].pc \notin Guarding
      BY <1>2, <2>3 DEF Owner, BeginGuard, GuardFree
    <3>2. /\ guard'.token = guard.gen + 1 /\ guard'.gen = guard.gen + 1
          /\ guard'.uids = job[j].uids /\ ~guard'.finished
      BY <2>3 DEF BeginGuard
    <3>3. job'[j].pc = "clear" /\ job'[j].token = guard.gen + 1 /\ job'[j].uids = job[j].uids
      BY <1>1, <2>2, <2>3 DEF BeginGuard, JobLocals
    <3>4. job[j].uids # {}
      BY <2>3 DEF BeginGuard, PlanInv
    <3> QED
      BY <1>1, <1>2, <2>1, <3>1, <3>2, <3>3, <3>4 DEF TokenInv, GuardOwnership, Guarding
  <2>4. CASE FinishGuard(j)
    <3>1. job[j].pc = "finishing" /\ job'[j].pc = "done"
      BY <1>1, <2>2, <2>4 DEF FinishGuard, Step, JobLocals
    <3>2. guard' = [guard EXCEPT !.finished = TRUE]
      BY <1>2, <2>4, <3>1 DEF FinishGuard, Owner, Guarding
    <3>3. /\ guard'.token = guard.token /\ guard'.gen = guard.gen /\ guard'.uids = guard.uids
          /\ guard'.finished
      BY <1>1, <3>2 DEF Guards
    <3>4. \A k \in Jobs : job'[k].pc \notin Guarding
      BY <1>2, <2>1, <3>1 DEF Guarding
    <3> QED
      BY <1>2, <2>1, <3>3, <3>4 DEF TokenInv, GuardOwnership
  <2>5. CASE EndGuard(j)
    <3>1. /\ job[j].pc = "ending" /\ job'[j].pc \in {"ended", "done"}
      BY <1>1, <2>2, <2>5 DEF EndGuard, Step, JobLocals
    <3>2. guard' = NoGuard
      BY <1>2, <2>5, <3>1 DEF EndGuard, Owner, Guarding
    <3>3. guard'.token = 0 /\ guard'.gen = guard.gen + 1
      BY <3>2 DEF NoGuard
    <3>4. \A k \in Jobs : job'[k].pc \notin Guarding
      BY <1>2, <2>1, <3>1 DEF Guarding
    <3> QED
      BY <1>1, <1>2, <2>1, <3>3, <3>4 DEF TokenInv, GuardOwnership
  <2>6. CASE /\ UNCHANGED guard
             /\ job[j].pc \in Guarding <=> job'[j].pc \in Guarding
             /\ job[j].pc \in Guarding => job'[j].token = job[j].token /\ job'[j].uids = job[j].uids
    <3>1. \A k \in Jobs : job[k].pc \in Guarding <=> job'[k].pc \in Guarding
      BY <2>1, <2>6
    <3>2. \A k \in Jobs : Owner(k)'
      BY <1>2, <2>1, <2>6 DEF Owner
    <3> QED
      BY <1>2, <2>1, <2>6, <3>1, <3>2, OwnershipByJob DEF TokenInv, GuardOwnership, Owner
  <2> QED
    BY <1>5, <2>3, <2>4, <2>5, <2>6, JobGuard
<1> QED
  BY <1>3, <1>4, <1>5, NextCases

(* A candidate is full for the guard that the worker knows: a changed guard has
   another generation, for which Kept discards the candidate. *)
LEMMA CandidateStep ==
  ASSUME TypeOK, TokenInv, GuardedCandidateFull, [Next]_vars
  PROVE  GuardedCandidateFull'
<1>1. guard \in Guards /\ known \in Nat /\ guard.gen \in Nat /\ known <= guard.gen
  BY DEF TypeOK, Guards, TokenInv
<1>2. ASSUME cand' = cand \/ cand' = Nothing, known' = known,
             \/ guard' = guard \/ guard'.gen = guard.gen + 1
             \/ guard' = [guard EXCEPT !.finished = TRUE]
      PROVE  GuardedCandidateFull'
  BY <1>1, <1>2 DEF GuardedCandidateFull, Guards
<1>3. CASE Quiet
  BY <1>2, <1>3 DEF Quiet
<1>4. CASE ReleaseFinished
  BY <1>2, <1>4 DEF ReleaseFinished, NoGuard, stabVars
<1>5. CASE \E j \in Jobs : Job(j)
  <2>1. PICK j \in Jobs : Job(j)
    BY <1>5
  <2>2. \/ guard' = guard \/ guard'.gen = guard.gen + 1
        \/ guard' = [guard EXCEPT !.finished = TRUE]
    <3>1. BeginGuard(j) => guard'.gen = guard.gen + 1
      BY DEF BeginGuard
    <3>2. FinishGuard(j) => guard' = guard \/ guard' = [guard EXCEPT !.finished = TRUE]
      BY DEF FinishGuard
    <3>3. EndGuard(j) => guard' = guard \/ guard'.gen = guard.gen + 1
      BY DEF EndGuard, NoGuard
    <3> QED
      BY <2>1, <3>1, <3>2, <3>3, JobGuard
  <2> QED
    BY <1>2, <2>1, <2>2, JobKeeps
<1>6. CASE OfferEvent
  <2>1. guard' = guard /\ known' = guard.gen /\ Offer(Kept)
    BY <1>6 DEF OfferEvent
  <2>2. Kept # Nothing /\ guard.token # 0 => DOMAIN Kept.items = guard.uids
    BY DEF Kept, GuardedCandidateFull
  <2>3. guard.token # 0 => guard.uids # {}
    BY DEF TokenInv
  <2>4. CASE guard.uids # {} /\ DOMAIN ev.items # guard.uids
    BY <2>1, <2>2, <2>4 DEF Offer, Ignored, GuardedCandidateFull
  <2>5. CASE ~(guard.uids # {} /\ DOMAIN ev.items # guard.uids)
    <3>1. cand' = Kept \/ cand' = Nothing \/ cand' = ev
      BY <2>1, <2>5 DEF Offer
    <3> QED
      BY <2>1, <2>2, <2>3, <2>5, <3>1 DEF GuardedCandidateFull
  <2> QED
    BY <2>4, <2>5
<1> QED
  BY <1>3, <1>4, <1>5, <1>6, NextCases

-----------------------------------------------------------------------------
(* Revisions and sequences *)

(* A job leaves the worker and the lease alone. *)
LEMMA JobLeavesWorker ==
  ASSUME TypeOK, NEW j \in Jobs, Job(j)
  PROVE  /\ UNCHANGED <<accepted, sent, slot, at, ev, taken, cand, base, last>>
         /\ rev' = rev \/ rev' = rev + 1
<1> USE DEF gameVars, leaseVars, bufVars, locals, stabVars, stateVars, dbVars
<1>1. CASE Dispatch(j)
  BY <1>1 DEF Dispatch, Change
<1> QED
  BY <1>1 DEF Job, CheckListening, Pin, BeginGuard, RefuseGuard, Clear, ReadCursor, Project,
     FinishGuard, SeeSnapshot, SeeNone, FindPacket, FindNone, ReplaceSnapshot, EndGuard, ClearEnded

(* Sequences follow revisions: what is accepted is later than all that was. *)
LEMMA ReadStep ==
  ASSUME TypeOK, ReadInv, [Next]_vars
  PROVE  ReadInv'
<1>1. /\ rev \in Nat /\ accepted \in Nat /\ sent \in Nat
      /\ ev \in Events /\ slot \in Events /\ cand \in Events
  BY DEF TypeOK
<1>2. \A e \in Events : e.seq \in Nat /\ e.rev \in Nat
  BY DEF Events
<1> USE DEF gameVars, leaseVars, bufVars, locals, stabVars, stateVars, dbVars, Goto, ReadInv, Accepted
<1>3. ASSUME UNCHANGED <<accepted, sent, slot, at, ev, cand>>, rev' = rev \/ rev' = rev + 1
      PROVE  ReadInv'
  BY <1>1, <1>3
<1>4. CASE \E i \in Items : Play(i)
  BY <1>3, <1>4 DEF Play, Change
<1>5. CASE \E j \in Jobs : Job(j)
  BY <1>3, <1>5, JobLeavesWorker
<1>6. CASE Status
  <2>1. CASE Read
    BY <1>1, <2>1 DEF Read
  <2>2. CASE Accept
    <3>1. CASE Fresh
      <4>1. /\ accepted' = rev /\ sent' = ev.seq /\ at' = "emit" /\ ev.rev = rev
            /\ UNCHANGED <<rev, ev, slot, cand>>
        BY <2>2, <3>1 DEF Accept, Fresh
      <4>2. accepted < rev /\ ev.seq = sent + 1
        BY <2>2 DEF Accept
      <4>3. \A e \in Events : Accepted(e) => e.seq <= sent' /\ e.rev < accepted'
        BY <1>1, <1>2, <4>1, <4>2
      <4>4. Accepted(ev)' /\ Accepted(slot)' /\ Accepted(cand)' /\ Accepted(Nothing)'
        <5>1. Nothing \in Events /\ accepted' # accepted
          BY <1>1, <4>1, <4>2, NothingType
        <5>2. \A e \in Events : e.seq <= sent' /\ e.rev < accepted' =>
                /\ e.seq <= sent' /\ e.rev <= accepted'
                /\ e.rev = accepted' => e.seq = sent'
          BY <1>1, <1>2, <4>1
        <5> QED
          BY <1>1, <1>2, <4>1, <4>3, <5>1, <5>2
      <4> QED
        BY <1>1, <4>1, <4>4
    <3>2. CASE ~Fresh
      BY <1>1, <2>2, <3>2 DEF Accept
    <3> QED
      BY <3>1, <3>2
  <2>3. CASE Poll \/ StatusCurrent \/ StatusDeferred \/ StatusTimeout \/ EndStatus
    BY <1>1, <2>3 DEF Poll, StatusCurrent, StatusDeferred, StatusTimeout, EndStatus
  <2> QED
    BY <1>6, <2>1, <2>2, <2>3 DEF Status
<1>7. CASE Callback
  BY <1>1, <1>7 DEF Callback, ReadGuard, ReadSource, CheckGuard, AppendScoped, ReleaseFinished, FillSlot
<1>8. CASE Loop
  <2>1. CASE OfferEvent
    <3>1. cand' \in {cand, ev, Nothing} /\ at = "apply" /\ at' = "settle"
      BY <2>1 DEF OfferEvent, Offer, Kept
    <3> QED
      BY <1>1, <2>1, <3>1 DEF OfferEvent
  <2>2. CASE NotReady \/ Refuse \/ Save
    BY <1>1, <2>2 DEF NotReady, Refuse, Save, Discard, MarkCommitted
  <2>3. CASE TakeEvent
    BY <1>1, <2>3 DEF TakeEvent
  <2>4. CASE Wait \/ TakeDeltas \/ ApplyDelta \/ Ready \/ Confirm \/ FailSave \/ Publish
    BY <1>1, <2>4 DEF Wait, TakeDeltas, ApplyDelta, Ready, Confirm, FailSave, Publish
  <2> QED
    BY <1>8, <2>1, <2>2, <2>3, <2>4 DEF Loop
<1>9. CASE Settle \/ UNCHANGED vars
  BY <1>1, <1>9 DEF Settle, vars
<1> QED
  BY <1>4, <1>5, <1>6, <1>7, <1>8, <1>9 DEF Next

(* The sequence grows by the acceptance of a reading only. *)
LEMMA SentGrows ==
  ASSUME TypeOK, ReadInv, [Next]_vars
  PROVE  sent \in Nat /\ sent' \in Nat /\ sent <= sent' /\ (at # "read" => sent' = sent)
<1>1. sent \in Nat
  BY DEF TypeOK
<1>2. sent' = sent \/ (sent' = sent + 1 /\ at = "read")
  <2> USE DEF leaseVars
  <2>1. CASE \E j \in Jobs : Job(j)
    BY <2>1, JobLeavesWorker
  <2>2. CASE Status
    BY <2>2 DEF Status, Poll, StatusCurrent, StatusDeferred, StatusTimeout, Read, Accept, EndStatus, ReadInv
  <2>3. CASE Callback \/ Loop
    BY <2>3 DEF Callback, ReadGuard, ReadSource, CheckGuard, AppendScoped, ReleaseFinished, FillSlot,
       Loop, Wait, NotReady, TakeEvent, TakeDeltas, ApplyDelta, OfferEvent, Ready, Confirm, Refuse,
       Save, FailSave, Publish
  <2> QED
    BY <2>1, <2>2, <2>3 DEF Next, Play, Settle, vars
<1> QED
  BY <1>1, <1>2

(* The steps that touch the buffers and what is shown. *)
LEMMA BufferCases ==
  ASSUME TypeOK, [Next]_vars
  PROVE  /\ \/ UNCHANGED scoped \/ scoped' = <<>>
            \/ at = "append" /\ scoped' = Append(scoped, [cursor |-> cursor + 1, ev |-> ev])
         /\ \/ UNCHANGED deltas \/ deltas' = <<>>
            \/ /\ at = "append"
               /\ deltas' = Append(deltas,
                    [source |-> source, seq |-> ev.seq,
                     items |-> [i \in DOMAIN ev.items \cap allowed |-> ev.items[i]]])
         /\ UNCHANGED taken \/ taken' = deltas \/ (taken # <<>> /\ taken' = Tail(taken))
         /\ \/ UNCHANGED overlay \/ overlay' = Empty
            \/ taken # <<>> /\ overlay' = Merged(Head(taken))
            \/ \E s : s.forced /\ overlay' = With(overlay, Target, s)
<1> USE DEF gameVars, leaseVars, bufVars, locals, stabVars, stateVars, dbVars, Goto
<1>1. CASE \E j \in Jobs : Job(j)
  <2>1. PICK j \in Jobs : Job(j)
    BY <1>1
  <2>2. UNCHANGED taken
    BY <2>1, JobLeavesWorker
  <2>3. UNCHANGED <<scoped, deltas>> \/ (scoped' = <<>> /\ deltas' = <<>>)
    BY <2>1 DEF Job, CheckListening, Pin, BeginGuard, RefuseGuard, Clear, ClearBuffers, ReadCursor,
       Dispatch, Project, FinishGuard, SeeSnapshot, SeeNone, FindPacket, FindNone, ReplaceSnapshot,
       EndGuard, ClearEnded
  <2>4. CASE Project(j)
    <3> DEFINE s == [state |-> TRUE, forced |-> TRUE, seq |-> IF at = "read" THEN ev.seq ELSE sent]
    <3>1. s.forced
      OBVIOUS
    <3>2. UNCHANGED overlay \/ overlay' = With(overlay, Target, s)
      BY <2>4 DEF Project
    <3> HIDE DEF s
    <3> QED
      BY <2>2, <2>3, <3>1, <3>2
  <2>5. CASE ~Project(j)
    <3>1. UNCHANGED overlay \/ overlay' = Empty
      BY <2>1, <2>5 DEF Job, CheckListening, Pin, BeginGuard, RefuseGuard, Clear, ReadCursor, Dispatch,
         FinishGuard, SeeSnapshot, SeeNone, FindPacket, FindNone, ReplaceSnapshot, Import,
         EndGuard, ClearEnded
    <3> QED
      BY <2>2, <2>3, <3>1
  <2> QED
    BY <2>4, <2>5
<1>2. CASE (\E i \in Items : Play(i)) \/ Settle \/ UNCHANGED vars
  BY <1>2 DEF Play, Settle, vars
<1>3. CASE Status
  BY <1>3 DEF Status, Poll, StatusCurrent, StatusDeferred, StatusTimeout, Read, Accept, EndStatus
<1>4. CASE Callback
  BY <1>4 DEF Callback, ReadGuard, ReadSource, CheckGuard, AppendScoped, ReleaseFinished, FillSlot
<1>5. CASE Loop
  BY <1>5 DEF Loop, Wait, NotReady, TakeEvent, TakeDeltas, ApplyDelta, OfferEvent, Ready, Confirm,
     Refuse, Save, Import, FailSave, Publish
<1> QED
  BY <1>1, <1>2, <1>3, <1>4, <1>5 DEF Next

(* The packet of a job is its own or a buffered one. *)
LEMMA PacketCases ==
  ASSUME TypeOK, NEW k \in Jobs, [Next]_vars
  PROVE  job'[k].packet = job[k].packet \/ \E n \in DOMAIN scoped : job'[k].packet = scoped[n].ev
<1>1. job \in [Jobs -> JobLocals] /\ job[k] \in JobLocals
  BY DEF TypeOK
<1>2. CASE UNCHANGED job
  BY <1>2
<1>3. CASE \E j \in Jobs : Job(j)
  <2>1. PICK j \in Jobs : Job(j)
    BY <1>3
  <2>2. CASE j # k
    BY <2>1, <2>2, JobOthers
  <2>3. CASE j = k
    <3>1. CASE FindPacket(k)
      <4>1. PICK n \in DOMAIN scoped :
              job' = [job EXCEPT ![k].pc = "import", ![k].packet = scoped[n].ev]
        BY <3>1 DEF FindPacket, Packets
      <4> QED
        BY <1>1, <4>1 DEF JobLocals
    <3>2. CASE Dispatch(k)
      <4>1. PICK q \in {"sent", "finishing"} :
              job' = [job EXCEPT ![k].pc = q, ![k].seen = sent]
        BY <3>2 DEF Dispatch
      <4> QED
        BY <1>1, <4>1 DEF JobLocals
    <3>3. CASE Pin(k) \/ BeginGuard(k) \/ ReadCursor(k)
      BY <1>1, <3>3 DEF Pin, BeginGuard, ReadCursor, JobLocals
    <3>4. ASSUME NEW p, NEW q, Step(k, p, q)
          PROVE  job'[k].packet = job[k].packet
      BY <1>1, <3>4 DEF Step, JobLocals
    <3> QED
      BY <2>1, <2>3, <3>1, <3>2, <3>3, <3>4 DEF Job, CheckListening, RefuseGuard, Clear, Project,
         FinishGuard, SeeSnapshot, SeeNone, FindNone, ReplaceSnapshot, EndGuard, ClearEnded
  <2> QED
    BY <2>2, <2>3
<1>4. (OfferEvent \/ ReleaseFinished \/ Quiet) => UNCHANGED job
  BY DEF OfferEvent, ReleaseFinished, Quiet
<1> QED
  BY <1>2, <1>3, <1>4, NextCases

(* What is buffered or shown is never later than the last event. *)
LEMMA BufferStep ==
  ASSUME TypeOK, ReadInv, BufferInv, [Next]_vars
  PROVE  BufferInv'
<1>1. sent \in Nat /\ sent' \in Nat /\ sent <= sent' /\ (at = "append" => ev.seq <= sent)
  BY SentGrows DEF ReadInv, Accepted
<1>2. /\ scoped \in Seq(Scoped) /\ deltas \in Seq(Deltas) /\ taken \in Seq(Deltas) /\ ev \in Events
      /\ \A j \in Jobs : job[j].packet \in Events
      /\ overlay \in [DOMAIN overlay -> States]
  BY DEF TypeOK, JobLocals
<1>3. /\ \A e \in Events : e.seq \in Nat
      /\ \A d \in Deltas : d.seq \in Nat
      /\ \A c \in Scoped : c.ev \in Events
      /\ \A s \in States : s.seq \in Nat
  BY DEF Events, Deltas, Scoped, States
<1>4. \A n \in DOMAIN scoped' : scoped'[n].ev.seq <= sent'
  <2>1. \A n \in DOMAIN scoped : scoped[n].ev.seq <= sent'
    BY <1>1, <1>2, <1>3 DEF BufferInv
  <2>2. CASE at = "append" /\ scoped' = Append(scoped, [cursor |-> cursor + 1, ev |-> ev])
    BY <1>1, <1>2, <1>3, <2>1, <2>2
  <2> QED
    BY <2>1, <2>2, BufferCases
<1>5. \A j \in Jobs : job'[j].packet.seq <= sent'
  <2> TAKE j \in Jobs
  <2>1. job[j].packet.seq <= sent /\ \A n \in DOMAIN scoped : scoped[n].ev.seq <= sent
    BY DEF BufferInv
  <2>2. job[j].packet.seq \in Nat /\ \A n \in DOMAIN scoped : scoped[n].ev.seq \in Nat
    BY <1>2, <1>3
  <2> QED
    BY <1>1, <2>1, <2>2, PacketCases
<1>6. \A n \in DOMAIN deltas' : deltas'[n].seq <= sent'
  <2>1. \A n \in DOMAIN deltas : deltas[n].seq <= sent'
    BY <1>1, <1>2, <1>3 DEF BufferInv
  <2> DEFINE d == [source |-> source, seq |-> ev.seq,
                   items |-> [i \in DOMAIN ev.items \cap allowed |-> ev.items[i]]]
  <2>2. CASE at = "append" /\ deltas' = Append(deltas, d)
    <3>1. d.seq = ev.seq
      OBVIOUS
    <3> HIDE DEF d
    <3> QED
      BY <1>1, <1>2, <1>3, <2>1, <2>2, <3>1
  <2> QED
    BY <2>1, <2>2, BufferCases
<1>7. \A n \in DOMAIN taken' : taken'[n].seq <= sent'
  <2>1. /\ \A n \in DOMAIN deltas : deltas[n].seq <= sent'
        /\ \A n \in DOMAIN taken : taken[n].seq <= sent'
    BY <1>1, <1>2, <1>3 DEF BufferInv
  <2>2. CASE taken # <<>> /\ taken' = Tail(taken)
    BY <1>2, <2>1, <2>2
  <2> QED
    BY <2>1, <2>2, BufferCases
<1>8. \A i \in DOMAIN overlay' : ~overlay'[i].forced => overlay'[i].seq <= sent'
  <2>1. \A i \in DOMAIN overlay : ~overlay[i].forced => overlay[i].seq <= sent'
    BY <1>1, <1>2, <1>3 DEF BufferInv
  <2>2. CASE taken # <<>> /\ overlay' = Merged(Head(taken))
    <3>1. Head(taken) \in Deltas /\ Head(taken).seq <= sent'
      <4>1. 1 \in DOMAIN taken /\ Head(taken) = taken[1] /\ taken[1] \in Deltas
        BY <1>2, <2>2
      <4> QED
        BY <1>1, <1>3, <4>1 DEF BufferInv
    <3> QED
      BY <2>1, <2>2, <3>1 DEF Merged
  <2>3. CASE \E s : s.forced /\ overlay' = With(overlay, Target, s)
    BY <2>1, <2>3 DEF With
  <2>4. CASE overlay' = Empty
    BY <2>4 DEF Empty
  <2> QED
    BY <2>1, <2>2, <2>3, <2>4, BufferCases
<1> QED
  BY <1>4, <1>5, <1>6, <1>7, <1>8 DEF BufferInv

(* What an offer does to the candidate and to the last sequence. *)
LEMMA OfferCases ==
  ASSUME NEW c, Offer(c)
  PROVE  \/ last' = last /\ cand' = c
         \/ ~(ev.seq <= last) /\ last' = ev.seq /\ cand' \in {c, Nothing, ev}
  BY DEF Offer, Ignored

(* A candidate is later than what the worker saved, and the last event when saved:
   a confirmed candidate has the accepted revision, which only the last one has. *)
LEMMA SaveStep ==
  ASSUME TypeOK, ReadInv, BufferInv, SaveInv, [Next]_vars
  PROVE  SaveInv'
<1>1. /\ sent \in Nat /\ sent' \in Nat /\ sent <= sent' /\ (at # "read" => sent' = sent)
      /\ db \in Seq(Snapshots) /\ cand \in Events /\ ev \in Events /\ last \in Nat
      /\ \A s \in Snapshots : s.seq \in Nat
      /\ \A e \in Events : e.seq \in Nat
  BY SentGrows DEF TypeOK, Snapshots, Events
<1>2. /\ cand.seq <= last
      /\ \A n \in 1 .. Len(db) :
           /\ db[n].seq <= sent
           /\ db[n].by = "worker" => db[n].seq <= last /\ (cand # Nothing => db[n].seq < cand.seq)
      /\ at \in {"confirm", "save"} => cand # Nothing
      /\ at = "save" => cand.seq = sent
  BY DEF SaveInv, Current
<1>3. ASSUME UNCHANGED <<cand, last, db>>, at' = at \/ at' \notin {"confirm", "save"}
      PROVE  SaveInv'
  BY <1>1, <1>2, <1>3 DEF SaveInv, Current
<1>4. ASSUME cand' = Nothing, UNCHANGED <<last, db>>, at' \notin {"confirm", "save"}
      PROVE  SaveInv'
  BY <1>1, <1>2, <1>4 DEF SaveInv, Current, Nothing
<1>5. ASSUME NEW e \in Events, e.seq <= sent, NEW who, Import(e, who)
      PROVE  /\ Len(db') = Len(db) + 1 /\ Len(db) \in Nat
             /\ db'[Len(db) + 1].seq = e.seq /\ db'[Len(db) + 1].by = who
             /\ \A n \in 1 .. Len(db) : db'[n] = db[n]
  BY <1>1, <1>5 DEF Import
<1> USE DEF gameVars, leaseVars, bufVars, locals, stabVars, stateVars, dbVars, Goto
<1>6. CASE \E j \in Jobs : Job(j)
  <2>1. PICK j \in Jobs : Job(j)
    BY <1>6
  <2>2. UNCHANGED <<at, cand, last>>
    BY <2>1, JobLeavesWorker
  <2>3. CASE UNCHANGED db
    BY <1>3, <2>2, <2>3
  <2>4. CASE Import(job[j].packet, "job")
    <3>1. job[j].packet \in Events /\ job[j].packet.seq <= sent
      BY DEF TypeOK, JobLocals, BufferInv
    <3>2. /\ Len(db') = Len(db) + 1 /\ Len(db) \in Nat
          /\ db'[Len(db) + 1].seq <= sent /\ db'[Len(db) + 1].by = "job"
          /\ \A n \in 1 .. Len(db) : db'[n] = db[n]
      BY <1>5, <2>4, <3>1
    <3>3. db'[Len(db) + 1].seq \in Nat /\ \A n \in 1 .. Len(db) : db[n].seq \in Nat
      BY <1>1, <1>5, <2>4, <3>1
    <3>4. \A n \in 1 .. Len(db') :
            /\ db'[n].seq <= sent'
            /\ db'[n].by = "worker" => db'[n].seq <= last /\ (cand # Nothing => db'[n].seq < cand.seq)
      <4> TAKE n \in 1 .. Len(db')
      <4>1. CASE n = Len(db) + 1
        BY <1>1, <3>2, <3>3, <4>1
      <4>2. CASE n \in 1 .. Len(db)
        BY <1>1, <1>2, <3>2, <3>3, <4>2
      <4> QED
        BY <3>2, <4>1, <4>2
    <3> QED
      BY <1>1, <1>2, <2>2, <3>4 DEF SaveInv, Current
  <2> QED
    BY <2>1, <2>3, <2>4, JobKeeps
<1>7. CASE (\E i \in Items : Play(i)) \/ Settle \/ UNCHANGED vars
  BY <1>3, <1>7 DEF Play, Settle, vars
<1>8. CASE Status
  BY <1>3, <1>8 DEF Status, Poll, StatusCurrent, StatusDeferred, StatusTimeout, Read, Accept, EndStatus
<1>9. CASE Callback
  BY <1>3, <1>9 DEF Callback, ReadGuard, ReadSource, CheckGuard, AppendScoped, ReleaseFinished, FillSlot
<1>10. CASE Loop
  <2>1. CASE OfferEvent
    <3>1. /\ at' = "settle" /\ UNCHANGED <<db, sent>> /\ Offer(Kept)
          /\ Kept = cand \/ Kept = Nothing
      BY <2>1 DEF OfferEvent, Kept
    <3>2. CASE last' = last /\ cand' = Kept
      BY <1>3, <1>4, <3>1, <3>2
    <3>3. CASE ev.seq > last /\ last' = ev.seq /\ cand' \in {Kept, Nothing, ev}
      <4>1. \A n \in 1 .. Len(db) : db[n].seq \in Nat
        BY <1>1
      <4>2. Nothing.seq = 0 /\ ev.seq \in Nat /\ cand.seq \in Nat
        BY <1>1 DEF Nothing
      <4>3. cand'.seq <= last'
        BY <1>1, <1>2, <3>1, <3>3, <4>2
      <4>4. \A n \in 1 .. Len(db) : db[n].by = "worker" =>
              db[n].seq <= last' /\ (cand' # Nothing => db[n].seq < cand'.seq)
        BY <1>1, <1>2, <3>1, <3>3, <4>1, <4>2
      <4> QED
        BY <1>2, <3>1, <4>3, <4>4 DEF SaveInv, Current
    <3>4. \/ last' = last /\ cand' = Kept
          \/ ev.seq > last /\ last' = ev.seq /\ cand' \in {Kept, Nothing, ev}
      BY <1>1, <3>1, OfferCases
    <3> QED
      BY <3>2, <3>3, <3>4
  <2>2. CASE NotReady \/ Refuse
    BY <1>4, <2>2 DEF NotReady, Refuse, Discard
  <2>3. CASE Ready
    BY <1>1, <1>2, <2>3 DEF Ready, SaveInv, Current
  <2>4. CASE Confirm
    <3>1. cand.rev = accepted
      BY <2>4 DEF Confirm, Confirmed
    <3>2. cand.seq = sent
      BY <3>1 DEF ReadInv, Accepted
    <3> QED
      BY <1>2, <2>4, <3>2 DEF Confirm, SaveInv, Current
  <2>5. CASE Save
    <3>1. /\ at = "save" /\ at' = "publish" /\ cand' = Nothing /\ UNCHANGED <<last, sent>>
          /\ Import(cand, "worker")
      BY <2>5 DEF Save, MarkCommitted
    <3>2. /\ Len(db') = Len(db) + 1 /\ Len(db) \in Nat
          /\ db'[Len(db) + 1].seq = cand.seq
          /\ \A n \in 1 .. Len(db) : db'[n] = db[n]
      BY <1>1, <1>2, <1>5, <3>1
    <3>3. \A n \in 1 .. Len(db') :
            db'[n].seq <= sent /\ (db'[n].by = "worker" => db'[n].seq <= last)
      <4> TAKE n \in 1 .. Len(db')
      <4>1. CASE n = Len(db) + 1
        BY <1>1, <1>2, <3>1, <3>2, <4>1
      <4>2. CASE n \in 1 .. Len(db)
        BY <1>2, <3>2, <4>2
      <4> QED
        BY <3>2, <4>1, <4>2
    <3> QED
      BY <1>1, <3>1, <3>3 DEF SaveInv, Current, Nothing
  <2>6. CASE Wait \/ TakeEvent \/ TakeDeltas \/ ApplyDelta \/ FailSave \/ Publish
    BY <1>3, <2>6 DEF Wait, TakeEvent, TakeDeltas, ApplyDelta, FailSave, Publish
  <2> QED
    BY <1>10, <2>1, <2>2, <2>3, <2>4, <2>5, <2>6 DEF Loop
<1> QED
  BY <1>6, <1>7, <1>8, <1>9, <1>10 DEF Next

-----------------------------------------------------------------------------
(* The theorems *)

(* Every step keeps the types. *)
LEMMA TypeStep ==
  ASSUME TypeOK, SavedInv, PlanInv, [Next]_vars
  PROVE  TypeOK'
<1>1. CASE Settle
  BY <1>1 DEF Settle, TypeOK, Current, gameVars, leaseVars, bufVars, locals, stabVars, stateVars, dbVars
<1>2. CASE UNCHANGED vars
  BY <1>2 DEF TypeOK, Current, vars, gameVars, leaseVars, bufVars, locals, stabVars, stateVars, dbVars
<1> QED
  BY <1>1, <1>2, GameType, StatusType, CallbackType, LoopType, JobType DEF Next

(* The synchronisation starts in the invariant. *)
LEMMA InitInv ==
  ASSUME Init
  PROVE  IInv
<1>1. /\ \A j \in Jobs : /\ job[j].pc = "idle" /\ job[j].packet = Nothing
      /\ job \in [Jobs -> JobLocals]
  BY NothingType DEF Init, JobLocals, JobStages
<1>2. world \in Contents
  <2>1. PICK S \in SUBSET Items : world = [i \in S |-> FALSE]
    BY DEF Init
  <2>2. DOMAIN world = S /\ world \in [S -> BOOLEAN]
    BY <2>1
  <2> QED
    BY <2>2 DEF Contents
<1>3. /\ Len(db) = 1 /\ db[1] = [items |-> world, seq |-> 0, by |-> "worker"]
      /\ db \in Seq(Snapshots)
  <2> DEFINE s == [items |-> world, seq |-> 0, by |-> "worker"]
  <2>1. s \in Snapshots
    BY <1>2 DEF Snapshots
  <2>2. db = <<s>>
    BY DEF Init
  <2> HIDE DEF s
  <2>3. Len(db) = 1 /\ db[1] = s /\ db \in Seq(Snapshots)
    BY <2>1, <2>2
  <2> QED
    BY <2>3 DEF s
<1>4. /\ guard = [token |-> 0, uids |-> {}, source |-> 0, finished |-> FALSE, gen |-> 0]
      /\ guard \in Guards
  BY DEF Init, Guards
<1>5. TypeOK
  <2>1. 1 \in 1 .. Len(db) /\ base \in Contents
    BY <1>2, <1>3 DEF Init
  <2>2. scoped \in Seq(Scoped) /\ deltas \in Seq(Deltas) /\ taken \in Seq(Deltas)
    BY DEF Init
  <2>3. DOMAIN overlay = {} /\ overlay \in [{} -> States]
    BY DEF Init, Empty
  <2>4. fails \in 0 .. MaxFails /\ timeouts \in 0 .. MaxTimeouts
    BY ConstantsAssumption DEF Init
  <2> QED
    BY <1>1, <1>2, <1>3, <1>4, <2>1, <2>2, <2>3, <2>4, NothingType
    DEF Init, TypeOK, Current, Stages, Phases
<1>6. SavedInv
  BY <1>3 DEF SavedInv, Current
<1>7. PlanInv /\ TokenInv /\ GuardOwnership
  BY <1>1, <1>4 DEF Init, PlanInv, TokenInv, GuardOwnership, Guarding
<1>8. GuardedCandidateFull /\ ReadInv
  BY DEF Init, GuardedCandidateFull, ReadInv, Accepted, Nothing
<1>9. BufferInv
  BY <1>1 DEF Init, BufferInv, Nothing, Empty
<1>10. SaveInv
  BY <1>3 DEF Init, SaveInv, Current, Nothing
<1> QED
  BY <1>5, <1>6, <1>7, <1>8, <1>9, <1>10 DEF IInv

(* Every step keeps the invariant. *)
LEMMA Inductive ==
  IInv /\ [Next]_vars => IInv'
  BY TypeStep, SavedStep, PlanStep, GuardStep, CandidateStep, ReadStep, BufferStep, SaveStep
  DEF IInv

(* The inductive invariant, for all items, jobs and bounds. *)
THEOREM SyncInvariant == Spec => []IInv
  BY InitInv, Inductive, PTL DEF Spec

(* The state keeps its types, and a published snapshot exists. *)
THEOREM SyncTypeCorrect == Spec => []TypeOK
<1>1. IInv => TypeOK
  BY DEF IInv
<1> QED
  BY <1>1, SyncInvariant, PTL

(* A job owns its guard from the installation to the end: no other job takes it
   over, and no response with all items and no stale token releases it. *)
THEOREM GuardOwned == Spec => []GuardOwnership
<1>1. IInv => GuardOwnership
  BY DEF IInv
<1> QED
  BY <1>1, SyncInvariant, PTL

(* Under a known guard the candidate has exactly the frozen items: a response
   that lacks some never replaces the inventory. *)
THEOREM CandidatesFull == Spec => []GuardedCandidateFull
<1>1. IInv => GuardedCandidateFull
  BY DEF IInv
<1> QED
  BY <1>1, SyncInvariant, PTL

(* The worker never saves an inventory older than the current one or than a
   state that was observed on top of it. *)
THEOREM SavesInOrder == Spec => SaveNeverRegresses
<1>1. ASSUME IInv
      PROVE  Save => /\ db[Current].seq <= cand.seq
                     /\ db[Current].by = "worker" => db[Current].seq < cand.seq
                     /\ \A i \in DOMAIN overlay : ~overlay[i].forced => overlay[i].seq <= cand.seq
  <2> SUFFICES ASSUME Save
               PROVE  /\ db[Current].seq <= cand.seq
                      /\ db[Current].by = "worker" => db[Current].seq < cand.seq
                      /\ \A i \in DOMAIN overlay : ~overlay[i].forced => overlay[i].seq <= cand.seq
    OBVIOUS
  <2>1. cand.seq = sent /\ cand # Nothing
    BY <1>1 DEF IInv, SaveInv, Save, Goto
  <2>2. Current \in 1 .. Current
    BY <1>1 DEF IInv, TypeOK, Current
  <2> QED
    BY <1>1, <2>1, <2>2 DEF IInv, SaveInv, BufferInv
<1> QED
  BY <1>1, SyncInvariant, PTL DEF SaveNeverRegresses

-----------------------------------------------------------------------------
(* The promise: what is shown are readings of the game *)

(* What is accepted is the reading that follows the last one. *)
LEMMA ReadingsCases ==
  ASSUME IInv, PromiseInv, [Next]_vars
  PROVE  \/ UNCHANGED leaseVars
         \/ Accept /\ Fresh /\ sent' = sent + 1 /\ readings' = With(readings, sent + 1, world)
<1>1. Accept /\ Fresh => sent' = sent + 1 /\ readings' = With(readings, sent + 1, world)
  BY DEF Accept, Fresh, IInv, ReadInv, PromiseInv
<1>2. Status => UNCHANGED leaseVars \/ (Accept /\ Fresh)
  BY DEF Status, Poll, StatusCurrent, StatusDeferred, StatusTimeout, Read, Accept, EndStatus
<1>3. Callback \/ Loop \/ Settle \/ UNCHANGED vars \/ (\E i \in Items : Play(i)) => UNCHANGED leaseVars
  BY DEF Callback, ReadGuard, ReadSource, CheckGuard, AppendScoped, ReleaseFinished, FillSlot, Loop,
     Wait, NotReady, TakeEvent, TakeDeltas, ApplyDelta, OfferEvent, Ready, Confirm, Refuse, Save,
     FailSave, Publish, Settle, Play, vars
<1>4. (\E j \in Jobs : Job(j)) => UNCHANGED leaseVars
  BY DEF Job, CheckListening, Pin, BeginGuard, RefuseGuard, Clear, ReadCursor, Dispatch, Project,
     FinishGuard, SeeSnapshot, SeeNone, FindPacket, FindNone, ReplaceSnapshot, EndGuard, ClearEnded
<1> QED
  BY <1>1, <1>2, <1>3, <1>4 DEF Next

(* Readings are kept, in the order of their sequences. *)
LEMMA ReadingsGrow ==
  ASSUME IInv, PromiseInv, [Next]_vars
  PROVE  /\ sent \in Nat /\ sent' \in Nat /\ sent <= sent'
         /\ DOMAIN readings' = 0 .. sent'
         /\ \A n \in 0 .. sent : readings'[n] = readings[n]
<1>1. sent \in Nat /\ DOMAIN readings = 0 .. sent
  BY DEF IInv, TypeOK, PromiseInv
<1>2. CASE UNCHANGED leaseVars
  BY <1>1, <1>2 DEF leaseVars
<1>3. CASE sent' = sent + 1 /\ readings' = With(readings, sent + 1, world)
  <2>1. 0 .. sent + 1 = (0 .. sent) \cup {sent + 1}
    BY <1>1
  <2> QED
    BY <1>1, <1>3, <2>1 DEF With
<1> QED
  BY <1>2, <1>3, ReadingsCases

(* A reading remains one. *)
LEMMA ReadingStays ==
  ASSUME IInv, PromiseInv, [Next]_vars, NEW e, Reading(e)
  PROVE  Reading(e)'
<1>1. /\ sent \in Nat /\ sent' \in Nat /\ sent <= sent'
      /\ \A n \in 0 .. sent : readings'[n] = readings[n]
  BY ReadingsGrow
<1> QED
  BY <1>1 DEF Reading

(* Snapshots are kept. *)
LEMMA SnapshotsStay ==
  ASSUME IInv, [Next]_vars
  PROVE  /\ Len(db) \in Nat /\ Len(db') \in Nat /\ Len(db) <= Len(db')
         /\ \A n \in 1 .. Len(db) : db'[n] = db[n]
<1>1. db \in Seq(Snapshots) /\ TypeOK
  BY DEF IInv, TypeOK
<1> QED
  BY <1>1, DbGrows

(* What was observed remains so. *)
LEMMA ObservedStays ==
  ASSUME IInv, PromiseInv, [Next]_vars, NEW d, Observed(d)
  PROVE  Observed(d)'
<1>1. /\ sent \in Nat /\ sent' \in Nat /\ sent <= sent'
      /\ \A n \in 0 .. sent : readings'[n] = readings[n]
  BY ReadingsGrow
<1>2. /\ Len(db) \in Nat /\ Len(db') \in Nat /\ Len(db) <= Len(db')
      /\ \A n \in 1 .. Len(db) : db'[n] = db[n]
  BY SnapshotsStay
<1> QED
  BY <1>1, <1>2 DEF Observed, Current

(* The worker's event, as the promise needs it. *)
EventInv ==
  /\ at = "read" => ev.rev <= rev /\ (ev.rev = rev => ev.items = world)
  /\ at \in Emitting \cup {"deltas", "apply"} => Reading(ev)
  /\ at \in Emitting => ev.seq = sent
  /\ slot # Nothing => Reading(slot)
  /\ cand # Nothing => Reading(cand)

(* Events come from readings, and so do the slot and the candidate. *)
LEMMA EventStep ==
  ASSUME IInv, PromiseInv, [Next]_vars
  PROVE  EventInv'
<1>1. /\ rev \in Nat /\ sent \in Nat /\ ev \in Events /\ ev.rev \in Nat /\ ev.seq \in Nat
      /\ EventInv /\ TypeOK /\ DOMAIN readings = 0 .. sent
  BY DEF IInv, TypeOK, Events, PromiseInv, EventInv
<1>2. \A e : Reading(e) => Reading(e)'
  BY ReadingStays
<1> USE DEF gameVars, leaseVars, bufVars, locals, stabVars, stateVars, dbVars, Goto
<1>3. ASSUME UNCHANGED <<leaseVars, slot, at, ev, cand>>,
             (UNCHANGED gameVars) \/ rev' = rev + 1
      PROVE  EventInv'
  BY <1>1, <1>2, <1>3 DEF EventInv
<1>4. CASE \E i \in Items : Play(i)
  BY <1>3, <1>4 DEF Play, Change
<1>5. CASE \E j \in Jobs : Job(j)
  <2>1. PICK j \in Jobs : Job(j)
    BY <1>5
  <2>2. UNCHANGED <<slot, at, ev, cand>>
    BY <1>1, <2>1, JobLeavesWorker
  <2>3. UNCHANGED leaseVars /\ (UNCHANGED gameVars \/ rev' = rev + 1)
    BY <2>1 DEF Job, CheckListening, Pin, BeginGuard, RefuseGuard, Clear, ReadCursor, Dispatch,
       Change, Project, FinishGuard, SeeSnapshot, SeeNone, FindPacket, FindNone, ReplaceSnapshot,
       EndGuard, ClearEnded
  <2> QED
    BY <1>3, <2>2, <2>3
<1>6. CASE Read
  BY <1>1, <1>2, <1>6 DEF Read, EventInv, Emitting
<1>7. CASE Accept
  <2>1. CASE Fresh
    <3>1. /\ at' = "emit" /\ sent' = ev.seq /\ sent' = sent + 1 /\ UNCHANGED <<ev, slot, cand>>
          /\ readings' = With(readings, ev.seq, ev.items)
      BY <1>7, <2>1 DEF Accept, Fresh, IInv, ReadInv
    <3>2. ev.seq \in 1 .. sent' /\ readings'[ev.seq] = ev.items
      <4>1. ev.seq \in 1 .. ev.seq
        BY <1>1, <3>1
      <4>2. With(readings, ev.seq, ev.items)[ev.seq] = ev.items
        BY DEF With
      <4> QED
        BY <3>1, <4>1, <4>2
    <3> QED
      BY <1>1, <1>2, <3>1, <3>2 DEF EventInv, Reading
  <2>2. CASE ~Fresh
    BY <1>1, <1>2, <1>7, <2>2 DEF Accept, EventInv, Emitting
  <2> QED
    BY <2>1, <2>2
<1>8. CASE Poll \/ StatusCurrent \/ StatusDeferred \/ StatusTimeout \/ EndStatus
  BY <1>1, <1>2, <1>8 DEF Poll, StatusCurrent, StatusDeferred, StatusTimeout, EndStatus, EventInv,
     Emitting
<1>9. CASE Callback
  BY <1>1, <1>2, <1>9 DEF Callback, ReadGuard, ReadSource, CheckGuard, AppendScoped,
     ReleaseFinished, FillSlot, EventInv, Emitting
<1>10. CASE Loop
  <2>1. CASE OfferEvent
    <3>1. cand' \in {cand, ev, Nothing} /\ at = "apply" /\ at' = "settle"
      BY <2>1 DEF OfferEvent, Offer, Kept
    <3> QED
      BY <1>1, <1>2, <2>1, <3>1 DEF OfferEvent, EventInv, Emitting
  <2>2. CASE NotReady \/ Refuse \/ Save
    BY <1>1, <1>2, <2>2 DEF NotReady, Refuse, Save, Discard, MarkCommitted, EventInv, Emitting
  <2>3. CASE TakeEvent
    BY <1>1, <1>2, <2>3 DEF TakeEvent, EventInv, Emitting
  <2>4. CASE Wait \/ TakeDeltas \/ ApplyDelta \/ Ready \/ Confirm \/ FailSave \/ Publish
    BY <1>1, <1>2, <2>4 DEF Wait, TakeDeltas, ApplyDelta, Ready, Confirm, FailSave, Publish,
       EventInv, Emitting
  <2> QED
    BY <1>10, <2>1, <2>2, <2>3, <2>4 DEF Loop
<1>11. CASE Settle \/ UNCHANGED vars
  BY <1>1, <1>2, <1>11 DEF Settle, vars, EventInv
<1> QED
  BY <1>4, <1>5, <1>6, <1>7, <1>8, <1>9, <1>10, <1>11 DEF Next, Status

(* A job that imports has found its packet in the buffer. *)
LEMMA ImportCases ==
  ASSUME TypeOK, NEW k \in Jobs, [Next]_vars, job'[k].pc = "import"
  PROVE  \/ job[k].pc = "import" /\ job'[k].packet = job[k].packet
         \/ \E n \in DOMAIN scoped : job'[k].packet = scoped[n].ev
<1>1. job \in [Jobs -> JobLocals] /\ job[k] \in JobLocals
  BY DEF TypeOK
<1>2. CASE UNCHANGED job
  BY <1>2
<1>3. CASE \E j \in Jobs : Job(j)
  <2>1. PICK j \in Jobs : Job(j)
    BY <1>3
  <2>2. CASE j # k
    BY <2>1, <2>2, JobOthers
  <2>3. CASE j = k
    <3>1. CASE FindPacket(k)
      <4>1. PICK n \in DOMAIN scoped :
              job' = [job EXCEPT ![k].pc = "import", ![k].packet = scoped[n].ev]
        BY <3>1 DEF FindPacket, Packets
      <4> QED
        BY <1>1, <4>1 DEF JobLocals
    <3>2. CASE Dispatch(k)
      <4>1. PICK q \in {"sent", "finishing"} :
              job' = [job EXCEPT ![k].pc = q, ![k].seen = sent]
        BY <3>2 DEF Dispatch
      <4>2. job'[k].pc = q
        BY <1>1, <4>1 DEF JobLocals
      <4> QED
        BY <4>2
    <3>3. CASE Pin(k) \/ BeginGuard(k) \/ ReadCursor(k)
      BY <1>1, <3>3 DEF Pin, BeginGuard, ReadCursor, JobLocals
    <3>4. ASSUME NEW p, NEW q, q # "import", Step(k, p, q)
          PROVE  FALSE
      BY <1>1, <3>4 DEF Step, JobLocals
    <3> QED
      BY <2>1, <2>3, <3>1, <3>2, <3>3, <3>4 DEF Job, CheckListening, RefuseGuard, Clear, Project,
         FinishGuard, SeeSnapshot, SeeNone, FindNone, ReplaceSnapshot, EndGuard, ClearEnded
  <2> QED
    BY <2>2, <2>3
<1>4. (OfferEvent \/ ReleaseFinished \/ Quiet) => UNCHANGED job
  BY DEF OfferEvent, ReleaseFinished, Quiet
<1> QED
  BY <1>2, <1>3, <1>4, NextCases

(* The buffered events and the packets of the jobs, as the promise needs them. *)
PacketInv ==
  /\ \A n \in DOMAIN scoped : Reading(scoped[n].ev)
  /\ \A j \in Jobs : job[j].pc = "import" => Reading(job[j].packet)

(* What is buffered, or found there by a job, are readings. *)
LEMMA PacketStep ==
  ASSUME IInv, PromiseInv, [Next]_vars
  PROVE  PacketInv'
<1> DEFINE Later(e) == e.seq \in 1 .. sent' /\ e.items = readings'[e.seq]
<1>1. TypeOK /\ scoped \in Seq(Scoped)
  BY DEF IInv, TypeOK
<1>2. \A e : Reading(e) => Later(e)
  BY ReadingStays DEF Reading
<1>3. \A n \in DOMAIN scoped : Later(scoped[n].ev)
  BY <1>2 DEF PromiseInv
<1>4. \A n \in DOMAIN scoped' : Later(scoped'[n].ev)
  <2>1. CASE at = "append" /\ scoped' = Append(scoped, [cursor |-> cursor + 1, ev |-> ev])
    <3>1. Later(ev)
      BY <1>2, <2>1 DEF PromiseInv, Emitting
    <3>2. \A n \in DOMAIN scoped' : scoped'[n].ev = ev \/ (n \in DOMAIN scoped /\ scoped'[n] = scoped[n])
      BY <1>1, <2>1
    <3> HIDE DEF Later
    <3> QED
      BY <1>3, <3>1, <3>2
  <2>2. CASE UNCHANGED scoped \/ scoped' = <<>>
    BY <1>3, <2>2
  <2> QED
    BY <1>1, <2>1, <2>2, BufferCases
<1>5. \A j \in Jobs : job'[j].pc = "import" => Later(job'[j].packet)
  <2> SUFFICES ASSUME NEW j \in Jobs, job'[j].pc = "import"
               PROVE  Later(job'[j].packet)
    OBVIOUS
  <2> HIDE DEF Later
  <2>1. CASE job[j].pc = "import" /\ job'[j].packet = job[j].packet
    BY <1>2, <2>1 DEF PromiseInv
  <2>2. CASE \E n \in DOMAIN scoped : job'[j].packet = scoped[n].ev
    BY <1>3, <2>2
  <2> QED
    BY <1>1, <2>1, <2>2, ImportCases
<1> QED
  BY <1>4, <1>5 DEF PacketInv, Reading

(* The snapshots that a guard, and the worker's copy of it, are about. *)
SourceInv == guard.source \in 0 .. Current /\ source \in 0 .. Current

(* The worker copies the source of a guard, and a guard has that of its job's plan. *)
LEMMA SourceStep ==
  ASSUME IInv, PromiseInv, [Next]_vars
  PROVE  SourceInv'
<1>1. TypeOK /\ guard \in Guards /\ guard.source \in 0 .. Len(db) /\ source \in 0 .. Len(db)
  BY DEF IInv, TypeOK, PromiseInv, Current
<1>2. Len(db) \in Nat /\ Len(db') \in Nat /\ Len(db) <= Len(db')
  BY SnapshotsStay
<1>3. guard'.source \in 0 .. Len(db)
  <2>1. Quiet \/ OfferEvent => UNCHANGED guard
    BY DEF Quiet, OfferEvent
  <2>2. ReleaseFinished => UNCHANGED guard \/ guard' = NoGuard
    BY DEF ReleaseFinished
  <2>3. ASSUME NEW j \in Jobs, Job(j)
        PROVE  guard'.source \in 0 .. Len(db)
    <3>1. CASE BeginGuard(j)
      <4>1. job[j].plan \in 1 .. Len(db)
        BY <3>1 DEF BeginGuard, IInv, PlanInv, Current
      <4>2. guard'.source = job[j].plan
        BY <3>1 DEF BeginGuard
      <4> QED
        BY <1>2, <4>1, <4>2
    <3>2. CASE FinishGuard(j)
      BY <1>1, <3>2 DEF FinishGuard, Guards
    <3>3. CASE EndGuard(j)
      <4>1. guard' = guard \/ guard'.source = 0
        BY <3>3 DEF EndGuard, NoGuard
      <4> QED
        BY <1>1, <1>2, <4>1
    <3> QED
      BY <1>1, <2>3, <3>1, <3>2, <3>3, JobGuard
  <2>4. NoGuard.source \in 0 .. Len(db)
    BY <1>2 DEF NoGuard
  <2> QED
    BY <1>1, <2>1, <2>2, <2>3, <2>4, NextCases
<1>4. source' = source \/ source' = guard.source
  <2> USE DEF locals, gameVars, leaseVars, bufVars, stabVars, stateVars, dbVars
  <2>1. Status \/ Loop \/ Settle \/ UNCHANGED vars \/ (\E i \in Items : Play(i)) => UNCHANGED source
    BY DEF Status, Poll, StatusCurrent, StatusDeferred, StatusTimeout, Read, Accept, EndStatus, Loop,
       Wait, NotReady, TakeEvent, TakeDeltas, ApplyDelta, OfferEvent, Ready, Confirm, Refuse, Save,
       FailSave, Publish, Settle, Play, vars
  <2>2. (\E j \in Jobs : Job(j)) => UNCHANGED source
    BY DEF Job, CheckListening, Pin, BeginGuard, RefuseGuard, Clear, ReadCursor, Dispatch, Project,
       FinishGuard, SeeSnapshot, SeeNone, FindPacket, FindNone, ReplaceSnapshot, EndGuard, ClearEnded
  <2>3. Callback => source' = source \/ source' = guard.source
    BY DEF Callback, ReadGuard, ReadSource, CheckGuard, AppendScoped, ReleaseFinished, FillSlot
  <2> QED
    BY <2>1, <2>2, <2>3 DEF Next
<1> QED
  <2>1. source' \in 0 .. Len(db)
    BY <1>1, <1>4
  <2> QED
    BY <1>2, <1>3, <2>1 DEF SourceInv, Current

(* The observed states that are on their way to the database. *)
DeltaInv ==
  /\ \A n \in DOMAIN deltas : Observed(deltas[n])
  /\ \A n \in DOMAIN taken : Observed(taken[n])

(* The callback adds to them only. *)
LEMMA DeltaCases ==
  ASSUME [Next]_vars
  PROVE  UNCHANGED deltas \/ deltas' = <<>> \/ AppendScoped
<1> USE DEF locals, gameVars, leaseVars, bufVars, stabVars, stateVars, dbVars
<1>1. Status \/ Loop \/ Settle \/ UNCHANGED vars \/ (\E i \in Items : Play(i))
        => UNCHANGED deltas \/ deltas' = <<>>
  BY DEF Status, Poll, StatusCurrent, StatusDeferred, StatusTimeout, Read, Accept, EndStatus, Loop,
     Wait, NotReady, TakeEvent, TakeDeltas, ApplyDelta, OfferEvent, Ready, Confirm, Refuse, Save,
     FailSave, Publish, Settle, Play, vars
<1>2. (\E j \in Jobs : Job(j)) => UNCHANGED deltas \/ deltas' = <<>>
  BY DEF Job, CheckListening, Pin, BeginGuard, RefuseGuard, Clear, ClearBuffers, ReadCursor, Dispatch,
     Project, FinishGuard, SeeSnapshot, SeeNone, FindPacket, FindNone, ReplaceSnapshot, EndGuard,
     ClearEnded
<1>3. Callback => UNCHANGED deltas \/ AppendScoped
  BY DEF Callback, ReadGuard, ReadSource, CheckGuard, ReleaseFinished, FillSlot
<1> QED
  BY <1>1, <1>2, <1>3 DEF Next

(* What the callback adds is observed: its event is the last reading, and no
   snapshot is later than that. *)
LEMMA AppendObserved ==
  ASSUME IInv, PromiseInv, AppendScoped, source # 0
  PROVE  Observed([source |-> source, seq |-> ev.seq,
                   items |-> [i \in DOMAIN ev.items \cap allowed |-> ev.items[i]]])
<1> DEFINE d == [source |-> source, seq |-> ev.seq,
                 items |-> [i \in DOMAIN ev.items \cap allowed |-> ev.items[i]]]
<1>1. Reading(ev) /\ ev.seq = sent /\ source \in 0 .. Len(db) /\ Len(db) \in Nat
  BY DEF PromiseInv, AppendScoped, Emitting, Current, IInv, TypeOK
<1>2. source \in 1 .. Len(db)
  BY <1>1
<1>3. db[source].seq <= sent
  BY <1>2 DEF IInv, SaveInv, Current
<1>4. /\ d.source = source /\ d.seq = ev.seq
      /\ DOMAIN d.items = DOMAIN ev.items \cap allowed
      /\ \A i \in DOMAIN d.items : i \in DOMAIN ev.items /\ d.items[i] = ev.items[i]
  OBVIOUS
<1> HIDE DEF d
<1>5. Observed(d)
  BY <1>1, <1>2, <1>3, <1>4 DEF Observed, Reading, Current
<1> QED
  BY <1>5 DEF d

(* The observed states remain those of readings. *)
LEMMA DeltaStep ==
  ASSUME IInv, PromiseInv, [Next]_vars
  PROVE  DeltaInv'
<1> DEFINE Later(d) == /\ d.seq \in 1 .. sent' /\ d.source \in 1 .. Len(db')
                       /\ db'[d.source].seq <= d.seq
                       /\ \A i \in DOMAIN d.items : /\ i \in DOMAIN readings'[d.seq]
                                                   /\ d.items[i] = readings'[d.seq][i]
<1>1. TypeOK /\ deltas \in Seq(Deltas) /\ taken \in Seq(Deltas)
  BY DEF IInv, TypeOK
<1>2. \A d : Observed(d) => Later(d)
  BY ObservedStays DEF Observed, Current
<1>3. /\ \A n \in DOMAIN deltas : Later(deltas[n])
      /\ \A n \in DOMAIN taken : Later(taken[n])
  BY <1>2 DEF PromiseInv
<1>4. \A n \in DOMAIN deltas' : Later(deltas'[n])
  <2>1. CASE AppendScoped
    <3> DEFINE d == [source |-> source, seq |-> ev.seq,
                     items |-> [i \in DOMAIN ev.items \cap allowed |-> ev.items[i]]]
    <3>1. source # 0 => Later(d)
      BY <1>2, <2>1, AppendObserved
    <3>2. IF source = 0 THEN deltas' = deltas ELSE deltas' = Append(deltas, d)
      BY <2>1 DEF AppendScoped
    <3> HIDE DEF d, Later
    <3>3. source # 0 => \A n \in DOMAIN deltas' :
            deltas'[n] = d \/ (n \in DOMAIN deltas /\ deltas'[n] = deltas[n])
      BY <1>1, <3>2
    <3> QED
      BY <1>3, <3>1, <3>2, <3>3
  <2>2. CASE UNCHANGED deltas \/ deltas' = <<>>
    BY <1>3, <2>2
  <2> QED
    BY <2>1, <2>2, DeltaCases
<1>5. \A n \in DOMAIN taken' : Later(taken'[n])
  <2> HIDE DEF Later
  <2>1. CASE UNCHANGED taken \/ taken' = deltas
    BY <1>3, <2>1
  <2>2. CASE taken # <<>> /\ taken' = Tail(taken)
    <3>1. \A n \in DOMAIN taken' : n + 1 \in DOMAIN taken /\ taken'[n] = taken[n + 1]
      BY <1>1, <2>2
    <3> QED
      BY <1>3, <3>1
  <2> QED
    BY <1>1, <2>1, <2>2, BufferCases
<1> QED
  BY <1>4, <1>5 DEF DeltaInv, Observed, Current

(* Every step keeps what the promise needs. *)
LEMMA PromiseInductive ==
  IInv /\ PromiseInv /\ [Next]_vars => PromiseInv'
<1> SUFFICES ASSUME IInv, PromiseInv, [Next]_vars
             PROVE  PromiseInv'
  OBVIOUS
<1>1. DOMAIN readings' = 0 .. sent'
  BY ReadingsGrow
<1> QED
  BY <1>1, EventStep, PacketStep, SourceStep, DeltaStep
  DEF PromiseInv, EventInv, PacketInv, SourceInv, DeltaInv

(* The synchronisation starts with one reading, that of the baseline. *)
LEMMA PromiseInit ==
  ASSUME Init
  PROVE  PromiseInv
<1>1. \A j \in Jobs : job[j].pc = "idle"
  BY DEF Init
<1>2. Len(db) = 1 /\ guard.source = 0 /\ source = 0
  BY DEF Init
<1> QED
  BY <1>1, <1>2 DEF Init, PromiseInv, Emitting, Current

-----------------------------------------------------------------------------
(* Each step is one of the promise, or none *)

AbstractStep == [Promise!Next]_<<world, readings, db, overlay>>

(* The latest reading has the last sequence. *)
LEMMA LatestReading ==
  ASSUME PromiseInv, sent \in Nat
  PROVE  Promise!Latest = sent /\ sent \in DOMAIN readings
<1>0. DOMAIN readings = 0 .. sent
  BY DEF PromiseInv
<1>1. sent \in DOMAIN readings /\ \A n \in DOMAIN readings : n <= sent
  BY <1>0
<1>2. \A n \in DOMAIN readings : (\A m \in DOMAIN readings : m <= n) => n = sent
  <2> TAKE n \in DOMAIN readings
  <2> HAVE \A m \in DOMAIN readings : m <= n
  <2>1. n \in 0 .. sent /\ sent <= n
    BY <1>0, <1>1
  <2> QED
    BY <2>1
<1> QED
  BY <1>1, <1>2 DEF Promise!Latest

(* Neither the player nor a command touches more than the game. *)
LEMMA ChangeSimulated ==
  ASSUME TypeOK', UNCHANGED <<readings, db, overlay>>
  PROVE  AbstractStep
<1>1. world' \in Contents
  BY DEF TypeOK
<1> QED
  BY <1>1 DEF AbstractStep, Promise!Next, Promise!Change

(* An accepted reading is one of the game. *)
LEMMA LookSimulated ==
  ASSUME IInv, PromiseInv, readings' = With(readings, sent + 1, world),
         UNCHANGED <<world, db, overlay>>
  PROVE  AbstractStep
<1>1. Promise!Latest = sent
  BY LatestReading DEF IInv, TypeOK
<1>2. Promise!Look
  BY <1>1 DEF Promise!Look, With
<1> QED
  BY <1>2 DEF AbstractStep, Promise!Next

(* The worker saves the last reading, which it had not saved before. *)
LEMMA SaveSimulated ==
  ASSUME IInv, PromiseInv, Save
  PROVE  AbstractStep
<1>1. sent \in Nat /\ cand # Nothing /\ cand.seq = sent /\ Reading(cand)
  BY DEF IInv, TypeOK, Save, Goto, SaveInv, PromiseInv
<1>2. Promise!Latest = sent
  BY <1>1, LatestReading
<1>3. \A n \in 1 .. Len(db) : db[n].by = "worker" => db[n].seq < sent
  BY <1>1 DEF IInv, SaveInv, Current
<1>4. /\ db' = Append(db, [items |-> readings[sent], seq |-> sent, by |-> "worker"])
      /\ DOMAIN overlay' = {} /\ UNCHANGED <<world, readings>>
  BY <1>1 DEF Save, Import, Empty, Reading, gameVars, leaseVars
<1>5. Promise!Save
  BY <1>2, <1>3, <1>4 DEF Promise!Save, Promise!Snapshot
<1> QED
  BY <1>5 DEF AbstractStep, Promise!Next

(* The packet of a job is a reading. *)
LEMMA ImportSimulated ==
  ASSUME PromiseInv, NEW j \in Jobs, ReplaceSnapshot(j)
  PROVE  AbstractStep
<1>1. Reading(job[j].packet)
  BY DEF PromiseInv, ReplaceSnapshot, Step
<1>2. PICK n \in DOMAIN readings : n = job[j].packet.seq /\ job[j].packet.items = readings[n]
  BY <1>1 DEF Reading, PromiseInv
<1>3. /\ db' = Append(db, [items |-> readings[n], seq |-> n, by |-> "job"])
      /\ DOMAIN overlay' = {} /\ UNCHANGED <<world, readings>>
  BY <1>2 DEF ReplaceSnapshot, Import, Empty, gameVars, leaseVars
<1>4. Promise!Import
  BY <1>3 DEF Promise!Import, Promise!Snapshot
<1> QED
  BY <1>4 DEF AbstractStep, Promise!Next

(* Merged states are those of a reading: none older than the snapshot, nor than
   what was observed. *)
LEMMA MergeSimulated ==
  ASSUME PromiseInv, NEW d, Observed(d), d.source = Current,
         overlay' = Merged(d), UNCHANGED <<world, readings, db>>
  PROVE  AbstractStep
<1> DEFINE new == {i \in DOMAIN d.items \cap DOMAIN db[Current].items :
                     i \in DOMAIN overlay => overlay[i].forced \/ overlay[i].seq <= d.seq}
<1>1. /\ d.seq \in DOMAIN readings /\ db[Current].seq <= d.seq
      /\ \A i \in new : i \in DOMAIN readings[d.seq] /\ d.items[i] = readings[d.seq][i]
  BY DEF Observed, PromiseInv
<1>2. overlay' = [i \in DOMAIN overlay \cup new |->
                    IF i \in new THEN [state |-> d.items[i], seq |-> d.seq, forced |-> FALSE]
                    ELSE overlay[i]]
  BY DEF Merged
<1>3. overlay' = [i \in DOMAIN overlay \cup new |->
                    IF i \in new
                      THEN [state |-> readings[d.seq][i], seq |-> d.seq, forced |-> FALSE]
                    ELSE overlay[i]]
  BY <1>1, <1>2
<1>4. /\ new \subseteq DOMAIN readings[d.seq] \cap DOMAIN db[Current].items
      /\ \A i \in new \cap DOMAIN overlay : overlay[i].forced \/ overlay[i].seq <= d.seq
  BY <1>1
<1> HIDE DEF new
<1>5. Promise!Observe(d.seq, new)
  BY <1>1, <1>3, <1>4 DEF Promise!Observe, Promise!Current, Current
<1>6. new \in SUBSET DOMAIN db[Len(db)].items
  BY <1>4 DEF Current
<1> QED
  BY <1>1, <1>5, <1>6 DEF AbstractStep, Promise!Next, Promise!Current

(* The worker merges what it has taken. *)
LEMMA ApplySimulated ==
  ASSUME IInv, PromiseInv, ApplyDelta
  PROVE  AbstractStep
<1>1. UNCHANGED <<world, readings, db>>
  BY DEF ApplyDelta, gameVars, leaseVars
<1>2. Observed(Head(taken))
  <2>1. taken \in Seq(Deltas) /\ taken # <<>>
    BY DEF IInv, TypeOK, ApplyDelta
  <2>2. 1 \in DOMAIN taken /\ Head(taken) = taken[1]
    BY <2>1
  <2> QED
    BY <2>2 DEF PromiseInv
<1>3. CASE Head(taken).source = Current
  <2>1. overlay' = Merged(Head(taken))
    BY <1>3 DEF ApplyDelta
  <2> QED
    BY <1>1, <1>2, <1>3, <2>1, MergeSimulated
<1>4. CASE Head(taken).source # Current
  BY <1>1, <1>4 DEF ApplyDelta, AbstractStep
<1> QED
  BY <1>3, <1>4

(* A projected state is that of a command. *)
LEMMA ProjectSimulated ==
  ASSUME IInv, PromiseInv, NEW j \in Jobs, Project(j)
  PROVE  AbstractStep
<1>1. UNCHANGED <<world, readings, db>>
  BY DEF Project, gameVars, leaseVars
<1>2. CASE job[j].plan = Current
  <2>1. Target \in DOMAIN db[Len(db)].items
    BY <1>2 DEF Project, Step, IInv, PlanInv, Current
  <2> DEFINE n == IF at = "read" THEN ev.seq ELSE sent
  <2>2. sent \in Nat /\ n \in {sent, sent + 1} /\ Promise!Latest = sent
    BY LatestReading DEF IInv, TypeOK, ReadInv
  <2>3. db[Len(db)].seq <= n
    <3>1. Len(db) \in 1 .. Len(db)
      BY DEF IInv, TypeOK, Current
    <3>2. db[Len(db)].seq <= sent
      BY <3>1 DEF IInv, SaveInv, Current
    <3>3. db[Len(db)].seq \in Nat
      <4>1. db \in Seq(Snapshots)
        BY DEF IInv, TypeOK
      <4>2. db[Len(db)] \in Snapshots
        BY <3>1, <4>1
      <4> QED
        BY <4>2 DEF Snapshots
    <3> HIDE DEF n
    <3> QED
      BY <2>2, <3>2, <3>3
  <2>4. overlay' = With(overlay, Target, [state |-> TRUE, forced |-> TRUE, seq |-> n])
    BY <1>2 DEF Project
  <2> HIDE DEF n
  <2>5. Promise!Command(Target, n)
    BY <1>1, <2>3, <2>4 DEF Promise!Command, Promise!Current, With
  <2> QED
    BY <2>1, <2>2, <2>5 DEF AbstractStep, Promise!Next, Promise!Current
<1>3. CASE job[j].plan # Current
  BY <1>1, <1>3 DEF Project, AbstractStep
<1> QED
  BY <1>2, <1>3

(* Everything else is the synchronisation's own business. *)
LEMMA StepSimulated ==
  IInv /\ IInv' /\ PromiseInv /\ [Next]_vars => AbstractStep
<1> SUFFICES ASSUME IInv, TypeOK', PromiseInv, [Next]_vars
             PROVE  AbstractStep
  BY DEF IInv
<1> USE DEF gameVars, leaseVars, dbVars
<1>1. ASSUME UNCHANGED <<world, readings, db, overlay>>
      PROVE  AbstractStep
  BY <1>1 DEF AbstractStep
<1>2. CASE \E i \in Items : Play(i)
  BY <1>2, ChangeSimulated DEF Play
<1>3. CASE Accept
  <2>1. CASE UNCHANGED leaseVars
    BY <1>1, <1>3, <2>1 DEF Accept
  <2>2. CASE readings' = With(readings, sent + 1, world)
    BY <1>3, <2>2, LookSimulated DEF Accept
  <2> QED
    BY <2>1, <2>2, ReadingsCases
<1>4. CASE Poll \/ StatusCurrent \/ StatusDeferred \/ StatusTimeout \/ Read \/ EndStatus
  BY <1>1, <1>4 DEF Poll, StatusCurrent, StatusDeferred, StatusTimeout, Read, EndStatus
<1>5. CASE Callback
  BY <1>1, <1>5 DEF Callback, ReadGuard, ReadSource, CheckGuard, AppendScoped, ReleaseFinished,
     FillSlot
<1>6. CASE Loop
  <2>1. CASE Wait \/ NotReady \/ TakeEvent \/ TakeDeltas \/ OfferEvent \/ Ready \/ Confirm \/ Refuse
          \/ FailSave \/ Publish
    BY <1>1, <2>1 DEF Wait, NotReady, TakeEvent, TakeDeltas, OfferEvent, Ready, Confirm, Refuse,
       FailSave, Publish
  <2> QED
    BY <1>6, <2>1, SaveSimulated, ApplySimulated DEF Loop
<1>7. ASSUME NEW j \in Jobs, Job(j)
      PROVE  AbstractStep
  <2>1. CASE CheckListening(j) \/ Pin(j) \/ BeginGuard(j) \/ RefuseGuard(j) \/ Clear(j)
          \/ ReadCursor(j) \/ FinishGuard(j) \/ SeeSnapshot(j) \/ SeeNone(j) \/ FindPacket(j)
          \/ FindNone(j) \/ EndGuard(j) \/ ClearEnded(j)
    BY <1>1, <2>1 DEF CheckListening, Pin, BeginGuard, RefuseGuard, Clear, ReadCursor, FinishGuard,
       SeeSnapshot, SeeNone, FindPacket, FindNone, EndGuard, ClearEnded
  <2>2. CASE Dispatch(j)
    BY <2>2, ChangeSimulated DEF Dispatch
  <2> QED
    BY <1>7, <2>1, <2>2, ProjectSimulated, ImportSimulated DEF Job
<1>8. CASE Settle \/ UNCHANGED vars
  BY <1>1, <1>8 DEF Settle, vars
<1> QED
  BY <1>2, <1>3, <1>4, <1>5, <1>6, <1>7, <1>8 DEF Next, Status

(* What is on its way to the database are readings of the game. *)
THEOREM OnlyReadings == Spec => []PromiseInv
  BY InitInv, Inductive, PromiseInit, PromiseInductive, PTL DEF Spec

(* The synchronisation keeps its promise, for any items and jobs: it shows the
   inventories that were read, saves the latest and each once at most, and takes
   the states of single items from readings that are not older, or from commands. *)
THEOREM PromiseKept == Spec => ImplementsPromise
<1>1. Init => Promise!Init
  <2> SUFFICES ASSUME Init
               PROVE  Promise!Init
    OBVIOUS
  <2>1. world \in Contents
    BY InitInv DEF IInv, TypeOK
  <2> QED
    BY <2>1 DEF Init, Promise!Init, Empty
<1>2. IInv /\ IInv' /\ PromiseInv /\ [Next]_vars => [Promise!Next]_<<world, readings, db, overlay>>
  BY StepSimulated DEF AbstractStep
<1> QED
  BY <1>1, <1>2, SyncInvariant, OnlyReadings, PTL DEF Spec, ImplementsPromise, Promise!Spec
=============================================================================
