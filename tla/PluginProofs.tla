----------------------------- MODULE PluginProofs -----------------------------
(***************************************************************************)
(* Proofs about PluginUpdate and PluginDeploy, for every number of         *)
(* plug-ins, files and parts.  The inductive invariant of the update says, *)
(* for every place the updater stands at, which files it has replaced and  *)
(* which images may be resident; the one of the deployment says that the   *)
(* parts written are a prefix of the parts, so that the host is the last.  *)
(***************************************************************************)
EXTENDS PluginUpdate, PluginDeploy, TLAPS

-----------------------------------------------------------------------------
(* The update *)

\* What may be loaded for a plug-in.
Loadable == Contents \cup {"none", "pending"}

Upto(n) == \A f \in Files : puFile[f] = IF f <= n THEN "new" ELSE "old"
NotNew == \A p \in Plugins : puImage[p] # "new"

\* Where the updater stands, and what is loaded then.
AtDisable ==
  puAt = "disable" => /\ puNext \in Plugins /\ puWritten = 0
                      /\ \A p \in Plugins : p > puNext => puImage[p] = "none"
AtWrite ==
  puAt = "write" => puNext \in Files /\ puWritten = puNext - 1 /\ ~Resident
AtTheRest ==
  /\ puAt = "enable" => puNext \in Plugins
  /\ puAt \in {"enable", "confirm"} => puWritten = NFiles
  /\ puAt = "restore" => puNext \in 1..puWritten /\ ~Resident
  /\ puAt = "reenable" => puNext \in 1..NPlugins + 1
Staged ==
  /\ puAt \notin {"start", "end"} => puStaging
  /\ puAt = "start" => puWritten = 0
  /\ puDoubt => puAt = "end"
  /\ puOutcome = "none" <=> puAt # "end"
UpdatePlace == AtDisable /\ AtWrite /\ AtTheRest /\ Staged

\* What the files hold while nobody else writes to them.
FilesSoFar ==
  ~puForeign =>
    /\ puAt \in {"start", "disable", "reenable"} => Upto(0)
    /\ puAt \in {"write", "enable", "confirm", "list"} => Upto(puWritten)
    /\ puAt = "restore" => Upto(puNext)
NoneNew ==
  ~puForeign =>
    /\ puAt \in {"start", "disable", "write", "restore", "reenable"} => NotNew
    /\ puAt = "list" /\ puWritten = 0 => NotNew
LoadedSoFar ==
  ~puForeign /\ puAt = "reenable" => \A p \in puStopped : p < puNext => puImage[p] = "old"
UpdateFiles == FilesSoFar /\ NoneNew /\ LoadedSoFar

UpdateInv == UpdateTypeOK /\ UpdatePlace /\ UpdateFiles /\ MixedKeepsBackup /\ ReportIsTrue

LEMMA UpdateInitially == UpdateInit => UpdateInv
<1> SUFFICES ASSUME UpdateInit PROVE UpdateInv
  OBVIOUS
<1> USE UpdateAssumption DEF UpdateInit, Files, Plugins
<1>0. /\ puImage \in [Plugins -> Contents \cup {"none", "pending"}]
      /\ puFile \in [Files -> Contents] /\ puNext \in 0..NFiles + 1 /\ puWritten \in 0..NFiles
  BY DEF Contents
<1>1. UpdateTypeOK
  BY <1>0 DEF UpdateTypeOK
<1>2. UpdatePlace
  BY DEF UpdatePlace, AtDisable, AtWrite, AtTheRest, Staged
<1>3. FilesSoFar
  BY DEF FilesSoFar, Upto
<1>4. NoneNew /\ LoadedSoFar
  BY DEF NoneNew, LoadedSoFar, NotNew
<1>5. MixedKeepsBackup /\ ReportIsTrue
  BY DEF MixedKeepsBackup, ReportIsTrue
<1> QED
  BY <1>1, <1>2, <1>3, <1>4, <1>5 DEF UpdateInv, UpdateFiles

\* What a command may leave in the game.
LEMMA CommandImages ==
  ASSUME UpdateTypeOK, NEW p \in Plugins, NEW c \in Contents \cup {"none"},
         Completed(p, c) \/ Rejects(p, c) \/ Lost(p, c)
  PROVE  /\ puImage' \in [Plugins -> Loadable]
         /\ puImage'[p] \in Images(p, c)
         /\ \A q \in Plugins : q # p => puImage'[q] = puImage[q]
  BY DEF UpdateTypeOK, Loadable, Images, Completed, Rejects, Lost

\* An outcome that is unknown: the backup stays, nothing is reported.
LEMMA UnknownKeeps ==
  ASSUME UpdateInv, puAt \notin {"start", "end"}, Unknown,
         puImage' \in [Plugins -> Loadable], puDoubt' \in BOOLEAN,
         UNCHANGED <<puFile, puStopped, puWritten, puRevoked, puForeign>>
  PROVE  UpdateInv'
<1> USE DEF Unknown, ToStep
<1>1. UpdateTypeOK'
  BY UpdateAssumption DEF UpdateInv, UpdateTypeOK, Loadable
<1>2. UpdatePlace'
  BY DEF UpdateInv, UpdatePlace, AtDisable, AtWrite, AtTheRest, Staged
<1>3. UpdateFiles'
  BY DEF UpdateFiles, FilesSoFar, NoneNew, LoadedSoFar
<1>4. puStaging
  BY DEF UpdateInv, UpdatePlace, Staged
<1>5. MixedKeepsBackup' /\ ReportIsTrue'
  BY <1>4 DEF MixedKeepsBackup, ReportIsTrue
<1> QED
  BY <1>1, <1>2, <1>3, <1>5 DEF UpdateInv

\* A known error starts the rollback with what was written so far.
LEMMA FailKeeps ==
  ASSUME UpdateInv, puAt \notin {"start", "end"}, FailUpdate,
         puImage' \in [Plugins -> Loadable],
         UNCHANGED <<puFile, puWritten, puDoubt, puRevoked, puForeign>>,
         puStopped' \subseteq Plugins,
         ~puForeign => Upto(puWritten),
         ~puForeign /\ puWritten = 0 => \A p \in Plugins : puImage'[p] # "new"
  PROVE  UpdateInv'
<1> USE DEF FailUpdate, ToStep
<1>1. UpdateTypeOK'
  BY UpdateAssumption DEF UpdateInv, UpdateTypeOK, Loadable
<1>2. UpdatePlace'
  BY DEF UpdateInv, UpdatePlace, AtDisable, AtWrite, AtTheRest, Staged
<1>3. FilesSoFar'
  BY DEF FilesSoFar, Upto
<1>4. NoneNew' /\ LoadedSoFar'
  BY DEF NoneNew, LoadedSoFar, NotNew
<1>5. puOutcome' = "none"
  BY DEF UpdateInv, UpdatePlace, Staged
<1>6. MixedKeepsBackup' /\ ReportIsTrue'
  BY <1>5 DEF MixedKeepsBackup, ReportIsTrue
<1> QED
  BY <1>1, <1>2, <1>3, <1>4, <1>6 DEF UpdateInv, UpdateFiles

LEMMA BackUpKeeps == UpdateInv /\ BackUp => UpdateInv'
<1> SUFFICES ASSUME UpdateInv, BackUp PROVE UpdateInv'
  OBVIOUS
<1> USE UpdateAssumption
<1>0. /\ puAt = "start" /\ puWritten = 0 /\ puOutcome = "none" /\ ~puDoubt
      /\ ~puForeign => Upto(0) /\ NotNew
  BY DEF BackUp, UpdateInv, UpdatePlace, Staged, UpdateFiles, FilesSoFar, NoneNew
<1>1. /\ UNCHANGED <<puImage, puFile, puStopped, puWritten, puDoubt, puRevoked, puForeign>>
      /\ \/ puAt' = "end" /\ puNext' = 0 /\ puOutcome' = "refused" /\ puStaging' = puStaging
         \/ puAt' = "list" /\ puNext' = 0 /\ puOutcome' = "none" /\ puStaging'
         \/ puAt' = "disable" /\ puNext' = NPlugins /\ puOutcome' = "none" /\ puStaging'
  BY <1>0 DEF BackUp, ToStep
<1>a. puNext' \in 0..NFiles + 1
  BY <1>1
<1>b. ~puForeign => \A f \in Files : puFile[f] = "old"
  BY <1>0 DEF Upto, Files
<1>2. UpdateTypeOK'
  BY <1>1, <1>a DEF UpdateInv, UpdateTypeOK, BackUp
<1>3. UpdatePlace'
  BY <1>0, <1>1 DEF UpdatePlace, AtDisable, AtWrite, AtTheRest, Staged, Plugins
<1>4. FilesSoFar'
  BY <1>0, <1>1 DEF FilesSoFar, Upto
<1>5. NoneNew' /\ LoadedSoFar'
  BY <1>0, <1>1 DEF NoneNew, LoadedSoFar, NotNew
<1>6. MixedKeepsBackup' /\ ReportIsTrue'
  BY <1>0, <1>1, <1>b DEF MixedKeepsBackup, ReportIsTrue
<1> QED
  BY <1>2, <1>3, <1>4, <1>5, <1>6 DEF UpdateInv, UpdateFiles

LEMMA DisableKeeps == UpdateInv /\ Disable => UpdateInv'
<1> SUFFICES ASSUME UpdateInv, Disable PROVE UpdateInv'
  OBVIOUS
<1> USE UpdateAssumption
<1>0. /\ puAt = "disable" /\ puNext \in Plugins /\ puWritten = 0
      /\ \A p \in Plugins : p > puNext => puImage[p] = "none"
      /\ puStaging /\ puOutcome = "none" /\ ~puDoubt
      /\ ~puForeign => Upto(0) /\ NotNew
      /\ puImage \in [Plugins -> Loadable] /\ puStopped \subseteq Plugins
      /\ UNCHANGED <<puFile, puWritten, puRevoked, puForeign>>
  BY DEF Disable, UpdateInv, UpdateTypeOK, Loadable, UpdatePlace, AtDisable, Staged,
     UpdateFiles, FilesSoFar, NoneNew
<1>a. ASSUME Completed(puNext, "none") \/ Rejects(puNext, "none") \/ Lost(puNext, "none")
      PROVE  /\ puImage' \in [Plugins -> Loadable]
             /\ \A q \in Plugins : q # puNext => puImage'[q] = puImage[q]
             /\ puImage'[puNext] \in {puImage[puNext], "none", "pending"}
  BY <1>0, <1>a, CommandImages DEF UpdateInv, Images
<1>1. CASE puRevoked /\ FailUpdate /\ UNCHANGED <<puImage, puDoubt, puStopped>>
  BY <1>0, <1>1, FailKeeps DEF NotNew
<1>2. CASE Rejects(puNext, "none") /\ FailUpdate /\ UNCHANGED puStopped
  <2>1. ~puForeign => \A p \in Plugins : puImage'[p] # "new"
    BY <1>0, <1>2, <1>a DEF NotNew
  <2> QED
    BY <1>0, <1>2, <1>a, <2>1, FailKeeps DEF Rejects
<1>3. CASE Lost(puNext, "none") /\ Unknown /\ UNCHANGED puStopped
  <2>1. puDoubt' \in BOOLEAN
    BY <1>3 DEF Lost
  <2> QED
    BY <1>0, <1>3, <1>a, <2>1, UnknownKeeps
<1>4. CASE /\ Completed(puNext, "none") /\ puStopped' = puStopped \cup {puNext}
           /\ IF puNext = 1 THEN Proceed("write", 1) ELSE Proceed("disable", puNext - 1)
  <2>1. /\ puImage' = [puImage EXCEPT ![puNext] = "none"] /\ puDoubt' = puDoubt
        /\ UNCHANGED <<puOutcome, puStaging>>
    BY <1>4 DEF Completed, Proceed
  <2>2. puStopped' \subseteq Plugins /\ puImage' \in [Plugins -> Loadable]
    BY <1>0, <1>4, <1>a
  <2>3. NotNew => NotNew'
    BY <1>0, <2>1 DEF NotNew
  <2>4. CASE puNext = 1
    <3>1. puAt' = "write" /\ puNext' = 1
      BY <1>4, <2>4 DEF Proceed, ToStep
    <3>2. ~Resident'
      BY <1>0, <2>1, <2>4 DEF Resident, Plugins
    <3>3. UpdateTypeOK'
      BY <1>0, <2>1, <2>2, <3>1 DEF UpdateInv, UpdateTypeOK, Loadable
    <3>4. UpdatePlace'
      BY <1>0, <2>1, <3>1, <3>2
      DEF UpdatePlace, AtDisable, AtWrite, AtTheRest, Staged, Files
    <3>5. FilesSoFar'
      BY <1>0, <3>1 DEF FilesSoFar, Upto
    <3>6. NoneNew' /\ LoadedSoFar' /\ MixedKeepsBackup' /\ ReportIsTrue'
      BY <1>0, <2>1, <2>3, <3>1 DEF NoneNew, LoadedSoFar, MixedKeepsBackup, ReportIsTrue
    <3> QED
      BY <3>3, <3>4, <3>5, <3>6 DEF UpdateInv, UpdateFiles
  <2>5. CASE puNext # 1
    <3>1. puAt' = "disable" /\ puNext' = puNext - 1
      BY <1>4, <2>5 DEF Proceed, ToStep
    <3>2. puNext - 1 \in Plugins /\ puNext - 1 \in 0..NFiles + 1
      BY <1>0, <2>5 DEF Plugins
    <3>3. UpdateTypeOK'
      BY <1>0, <2>1, <2>2, <3>1, <3>2 DEF UpdateInv, UpdateTypeOK, Loadable
    <3>4. \A p \in Plugins : p > puNext - 1 => puImage'[p] = "none"
      BY <1>0, <2>1 DEF Plugins
    <3>5. UpdatePlace'
      BY <1>0, <2>1, <3>1, <3>2, <3>4
      DEF UpdatePlace, AtDisable, AtWrite, AtTheRest, Staged
    <3>6. FilesSoFar'
      BY <1>0, <3>1 DEF FilesSoFar, Upto
    <3>7. NoneNew' /\ LoadedSoFar' /\ MixedKeepsBackup' /\ ReportIsTrue'
      BY <1>0, <2>1, <2>3, <3>1 DEF NoneNew, LoadedSoFar, MixedKeepsBackup, ReportIsTrue
    <3> QED
      BY <3>3, <3>5, <3>6, <3>7 DEF UpdateInv, UpdateFiles
  <2> QED
    BY <2>4, <2>5
<1> QED
  BY <1>1, <1>2, <1>3, <1>4 DEF Disable

LEMMA WriteFileKeeps == UpdateInv /\ WriteFile => UpdateInv'
<1> SUFFICES ASSUME UpdateInv, WriteFile PROVE UpdateInv'
  OBVIOUS
<1> USE UpdateAssumption
<1>0. /\ puAt = "write" /\ puNext \in Files /\ puWritten = puNext - 1 /\ ~Resident
      /\ puStaging /\ puOutcome = "none" /\ ~puDoubt
      /\ ~puForeign => Upto(puWritten) /\ NotNew
      /\ puImage \in [Plugins -> Loadable] /\ puStopped \subseteq Plugins
      /\ puFile \in [Files -> Contents]
      /\ UNCHANGED <<puImage, puDoubt, puStopped, puRevoked, puForeign>>
  BY DEF WriteFile, UpdateInv, UpdateTypeOK, Loadable, UpdatePlace, AtWrite, Staged,
     UpdateFiles, FilesSoFar, NoneNew
<1>1. CASE FailUpdate /\ UNCHANGED <<puFile, puWritten>>
  BY <1>0, <1>1, FailKeeps DEF NotNew
<1>2. CASE /\ puFile' = [puFile EXCEPT ![puNext] = "new"] /\ puWritten' = puNext
           /\ IF puNext = NFiles THEN Proceed("enable", 1) ELSE Proceed("write", puNext + 1)
  <2>1. /\ puFile' \in [Files -> Contents] /\ puWritten' \in 0..NFiles
        /\ UNCHANGED <<puOutcome, puStaging>>
    <3>1. puFile' \in [Files -> Contents]
      BY <1>0, <1>2 DEF Contents
    <3>2. puWritten' \in 0..NFiles
      BY <1>0, <1>2 DEF Files
    <3>3. UNCHANGED <<puOutcome, puStaging>>
      BY <1>2 DEF Proceed
    <3> QED
      BY <3>1, <3>2, <3>3
  <2>2. ~puForeign => \A f \in Files : puFile'[f] = IF f <= puNext THEN "new" ELSE "old"
    BY <1>0, <1>2 DEF Upto, Files
  <2>3. CASE puNext = NFiles
    <3>1. puAt' = "enable" /\ puNext' = 1
      BY <1>2, <2>3 DEF Proceed, ToStep
    <3>2. UpdateTypeOK'
      BY <1>0, <2>1, <3>1 DEF UpdateInv, UpdateTypeOK, Loadable
    <3>3. UpdatePlace'
      BY <1>0, <1>2, <2>1, <2>3, <3>1
      DEF UpdatePlace, AtDisable, AtWrite, AtTheRest, Staged, Plugins
    <3>4. FilesSoFar'
      BY <1>0, <1>2, <2>2, <3>1 DEF FilesSoFar, Upto
    <3>5. NoneNew' /\ LoadedSoFar' /\ MixedKeepsBackup' /\ ReportIsTrue'
      BY <1>0, <2>1, <3>1 DEF NoneNew, LoadedSoFar, MixedKeepsBackup, ReportIsTrue
    <3> QED
      BY <3>2, <3>3, <3>4, <3>5 DEF UpdateInv, UpdateFiles
  <2>4. CASE puNext # NFiles
    <3>1. puAt' = "write" /\ puNext' = puNext + 1
      BY <1>2, <2>4 DEF Proceed, ToStep
    <3>2. puNext + 1 \in Files /\ puNext + 1 \in 0..NFiles + 1
      BY <1>0, <2>4 DEF Files
    <3>3. UpdateTypeOK'
      BY <1>0, <2>1, <3>1, <3>2 DEF UpdateInv, UpdateTypeOK, Loadable
    <3>4. AtWrite'
      BY <1>0, <1>2, <3>1, <3>2 DEF AtWrite, Resident, Files
    <3>5. AtDisable' /\ AtTheRest' /\ Staged'
      BY <1>0, <2>1, <3>1 DEF AtDisable, AtTheRest, Staged
    <3>6. FilesSoFar'
      BY <1>0, <1>2, <2>2, <3>1 DEF FilesSoFar, Upto
    <3>7. NoneNew' /\ LoadedSoFar' /\ MixedKeepsBackup' /\ ReportIsTrue'
      BY <1>0, <2>1, <3>1 DEF NoneNew, LoadedSoFar, NotNew, MixedKeepsBackup, ReportIsTrue
    <3> QED
      BY <3>3, <3>4, <3>5, <3>6, <3>7 DEF UpdateInv, UpdatePlace, UpdateFiles
  <2> QED
    BY <2>3, <2>4
<1> QED
  BY <1>1, <1>2 DEF WriteFile

LEMMA EnableKeeps == UpdateInv /\ Enable => UpdateInv'
<1> SUFFICES ASSUME UpdateInv, Enable PROVE UpdateInv'
  OBVIOUS
<1> USE UpdateAssumption
<1>0. /\ puAt = "enable" /\ puNext \in Plugins /\ puWritten = NFiles
      /\ puStaging /\ puOutcome = "none" /\ ~puDoubt
      /\ ~puForeign => Upto(puWritten)
      /\ puImage \in [Plugins -> Loadable] /\ puStopped \subseteq Plugins
      /\ UNCHANGED <<puFile, puWritten, puRevoked, puForeign>>
  BY DEF Enable, UpdateInv, UpdateTypeOK, Loadable, UpdatePlace, AtTheRest, Staged,
     UpdateFiles, FilesSoFar
<1>b. puFile[puNext] \in Contents \cup {"none"} /\ puWritten # 0
  BY <1>0 DEF UpdateInv, UpdateTypeOK, Plugins, Files
<1>a. ASSUME Completed(puNext, puFile[puNext]) \/ Rejects(puNext, puFile[puNext])
               \/ Lost(puNext, puFile[puNext])
      PROVE  puImage' \in [Plugins -> Loadable]
  BY <1>0, <1>a, <1>b, CommandImages DEF UpdateInv
<1>1. CASE puRevoked /\ FailUpdate /\ UNCHANGED <<puImage, puDoubt, puStopped>>
  BY <1>0, <1>b, <1>1, FailKeeps
<1>2. CASE Rejects(puNext, puFile[puNext]) /\ FailUpdate /\ UNCHANGED puStopped
  BY <1>0, <1>b, <1>2, <1>a, FailKeeps DEF Rejects
<1>3. CASE Lost(puNext, puFile[puNext]) /\ Unknown /\ UNCHANGED puStopped
  <2>1. puDoubt' \in BOOLEAN
    BY <1>3 DEF Lost
  <2> QED
    BY <1>0, <1>3, <1>a, <2>1, UnknownKeeps
<1>4. CASE /\ Completed(puNext, puFile[puNext]) /\ puStopped' = puStopped \ {puNext}
           /\ IF puNext = NPlugins THEN Proceed("confirm", 0) ELSE Proceed("enable", puNext + 1)
  <2>1. /\ UNCHANGED <<puOutcome, puStaging, puDoubt>>
        /\ puStopped' \subseteq Plugins /\ puImage' \in [Plugins -> Loadable]
    BY <1>0, <1>4, <1>a DEF Completed, Proceed
  <2>2. /\ puAt' \in {"enable", "confirm"} /\ puNext' \in 0..NFiles + 1
        /\ puAt' = "enable" => puNext' \in Plugins
    <3>1. CASE puNext = NPlugins
      BY <1>4, <3>1 DEF Proceed, ToStep
    <3>2. CASE puNext # NPlugins
      BY <1>0, <1>4, <3>2 DEF Proceed, ToStep, Plugins
    <3> QED
      BY <3>1, <3>2
  <2>3. UpdateTypeOK'
    BY <1>0, <2>1, <2>2 DEF UpdateInv, UpdateTypeOK, Loadable
  <2>4. UpdatePlace'
    BY <1>0, <2>1, <2>2
    DEF UpdatePlace, AtDisable, AtWrite, AtTheRest, Staged
  <2>5. FilesSoFar'
    BY <1>0, <2>2 DEF FilesSoFar, Upto
  <2>6. NoneNew' /\ LoadedSoFar' /\ MixedKeepsBackup' /\ ReportIsTrue'
    BY <1>0, <2>1, <2>2 DEF NoneNew, LoadedSoFar, MixedKeepsBackup, ReportIsTrue
  <2> QED
    BY <2>3, <2>4, <2>5, <2>6 DEF UpdateInv, UpdateFiles
<1> QED
  BY <1>1, <1>2, <1>3, <1>4 DEF Enable

LEMMA ConfirmKeeps == UpdateInv /\ Confirm => UpdateInv'
<1> SUFFICES ASSUME UpdateInv, Confirm PROVE UpdateInv'
  OBVIOUS
<1> USE UpdateAssumption
<1>0. /\ puAt = "confirm" /\ puWritten = NFiles /\ puStaging /\ puOutcome = "none" /\ ~puDoubt
      /\ ~puForeign => Upto(puWritten)
      /\ puImage \in [Plugins -> Loadable] /\ puStopped \subseteq Plugins
      /\ UNCHANGED <<puImage, puFile, puStopped, puWritten, puRevoked, puForeign>>
  BY DEF Confirm, UpdateInv, UpdateTypeOK, Loadable, UpdatePlace, AtTheRest, Staged,
     UpdateFiles, FilesSoFar
<1>1. CASE FailUpdate /\ UNCHANGED puDoubt
  BY <1>0, <1>1, FailKeeps
<1>2. CASE Unknown /\ puDoubt' = TRUE
  BY <1>0, <1>2, UnknownKeeps
<1>3. CASE (\A p \in Plugins : puImage[p] = "new") /\ EndUpdate("updated") /\ UNCHANGED puDoubt
  <2>1. /\ puAt' = "end" /\ puNext' = 0 /\ puOutcome' = "updated" /\ ~puStaging'
        /\ puStaging' \in BOOLEAN
    BY <1>3 DEF EndUpdate, ToStep
  <2>2. UpdateTypeOK'
    BY <1>0, <1>3, <2>1 DEF UpdateInv, UpdateTypeOK
  <2>3. UpdatePlace'
    BY <1>0, <1>3, <2>1
    DEF UpdatePlace, AtDisable, AtWrite, AtTheRest, Staged
  <2>4. ~puForeign => \A f \in Files : puFile[f] = "new"
    BY <1>0 DEF Upto, Files
  <2>5. UpdateFiles' /\ MixedKeepsBackup' /\ ReportIsTrue'
    BY <1>0, <1>3, <2>1, <2>4
    DEF UpdateFiles, FilesSoFar, NoneNew, LoadedSoFar, MixedKeepsBackup, ReportIsTrue
  <2> QED
    BY <2>2, <2>3, <2>5 DEF UpdateInv
<1> QED
  BY <1>1, <1>2, <1>3 DEF Confirm

LEMMA RollBackKeeps == UpdateInv /\ RollBack => UpdateInv'
<1> SUFFICES ASSUME UpdateInv, RollBack PROVE UpdateInv'
  OBVIOUS
<1> USE UpdateAssumption
<1>0. /\ puAt = "list" /\ puStaging /\ puOutcome = "none" /\ puDoubt = FALSE
      /\ ~puForeign => Upto(puWritten) /\ (puWritten = 0 => NotNew)
      /\ puImage \in [Plugins -> Loadable] /\ puStopped \subseteq Plugins
      /\ puWritten \in 0..NFiles
      /\ UNCHANGED <<puImage, puFile, puStopped, puWritten, puRevoked, puForeign>>
  BY DEF RollBack, UpdateInv, UpdateTypeOK, Loadable, UpdatePlace, Staged,
     UpdateFiles, FilesSoFar, NoneNew
<1>1. CASE Unknown /\ puDoubt' \in BOOLEAN
  BY <1>0, <1>1, UnknownKeeps
<1>2. CASE puWritten > 0 /\ ~Resident /\ Proceed("restore", puWritten) /\ UNCHANGED puDoubt
  <2>1. /\ puAt' = "restore" /\ puNext' = puWritten
        /\ UNCHANGED <<puOutcome, puStaging, puDoubt>>
    BY <1>2 DEF Proceed, ToStep
  <2>2. UpdateTypeOK'
    BY <1>0, <2>1 DEF UpdateInv, UpdateTypeOK
  <2>3. UpdatePlace'
    BY <1>0, <1>2, <2>1
    DEF UpdatePlace, AtDisable, AtWrite, AtTheRest, Staged, Resident
  <2>4. FilesSoFar'
    BY <1>0, <2>1 DEF FilesSoFar, Upto
  <2>5. NoneNew' /\ LoadedSoFar' /\ MixedKeepsBackup' /\ ReportIsTrue'
    BY <1>0, <1>2, <2>1
    DEF NoneNew, LoadedSoFar, NotNew, Resident, MixedKeepsBackup, ReportIsTrue
  <2> QED
    BY <2>2, <2>3, <2>4, <2>5 DEF UpdateInv, UpdateFiles
<1>3. CASE puWritten = 0 /\ Proceed("reenable", 1) /\ UNCHANGED puDoubt
  <2>1. /\ puAt' = "reenable" /\ puNext' = 1 /\ UNCHANGED <<puOutcome, puStaging, puDoubt>>
    BY <1>3 DEF Proceed, ToStep
  <2>2. UpdateTypeOK'
    BY <1>0, <2>1 DEF UpdateInv, UpdateTypeOK
  <2>3. UpdatePlace'
    BY <1>0, <1>3, <2>1
    DEF UpdatePlace, AtDisable, AtWrite, AtTheRest, Staged
  <2>4. FilesSoFar'
    BY <1>0, <1>3, <2>1 DEF FilesSoFar, Upto
  <2>5. LoadedSoFar'
    BY <1>0, <2>1 DEF LoadedSoFar, Plugins
  <2>6. NoneNew' /\ MixedKeepsBackup' /\ ReportIsTrue'
    BY <1>0, <1>3, <2>1 DEF NoneNew, NotNew, MixedKeepsBackup, ReportIsTrue
  <2> QED
    BY <2>2, <2>3, <2>4, <2>5, <2>6 DEF UpdateInv, UpdateFiles
<1> QED
  BY <1>0, <1>1, <1>2, <1>3 DEF RollBack

LEMMA RestoreFileKeeps == UpdateInv /\ RestoreFile => UpdateInv'
<1> SUFFICES ASSUME UpdateInv, RestoreFile PROVE UpdateInv'
  OBVIOUS
<1> USE UpdateAssumption
<1>0. /\ puAt = "restore" /\ puNext \in 1..puWritten /\ puWritten \in 0..NFiles /\ ~Resident
      /\ puStaging /\ puOutcome = "none" /\ puDoubt = FALSE
      /\ ~puForeign => Upto(puNext) /\ NotNew
      /\ puImage \in [Plugins -> Loadable] /\ puStopped \subseteq Plugins
      /\ puFile \in [Files -> Contents]
      /\ UNCHANGED <<puImage, puDoubt, puStopped, puWritten, puRevoked, puForeign>>
  BY DEF RestoreFile, UpdateInv, UpdateTypeOK, Loadable, UpdatePlace, AtTheRest, Staged,
     UpdateFiles, FilesSoFar, NoneNew
<1>1. CASE Unknown /\ UNCHANGED puFile
  BY <1>0, <1>1, UnknownKeeps
<1>2. CASE /\ puFile' = [puFile EXCEPT ![puNext] = "old"]
           /\ IF puNext = 1 THEN Proceed("reenable", 1) ELSE Proceed("restore", puNext - 1)
  <2>1. puFile' \in [Files -> Contents] /\ UNCHANGED <<puOutcome, puStaging>>
    BY <1>0, <1>2 DEF Contents, Proceed
  <2>2. ~puForeign => \A f \in Files : puFile'[f] = IF f <= puNext - 1 THEN "new" ELSE "old"
    BY <1>0, <1>2 DEF Upto, Files
  <2>3. CASE puNext = 1
    <3>1. puAt' = "reenable" /\ puNext' = 1
      BY <1>2, <2>3 DEF Proceed, ToStep
    <3>2. UpdateTypeOK'
      BY <1>0, <2>1, <3>1 DEF UpdateInv, UpdateTypeOK, Loadable
    <3>3. UpdatePlace'
      BY <1>0, <2>1, <3>1
      DEF UpdatePlace, AtDisable, AtWrite, AtTheRest, Staged
    <3>4. FilesSoFar'
      BY <1>0, <2>2, <2>3, <3>1 DEF FilesSoFar, Upto
    <3>5. LoadedSoFar'
      BY <1>0, <3>1 DEF LoadedSoFar, Plugins
    <3>6. NoneNew' /\ MixedKeepsBackup' /\ ReportIsTrue'
      BY <1>0, <2>1, <3>1 DEF NoneNew, NotNew, MixedKeepsBackup, ReportIsTrue
    <3> QED
      BY <3>2, <3>3, <3>4, <3>5, <3>6 DEF UpdateInv, UpdateFiles
  <2>4. CASE puNext # 1
    <3>1. puAt' = "restore" /\ puNext' = puNext - 1
      BY <1>2, <2>4 DEF Proceed, ToStep
    <3>2. puNext - 1 \in 1..puWritten /\ puNext - 1 \in 0..NFiles + 1
      BY <1>0, <2>4
    <3>3. UpdateTypeOK'
      BY <1>0, <2>1, <3>1, <3>2 DEF UpdateInv, UpdateTypeOK, Loadable
    <3>4. UpdatePlace'
      BY <1>0, <2>1, <3>1, <3>2
      DEF UpdatePlace, AtDisable, AtWrite, AtTheRest, Staged, Resident
    <3>5. FilesSoFar'
      BY <1>0, <2>2, <3>1 DEF FilesSoFar, Upto
    <3>6. NoneNew' /\ LoadedSoFar' /\ MixedKeepsBackup' /\ ReportIsTrue'
      BY <1>0, <2>1, <3>1 DEF NoneNew, LoadedSoFar, NotNew, MixedKeepsBackup, ReportIsTrue
    <3> QED
      BY <3>3, <3>4, <3>5, <3>6 DEF UpdateInv, UpdateFiles
  <2> QED
    BY <2>3, <2>4
<1> QED
  BY <1>1, <1>2 DEF RestoreFile

LEMMA EnableAgainKeeps == UpdateInv /\ EnableAgain => UpdateInv'
<1> SUFFICES ASSUME UpdateInv, EnableAgain PROVE UpdateInv'
  OBVIOUS
<1> USE UpdateAssumption
<1>0. /\ puAt = "reenable" /\ puNext \in 1..NPlugins + 1
      /\ puStaging /\ puOutcome = "none" /\ puDoubt = FALSE
      /\ ~puForeign => /\ Upto(0) /\ NotNew
                       /\ \A p \in puStopped : p < puNext => puImage[p] = "old"
      /\ puImage \in [Plugins -> Loadable] /\ puStopped \subseteq Plugins
      /\ puFile \in [Files -> Contents]
      /\ UNCHANGED <<puFile, puStopped, puWritten, puRevoked, puForeign>>
  BY DEF EnableAgain, UpdateInv, UpdateTypeOK, Loadable, UpdatePlace, AtTheRest, Staged,
     UpdateFiles, FilesSoFar, NoneNew, LoadedSoFar
<1>b. ~puForeign => \A f \in Files : puFile[f] = "old"
  BY <1>0 DEF Upto, Files
<1>a. ASSUME puNext \in puStopped,
             Completed(puNext, puFile[puNext]) \/ Rejects(puNext, puFile[puNext])
               \/ Lost(puNext, puFile[puNext])
      PROVE  puImage' \in [Plugins -> Loadable]
  <2>1. puNext \in Plugins /\ puFile[puNext] \in Contents \cup {"none"}
    BY <1>0, <1>a DEF Plugins, Files
  <2> QED
    BY <1>a, <2>1, CommandImages DEF UpdateInv
<1>1. CASE puNext > NPlugins /\ EndUpdate("restored") /\ UNCHANGED <<puImage, puDoubt>>
  <2>1. /\ puAt' = "end" /\ puNext' = 0 /\ puOutcome' = "restored" /\ ~puStaging'
        /\ puStaging' \in BOOLEAN
    BY <1>1 DEF EndUpdate, ToStep
  <2>2. UpdateTypeOK'
    BY <1>0, <1>1, <2>1 DEF UpdateInv, UpdateTypeOK
  <2>3. UpdatePlace'
    BY <1>0, <1>1, <2>1
    DEF UpdatePlace, AtDisable, AtWrite, AtTheRest, Staged
  <2>4. ~puForeign => \A p \in Plugins :
                       puImage[p] # "new" /\ (p \in puStopped => puImage[p] = "old")
    BY <1>0, <1>1 DEF NotNew, Plugins
  <2>5. UpdateFiles' /\ MixedKeepsBackup' /\ ReportIsTrue'
    BY <1>0, <1>1, <1>b, <2>1, <2>4
    DEF UpdateFiles, FilesSoFar, NoneNew, LoadedSoFar, MixedKeepsBackup, ReportIsTrue
  <2> QED
    BY <2>2, <2>3, <2>5 DEF UpdateInv
<1>2. CASE /\ puNext \in Plugins /\ Proceed("reenable", puNext + 1) /\ UNCHANGED puDoubt
           /\ \/ puNext \notin puStopped /\ UNCHANGED puImage
              \/ puNext \in puStopped /\ Completed(puNext, puFile[puNext])
  <2>1. /\ puAt' = "reenable" /\ puNext' = puNext + 1
        /\ UNCHANGED <<puOutcome, puStaging, puDoubt>>
    BY <1>2 DEF Proceed, ToStep
  <2>2. puNext + 1 \in 1..NPlugins + 1 /\ puNext + 1 \in 0..NFiles + 1 /\ puNext \in Files
    BY <1>0, <1>2 DEF Plugins, Files
  <2>3. puImage' \in [Plugins -> Loadable]
    BY <1>0, <1>2, <1>a
  <2>4. ~puForeign => /\ \A p \in Plugins : puImage'[p] # "new"
                     /\ \A p \in puStopped : p < puNext + 1 => puImage'[p] = "old"
    <3>1. CASE puNext \notin puStopped /\ UNCHANGED puImage
      BY <1>0, <3>1 DEF NotNew, Plugins
    <3>2. CASE puNext \in puStopped /\ puImage' = [puImage EXCEPT ![puNext] = puFile[puNext]]
      BY <1>0, <1>b, <2>2, <3>2 DEF NotNew, Plugins
    <3> QED
      BY <1>2, <3>1, <3>2 DEF Completed
  <2>5. UpdateTypeOK'
    BY <1>0, <2>1, <2>2, <2>3 DEF UpdateInv, UpdateTypeOK, Loadable
  <2>6. UpdatePlace'
    BY <1>0, <2>1, <2>2
    DEF UpdatePlace, AtDisable, AtWrite, AtTheRest, Staged
  <2>7. FilesSoFar'
    BY <1>0, <2>1 DEF FilesSoFar, Upto
  <2>8. NoneNew' /\ LoadedSoFar' /\ MixedKeepsBackup' /\ ReportIsTrue'
    BY <1>0, <2>1, <2>4 DEF NoneNew, LoadedSoFar, NotNew, MixedKeepsBackup, ReportIsTrue
  <2> QED
    BY <2>5, <2>6, <2>7, <2>8 DEF UpdateInv, UpdateFiles
<1>3. CASE puRevoked /\ Unknown /\ UNCHANGED <<puImage, puDoubt>>
  BY <1>0, <1>3, UnknownKeeps
<1>4. CASE puNext \in puStopped /\ Unknown /\
             (Rejects(puNext, puFile[puNext]) \/ Lost(puNext, puFile[puNext]))
  <2>1. puDoubt' \in BOOLEAN
    BY <1>0, <1>4 DEF Rejects, Lost
  <2> QED
    BY <1>0, <1>4, <1>a, <2>1, UnknownKeeps
<1> QED
  BY <1>0, <1>1, <1>2, <1>3, <1>4 DEF EnableAgain, Completed

LEMMA OthersKeep == UpdateInv /\ (RevokeLoad \/ OtherProgram \/ UpdaterDies) => UpdateInv'
<1> USE UpdateAssumption
<1>1. ASSUME UpdateInv, RevokeLoad PROVE UpdateInv'
  <2> USE <1>1 DEF RevokeLoad
  <2>1. UpdateTypeOK'
    BY DEF UpdateInv, UpdateTypeOK
  <2>2. UpdatePlace'
    BY DEF UpdateInv, UpdatePlace, AtDisable, AtWrite, AtTheRest, Staged, Resident
  <2>3. UpdateFiles'
    BY DEF UpdateInv, UpdateFiles, FilesSoFar, NoneNew, LoadedSoFar, Upto, NotNew
  <2>4. MixedKeepsBackup' /\ ReportIsTrue'
    BY DEF UpdateInv, MixedKeepsBackup, ReportIsTrue
  <2> QED
    BY <2>1, <2>2, <2>3, <2>4 DEF UpdateInv
<1>2. ASSUME UpdateInv, OtherProgram PROVE UpdateInv'
  <2> USE <1>2 DEF OtherProgram
  <2>1. puFile' \in [Files -> Contents]
    BY DEF UpdateInv, UpdateTypeOK, Contents
  <2>2. UpdateTypeOK'
    BY <2>1 DEF UpdateInv, UpdateTypeOK
  <2>3. UpdatePlace'
    BY DEF UpdateInv, UpdatePlace, AtDisable, AtWrite, AtTheRest, Staged, Resident
  <2>4. UpdateFiles'
    BY DEF UpdateFiles, FilesSoFar, NoneNew, LoadedSoFar
  <2>5. puOutcome' = "none" /\ puAt' # "end"
    BY DEF UpdateInv, UpdatePlace, Staged
  <2>6. MixedKeepsBackup' /\ ReportIsTrue'
    BY <2>5 DEF MixedKeepsBackup, ReportIsTrue
  <2> QED
    BY <2>2, <2>3, <2>4, <2>6 DEF UpdateInv
<1>3. ASSUME UpdateInv, UpdaterDies PROVE UpdateInv'
  <2> USE <1>3 DEF UpdaterDies, ToStep
  <2>1. UpdateTypeOK'
    BY DEF UpdateInv, UpdateTypeOK
  <2>2. UpdatePlace'
    BY DEF UpdateInv, UpdatePlace, AtDisable, AtWrite, AtTheRest, Staged
  <2>3. UpdateFiles'
    BY DEF UpdateFiles, FilesSoFar, NoneNew, LoadedSoFar
  <2>4. puStaging \/ puForeign \/ \A f \in Files : puFile[f] = "old"
    BY DEF UpdateInv, UpdatePlace, Staged, UpdateFiles, FilesSoFar, Upto, Files
  <2>5. MixedKeepsBackup' /\ ReportIsTrue'
    BY <2>4 DEF MixedKeepsBackup, ReportIsTrue
  <2> QED
    BY <2>1, <2>2, <2>3, <2>5 DEF UpdateInv
<1> QED
  BY <1>1, <1>2, <1>3

LEMMA UpdateInductive == UpdateInv /\ [UpdateNext]_updateVars => UpdateInv'
<1> SUFFICES ASSUME UpdateInv, [UpdateNext]_updateVars PROVE UpdateInv'
  OBVIOUS
<1>1. CASE UNCHANGED updateVars
  <2> USE <1>1 DEF updateVars
  <2>1. UpdateTypeOK' /\ UpdatePlace'
    BY DEF UpdateInv, UpdateTypeOK, UpdatePlace, AtDisable, AtWrite, AtTheRest,
       Staged, Resident
  <2>2. UpdateFiles' /\ MixedKeepsBackup' /\ ReportIsTrue'
    BY DEF UpdateInv, UpdateFiles, FilesSoFar, NoneNew, LoadedSoFar, Upto, NotNew,
       MixedKeepsBackup, ReportIsTrue
  <2> QED
    BY <2>1, <2>2 DEF UpdateInv
<1> QED
  BY <1>1, BackUpKeeps, DisableKeeps, WriteFileKeeps, EnableKeeps, ConfirmKeeps, RollBackKeeps,
     RestoreFileKeeps, EnableAgainKeeps, OthersKeep DEF UpdateNext, UpdaterStep

\* Types, the report of an update and the life of its backup, for every number of
\* plug-ins and files (update_native_plugins).
THEOREM UpdateSafe == UpdateSpec => [](UpdateTypeOK /\ MixedKeepsBackup /\ ReportIsTrue)
<1>1. UpdateInv => UpdateTypeOK /\ MixedKeepsBackup /\ ReportIsTrue
  BY DEF UpdateInv
<1> QED
  BY <1>1, UpdateInitially, UpdateInductive, PTL DEF UpdateSpec

\* The updater touches a file only while no image of a plug-in is resident.
THEOREM UpdateTouchesUnloaded == UpdateSpec => TouchedUnloaded
<1>1. UpdateInv /\ [UpdateNext]_updateVars =>
        [UpdaterStep => puFile' = puFile \/ ~Resident]_updateVars
  <2> SUFFICES ASSUME UpdateInv, UpdaterStep PROVE puFile' = puFile \/ ~Resident
    OBVIOUS
  <2>1. CASE BackUp \/ Disable \/ Enable \/ Confirm \/ RollBack \/ EnableAgain
    BY <2>1 DEF BackUp, Disable, Enable, Confirm, RollBack, EnableAgain
  <2>2. CASE WriteFile
    BY <2>2 DEF UpdateInv, UpdatePlace, AtWrite, WriteFile
  <2>3. CASE RestoreFile
    BY <2>3 DEF UpdateInv, UpdatePlace, AtTheRest, RestoreFile
  <2> QED
    BY <2>1, <2>2, <2>3 DEF UpdaterStep
<1> QED
  BY <1>1, UpdateInitially, UpdateInductive, PTL DEF UpdateSpec, TouchedUnloaded

\* After an unknown outcome the updater changes neither an image nor a file.
THEOREM UpdateStopsInDoubt == UpdateSpec => NothingAfterDoubt
<1>1. UpdateInv /\ [UpdateNext]_updateVars =>
        [puDoubt => puImage' = puImage /\ (UpdaterStep => puFile' = puFile)]_updateVars
  <2> SUFFICES ASSUME UpdateInv, UpdateNext, puDoubt
               PROVE  puImage' = puImage /\ (UpdaterStep => puFile' = puFile)
    OBVIOUS
  <2>1. puAt = "end"
    BY DEF UpdateInv, UpdatePlace, Staged
  <2> QED
    BY <2>1 DEF UpdateNext, UpdaterStep, BackUp, Disable, WriteFile, Enable, Confirm, RollBack,
       RestoreFile, EnableAgain, RevokeLoad, OtherProgram, UpdaterDies
<1> QED
  BY <1>1, UpdateInitially, UpdateInductive, PTL DEF UpdateSpec, NothingAfterDoubt

-----------------------------------------------------------------------------
(* The deployment *)

\* The parts written are a prefix of the parts, and as long as the place says.
Prefix(n) == pdWritten = {q \in Parts : q <= n}
DeployPlace ==
  /\ \E n \in 0..NParts : Prefix(n)
  /\ pdAt = "start" => pdWritten = {} /\ pdPart = 0
  /\ pdAt = "write" => pdPart \in Parts /\ Prefix(pdPart - 1)
  /\ pdAt = "verify" => pdPart \in Parts /\ Prefix(pdPart)

\* What was written is there, unless another program took its place.
DeployFiles ==
  /\ \A part \in Parts : pdFile[part] = "new" <=> part \in pdWritten /\ pdFile[part] # "other"
  /\ ~pdForeign => \A part \in Parts : pdFile[part] # "other"
  /\ pdOutcome \in {"deployed", "failed", "pending"} => pdReported = pdWritten
  /\ pdAt # "end" => pdOutcome = "none"

DeployInv == DeployTypeOK /\ DeployPlace /\ DeployFiles

LEMMA DeployInitially == DeployInit => DeployInv
<1> SUFFICES ASSUME DeployInit PROVE DeployInv
  OBVIOUS
<1> USE DeployAssumption DEF DeployInit, Parts
<1>1. DeployTypeOK
  <2>1. /\ pdFile \in [Parts -> {"absent", "prior", "new", "other"}]
        /\ pdOriginal \in [Parts -> {"absent", "prior"}]
    OBVIOUS
  <2>2. /\ pdAt = "start" /\ pdPart \in 0..NParts + 1 /\ pdWritten = {} /\ pdReported = {}
        /\ pdOutcome = "none" /\ pdForeign = FALSE /\ pdBlocked \in BOOLEAN
    OBVIOUS
  <2> HIDE DEF DeployInit
  <2> QED
    BY <2>1, <2>2 DEF DeployTypeOK
<1>2. DeployPlace
  <2>1. Prefix(0)
    BY DEF Prefix
  <2> QED
    BY <2>1 DEF DeployPlace
<1>3. DeployFiles
  BY DEF DeployFiles
<1> QED
  BY <1>1, <1>2, <1>3 DEF DeployInv

\* The end of a deployment, whatever was written.
LEMMA DeployEndsKeep ==
  ASSUME DeployInv, NEW outcome \in {"deployed", "failed", "pending", "crashed"},
         NEW reported \in SUBSET Parts, DeployEnds(outcome, reported),
         outcome # "crashed" => reported = pdWritten,
         UNCHANGED <<pdOriginal, pdFile, pdWritten, pdBlocked, pdForeign>>
  PROVE  DeployInv'
<1> USE DeployAssumption DEF DeployEnds
<1>1. DeployTypeOK'
  BY DEF DeployInv, DeployTypeOK
<1>2. DeployPlace'
  BY DEF DeployInv, DeployPlace, Prefix
<1>3. DeployFiles'
  BY DEF DeployInv, DeployFiles
<1> QED
  BY <1>1, <1>2, <1>3 DEF DeployInv

LEMMA DeployFailsKeep ==
  ASSUME DeployInv, pdAt # "end", DeployFails,
         UNCHANGED <<pdOriginal, pdFile, pdWritten, pdBlocked, pdForeign>>
  PROVE  DeployInv'
<1>1. CASE pdWritten = {}
  BY <1>1, DeployEndsKeep DEF DeployFails
<1>2. CASE pdWritten # {}
  <2>1. pdAt' = "remove" /\ pdPart' = 0 /\ UNCHANGED <<pdOutcome, pdReported>>
    BY <1>2 DEF DeployFails, At
  <2>2. DeployTypeOK'
    BY DeployAssumption, <2>1 DEF DeployInv, DeployTypeOK
  <2>3. DeployPlace' /\ DeployFiles'
    BY <2>1 DEF DeployInv, DeployPlace, DeployFiles, Prefix
  <2> QED
    BY <2>2, <2>3 DEF DeployInv
<1> QED
  BY <1>1, <1>2

LEMMA CheckPartsKeeps == DeployInv /\ CheckParts => DeployInv'
<1> SUFFICES ASSUME DeployInv, CheckParts PROVE DeployInv'
  OBVIOUS
<1>0. /\ pdAt = "start" /\ pdWritten = {}
      /\ UNCHANGED <<pdOriginal, pdFile, pdWritten, pdBlocked, pdForeign>>
  BY DEF CheckParts, DeployInv, DeployPlace
<1>1. CASE DeployEnds("failed", {})
  BY <1>0, <1>1, DeployEndsKeep
<1>2. CASE At("write", 1)
  <2>1. pdAt' = "write" /\ pdPart' = 1 /\ UNCHANGED <<pdOutcome, pdReported>>
    BY <1>2 DEF At
  <2>2. DeployTypeOK'
    BY DeployAssumption, <1>0, <2>1 DEF DeployInv, DeployTypeOK
  <2>3. 1 \in Parts /\ pdWritten = {q \in Parts : q <= 1 - 1}
    BY DeployAssumption, <1>0 DEF Parts
  <2>4. DeployPlace' /\ DeployFiles'
    BY <1>0, <2>1, <2>3 DEF DeployInv, DeployPlace, DeployFiles, Prefix
  <2> QED
    BY <2>2, <2>4 DEF DeployInv
<1> QED
  BY <1>1, <1>2 DEF CheckParts

LEMMA WritePartKeeps == DeployInv /\ WritePart => DeployInv'
<1> SUFFICES ASSUME DeployInv, WritePart PROVE DeployInv'
  OBVIOUS
<1>0. /\ pdAt = "write" /\ pdPart \in Parts /\ Prefix(pdPart - 1)
      /\ pdFile \in [Parts -> {"absent", "prior", "new", "other"}] /\ pdWritten \subseteq Parts
      /\ UNCHANGED <<pdOriginal, pdBlocked, pdForeign>>
  BY DEF WritePart, DeployInv, DeployPlace, DeployTypeOK
<1>1. CASE DeployFails /\ UNCHANGED <<pdFile, pdWritten>>
  BY <1>0, <1>1, DeployFailsKeep
<1>2. CASE /\ pdFile' = [pdFile EXCEPT ![pdPart] = "new"]
           /\ pdWritten' = pdWritten \cup {pdPart} /\ At("verify", pdPart)
  <2>1. pdAt' = "verify" /\ pdPart' = pdPart /\ UNCHANGED <<pdOutcome, pdReported>>
    BY <1>2 DEF At
  <2>2. /\ pdFile' \in [Parts -> {"absent", "prior", "new", "other"}]
        /\ pdWritten' \subseteq Parts
    BY <1>0, <1>2
  <2>3. DeployTypeOK'
    BY <1>0, <2>1, <2>2 DEF DeployInv, DeployTypeOK
  <2>4. pdWritten' = {q \in Parts : q <= pdPart} /\ pdPart \in 0..NParts
    BY <1>0, <1>2 DEF Prefix, Parts
  <2>5. DeployPlace'
    BY <1>0, <2>1, <2>4 DEF DeployPlace, Prefix
  <2>6. DeployFiles'
    BY <1>0, <1>2, <2>1 DEF DeployInv, DeployFiles
  <2> QED
    BY <2>3, <2>5, <2>6 DEF DeployInv
<1> QED
  BY <1>1, <1>2 DEF WritePart

LEMMA VerifyPartKeeps == DeployInv /\ VerifyPart => DeployInv'
<1> SUFFICES ASSUME DeployInv, VerifyPart PROVE DeployInv'
  OBVIOUS
<1>0. /\ pdAt = "verify" /\ pdPart \in Parts /\ Prefix(pdPart)
      /\ UNCHANGED <<pdOriginal, pdFile, pdWritten, pdBlocked, pdForeign>>
  BY DEF VerifyPart, DeployInv, DeployPlace
<1>1. CASE DeployFails
  BY <1>0, <1>1, DeployFailsKeep
<1>2. CASE At(IF pdPart = NParts THEN "last" ELSE "write", pdPart + 1)
  <2>1. /\ pdAt' = (IF pdPart = NParts THEN "last" ELSE "write") /\ pdPart' = pdPart + 1
        /\ UNCHANGED <<pdOutcome, pdReported>>
    BY <1>2 DEF At
  <2>2. /\ pdPart + 1 \in 0..NParts + 1 /\ pdPart + 1 - 1 = pdPart
        /\ pdPart # NParts => pdPart + 1 \in Parts
    BY DeployAssumption, <1>0 DEF Parts
  <2>3. DeployTypeOK'
    BY <1>0, <2>1, <2>2 DEF DeployInv, DeployTypeOK
  <2>4. DeployPlace'
    <3>1. \E n \in 0..NParts : Prefix(n)'
      BY <1>0 DEF DeployInv, DeployPlace, Prefix
    <3>2. CASE pdPart = NParts
      BY <2>1, <3>1, <3>2 DEF DeployPlace
    <3>3. CASE pdPart # NParts
      <4>1. pdAt' = "write" /\ pdPart' \in Parts /\ pdPart' - 1 = pdPart
        BY DeployAssumption, <1>0, <2>1, <2>2, <3>3 DEF Parts
      <4>2. pdWritten' = {q \in Parts : q <= pdPart' - 1}
        BY <1>0, <4>1 DEF Prefix
      <4> QED
        BY <3>1, <4>1, <4>2 DEF DeployPlace, Prefix
    <3> QED
      BY <3>2, <3>3
  <2>5. DeployFiles'
    BY <1>0, <2>1 DEF DeployInv, DeployFiles
  <2> QED
    BY <2>3, <2>4, <2>5 DEF DeployInv
<1> QED
  BY <1>1, <1>2 DEF VerifyPart

LEMMA LastCheckKeeps == DeployInv /\ LastCheck => DeployInv'
<1> SUFFICES ASSUME DeployInv, LastCheck PROVE DeployInv'
  OBVIOUS
<1>1. pdWritten \in SUBSET Parts
  BY DEF DeployInv, DeployTypeOK
<1> QED
  BY <1>1, DeployFailsKeep, DeployEndsKeep DEF LastCheck

LEMMA RemovePartKeeps == DeployInv /\ RemovePart => DeployInv'
<1> SUFFICES ASSUME DeployInv, RemovePart PROVE DeployInv'
  OBVIOUS
<1>0. /\ pdAt = "remove" /\ pdWritten \in SUBSET Parts
      /\ pdFile \in [Parts -> {"absent", "prior", "new", "other"}]
      /\ UNCHANGED <<pdOriginal, pdBlocked, pdForeign>>
  BY DEF RemovePart, DeployInv, DeployTypeOK
<1>1. PICK part \in pdWritten :
        /\ IsLast(part)
        /\ \/ /\ ~pdBlocked /\ pdFile[part] = "new"
              /\ pdFile' = [pdFile EXCEPT ![part] = "absent"] /\ pdWritten' = pdWritten \ {part}
              /\ UNCHANGED <<pdAt, pdPart, pdOutcome, pdReported>>
           \/ DeployEnds("pending", pdWritten) /\ UNCHANGED <<pdFile, pdWritten>>
  BY DEF RemovePart
<1>2. CASE DeployEnds("pending", pdWritten) /\ UNCHANGED <<pdFile, pdWritten>>
  BY <1>0, <1>2, DeployEndsKeep
<1>3. CASE /\ pdFile' = [pdFile EXCEPT ![part] = "absent"] /\ pdWritten' = pdWritten \ {part}
           /\ UNCHANGED <<pdAt, pdPart, pdOutcome, pdReported>>
  <2>1. /\ pdFile' \in [Parts -> {"absent", "prior", "new", "other"}]
        /\ pdWritten' \subseteq Parts
    BY <1>0, <1>3
  <2>2. DeployTypeOK'
    BY <1>0, <1>3, <2>1 DEF DeployInv, DeployTypeOK
  <2>3. PICK n \in 0..NParts : Prefix(n)
    BY DEF DeployInv, DeployPlace
  <2>4. part - 1 \in 0..NParts /\ pdWritten' = {q \in Parts : q <= part - 1}
    BY DeployAssumption, <1>0, <1>1, <1>3, <2>3 DEF Prefix, IsLast, Parts
  <2>5. DeployPlace'
    BY <1>0, <1>3, <2>4 DEF DeployPlace, Prefix
  <2>6. DeployFiles'
    BY <1>0, <1>3 DEF DeployInv, DeployFiles
  <2> QED
    BY <2>2, <2>5, <2>6 DEF DeployInv
<1> QED
  BY <1>1, <1>2, <1>3

LEMMA DeployOthersKeep ==
  DeployInv /\ (Removed \/ GameStartsOrStops \/ FileIsTaken \/ DeployerDies) => DeployInv'
<1>1. ASSUME DeployInv, Removed PROVE DeployInv'
  BY <1>1, DeployEndsKeep DEF Removed
<1>2. ASSUME DeployInv, GameStartsOrStops PROVE DeployInv'
  <2> USE <1>2 DEF GameStartsOrStops
  <2>1. DeployTypeOK'
    BY DEF DeployInv, DeployTypeOK
  <2>2. DeployPlace' /\ DeployFiles'
    BY DEF DeployInv, DeployPlace, DeployFiles, Prefix
  <2> QED
    BY <2>1, <2>2 DEF DeployInv
<1>3. ASSUME DeployInv, FileIsTaken PROVE DeployInv'
  <2> USE <1>3
  <2>1. PICK part \in Parts : pdFile' = [pdFile EXCEPT ![part] = "other"]
    BY DEF FileIsTaken
  <2>2. /\ pdFile \in [Parts -> {"absent", "prior", "new", "other"}]
        /\ pdFile' \in [Parts -> {"absent", "prior", "new", "other"}]
    BY <2>1 DEF DeployInv, DeployTypeOK
  <2>3. DeployTypeOK'
    BY <2>2 DEF DeployInv, DeployTypeOK, FileIsTaken
  <2>4. DeployPlace'
    BY DEF DeployInv, DeployPlace, Prefix, FileIsTaken
  <2>5. DeployFiles'
    BY <2>1, <2>2 DEF DeployInv, DeployFiles, FileIsTaken
  <2> QED
    BY <2>3, <2>4, <2>5 DEF DeployInv
<1>4. ASSUME DeployInv, DeployerDies PROVE DeployInv'
  BY <1>4, DeployEndsKeep DEF DeployerDies
<1> QED
  BY <1>1, <1>2, <1>3, <1>4

LEMMA DeployInductive == DeployInv /\ [DeployNext]_deployVars => DeployInv'
<1> SUFFICES ASSUME DeployInv, [DeployNext]_deployVars PROVE DeployInv'
  OBVIOUS
<1>1. CASE UNCHANGED deployVars
  <2>1. DeployTypeOK'
    BY <1>1 DEF deployVars, DeployInv, DeployTypeOK
  <2>2. DeployPlace' /\ DeployFiles'
    BY <1>1 DEF deployVars, DeployInv, DeployPlace, DeployFiles, Prefix
  <2> QED
    BY <2>1, <2>2 DEF DeployInv
<1> QED
  BY <1>1, CheckPartsKeeps, WritePartKeeps, VerifyPartKeeps, LastCheckKeeps, RemovePartKeeps,
     DeployOthersKeep DEF DeployNext

LEMMA DeployInvSafe == DeployInv => HostIsLast /\ RecordIsComplete
<1> SUFFICES ASSUME DeployInv PROVE HostIsLast /\ RecordIsComplete
  OBVIOUS
<1>1. HostIsLast
  <2> SUFFICES ASSUME ~pdForeign, pdFile[NParts] = "new", NEW part \in Parts
               PROVE  pdFile[part] = "new"
    BY DEF HostIsLast
  <2>1. NParts \in Parts
    BY DeployAssumption DEF Parts
  <2>2. NParts \in pdWritten
    BY <2>1 DEF DeployInv, DeployFiles
  <2>3. PICK n \in 0..NParts : Prefix(n)
    BY DEF DeployInv, DeployPlace
  <2>4. n = NParts /\ part \in pdWritten
    BY DeployAssumption, <2>2, <2>3 DEF Prefix, Parts
  <2> QED
    BY <2>4 DEF DeployInv, DeployFiles
<1>2. RecordIsComplete
  BY DEF DeployInv, DeployFiles, RecordIsComplete
<1> QED
  BY <1>1, <1>2

\* The host is never new beside a part that is not, at any step of the deployment or
\* of its removal and after a crash; what is reported to be left is what is there
\* (deploy_native_component_files).
THEOREM DeploySafe == DeploySpec => [](DeployTypeOK /\ HostIsLast /\ RecordIsComplete)
<1>1. DeployInv => DeployTypeOK
  BY DEF DeployInv
<1> QED
  BY <1>1, DeployInitially, DeployInductive, DeployInvSafe, PTL DEF DeploySpec

=============================================================================
