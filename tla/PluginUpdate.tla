----------------------------- MODULE PluginUpdate -----------------------------
(***************************************************************************)
(* The update of the plug-ins in the running game                          *)
(* (services/native_plugin_update.py, update_native_plugins, over change() *)
(* of integrations/native_host_control.py): back up, disable the plug-ins  *)
(* in reverse order, replace the files, enable, confirm; on a known error  *)
(* roll back, on an unknown outcome stop and keep the backup.              *)
(* The host in the game is external: it carries a command out, fails it,   *)
(* or its answer is lost.                                                  *)
(***************************************************************************)
EXTENDS Integers, Sequences

CONSTANTS
  NPlugins,         \* plug-ins with an image in the game
  NFiles            \* their files, and the signatures after them

ASSUME UpdateAssumption ==
  NPlugins \in Nat \ {0} /\ NFiles \in Nat /\ NPlugins <= NFiles

Plugins == 1..NPlugins
Files == 1..NFiles

VARIABLES
  puAt,             \* start, disable, write, enable, confirm, list, restore, reenable, end
  puNext,           \* the plug-in or the file that is next
  puImage,          \* external: old, new, other; none; pending: unload_pending
  puFile,           \* old, new, other
  puStopped,        \* stopped
  puWritten,        \* written: the files replaced are 1..puWritten
  puStaging,        \* the transaction directory exists
  puOutcome,        \* none, updated, restored, unknown, refused, crashed
  puDoubt,          \* history: a command's outcome was unknown
  puRevoked,        \* allowed() raises
  puForeign         \* history: another program changed a file

updateVars == <<puAt, puNext, puImage, puFile, puStopped, puWritten, puStaging, puOutcome,
                puDoubt, puRevoked, puForeign>>

UpdateInit ==        \* the images and the files agree before it starts
  /\ puAt = "start" /\ puNext = 0
  /\ puImage = [p \in Plugins |-> "old"] /\ puFile = [f \in Files |-> "old"]
  /\ puStopped = {} /\ puWritten = 0 /\ puStaging = FALSE /\ puOutcome = "none"
  /\ puDoubt = FALSE /\ puRevoked = FALSE /\ puForeign = FALSE

-----------------------------------------------------------------------------

ToStep(at, next) == puAt' = at /\ puNext' = next

Unknown ==           \* NativeHostOutcomeUnknown: nothing is inferred, the backup stays
  ToStep("end", 0) /\ puOutcome' = "unknown" /\ UNCHANGED puStaging

FailUpdate == ToStep("list", 0) /\ UNCHANGED <<puOutcome, puStaging>>
Proceed(at, next) == ToStep(at, next) /\ UNCHANGED <<puOutcome, puStaging>>
EndUpdate(outcome) ==   \* confirmed: the transaction directory is removed
  ToStep("end", 0) /\ puOutcome' = outcome /\ puStaging' = FALSE

BackUp ==            \* the files are copied first; one that changed meanwhile ends it
  /\ puAt = "start"
  /\ \/ puRevoked /\ ToStep("end", 0) /\ puOutcome' = "refused" /\ UNCHANGED puStaging
     \/ ~puRevoked /\ puStaging' = TRUE /\ UNCHANGED puOutcome
          /\ IF puForeign THEN ToStep("list", 0) ELSE ToStep("disable", NPlugins)
  /\ UNCHANGED <<puImage, puFile, puStopped, puWritten, puDoubt, puRevoked, puForeign>>

\* One command to the host about plug-in p; completed is the image it asks for.  Failed
\* or unknown, the host may have carried it out, or left an image that waits to go.
Images(p, completed) == {puImage[p], completed, "pending"}
Completed(p, completed) == puImage' = [puImage EXCEPT ![p] = completed] /\ UNCHANGED puDoubt
Rejects(p, completed) ==
  UNCHANGED puDoubt /\ \E i \in Images(p, completed) : puImage' = [puImage EXCEPT ![p] = i]
Lost(p, completed) ==
  puDoubt' = TRUE /\ \E i \in Images(p, completed) : puImage' = [puImage EXCEPT ![p] = i]

Disable ==
  /\ puAt = "disable"
  /\ \/ puRevoked /\ FailUpdate /\ UNCHANGED <<puImage, puDoubt, puStopped>>
     \/ /\ ~puRevoked
        /\ \/ /\ Completed(puNext, "none") /\ puStopped' = puStopped \cup {puNext}
              /\ IF puNext = 1 THEN Proceed("write", 1) ELSE Proceed("disable", puNext - 1)
           \/ Rejects(puNext, "none") /\ FailUpdate /\ UNCHANGED puStopped
           \/ Lost(puNext, "none") /\ Unknown /\ UNCHANGED puStopped
  /\ UNCHANGED <<puFile, puWritten, puRevoked, puForeign>>

WriteFile ==         \* _replace_file: the target must still be what was backed up
  /\ puAt = "write"
  /\ \/ /\ ~puRevoked /\ puFile[puNext] = "old"
        /\ puFile' = [puFile EXCEPT ![puNext] = "new"] /\ puWritten' = puNext
        /\ IF puNext = NFiles THEN Proceed("enable", 1) ELSE Proceed("write", puNext + 1)
     \/ FailUpdate /\ UNCHANGED <<puFile, puWritten>>
  /\ UNCHANGED <<puImage, puDoubt, puStopped, puRevoked, puForeign>>

Enable ==
  /\ puAt = "enable"
  /\ \/ puRevoked /\ FailUpdate /\ UNCHANGED <<puImage, puDoubt, puStopped>>
     \/ /\ ~puRevoked
        /\ \/ /\ Completed(puNext, puFile[puNext]) /\ puStopped' = puStopped \ {puNext}
              /\ IF puNext = NPlugins THEN Proceed("confirm", 0) ELSE Proceed("enable", puNext + 1)
           \/ Rejects(puNext, puFile[puNext]) /\ FailUpdate /\ UNCHANGED puStopped
           \/ Lost(puNext, puFile[puNext]) /\ Unknown /\ UNCHANGED puStopped
  /\ UNCHANGED <<puFile, puWritten, puRevoked, puForeign>>

Confirm_Trusts ==
  /\ puAt = "confirm" /\ EndUpdate("updated")
  /\ UNCHANGED <<puImage, puFile, puStopped, puWritten, puDoubt, puRevoked, puForeign>>

Confirm ==           \* the list of the host, which may be lost as well
  /\ puAt = "confirm"
  /\ \/ (\A p \in Plugins : puImage[p] = "new") /\ EndUpdate("updated") /\ UNCHANGED puDoubt
     \/ Unknown /\ puDoubt' = TRUE
     \/ FailUpdate /\ UNCHANGED puDoubt
  /\ UNCHANGED <<puImage, puFile, puStopped, puWritten, puRevoked, puForeign>>

-----------------------------------------------------------------------------
(* The rollback *)

Resident == \E p \in Plugins : puImage[p] # "none"

RollBack_Blind ==
  /\ puAt = "list" /\ UNCHANGED puDoubt
  /\ IF puWritten > 0 THEN Proceed("restore", puWritten) ELSE Proceed("reenable", 1)
  /\ UNCHANGED <<puImage, puFile, puStopped, puWritten, puRevoked, puForeign>>

RollBack ==          \* files are restored only while no image is resident
  /\ puAt = "list"
  /\ \/ Unknown /\ puDoubt' = TRUE
     \/ puWritten > 0 /\ Resident /\ Unknown /\ UNCHANGED puDoubt
     \/ puWritten > 0 /\ ~Resident /\ Proceed("restore", puWritten) /\ UNCHANGED puDoubt
     \/ puWritten = 0 /\ Proceed("reenable", 1) /\ UNCHANGED puDoubt
  /\ UNCHANGED <<puImage, puFile, puStopped, puWritten, puRevoked, puForeign>>

RestoreFile ==
  /\ puAt = "restore"
  /\ \/ /\ ~puRevoked /\ puFile[puNext] = "new"
        /\ puFile' = [puFile EXCEPT ![puNext] = "old"]
        /\ IF puNext = 1 THEN Proceed("reenable", 1) ELSE Proceed("restore", puNext - 1)
     \/ Unknown /\ UNCHANGED puFile
  /\ UNCHANGED <<puImage, puDoubt, puStopped, puWritten, puRevoked, puForeign>>

EnableAgain ==       \* only what this update has disabled
  /\ puAt = "reenable"
  /\ \/ puNext > NPlugins /\ EndUpdate("restored") /\ UNCHANGED <<puImage, puDoubt>>
     \/ puNext \in Plugins \ puStopped /\ Proceed("reenable", puNext + 1)
          /\ UNCHANGED <<puImage, puDoubt>>
     \/ puNext \in puStopped /\ puRevoked /\ Unknown /\ UNCHANGED <<puImage, puDoubt>>
     \/ /\ puNext \in puStopped /\ ~puRevoked
        /\ \/ Completed(puNext, puFile[puNext]) /\ Proceed("reenable", puNext + 1)
           \/ Rejects(puNext, puFile[puNext]) /\ Unknown
           \/ Lost(puNext, puFile[puNext]) /\ Unknown
  /\ UNCHANGED <<puFile, puStopped, puWritten, puRevoked, puForeign>>

-----------------------------------------------------------------------------
(* Around it *)

RevokeLoad ==        \* the mode or the account is changed
  /\ ~puRevoked /\ puAt # "end" /\ puRevoked' = TRUE
  /\ UNCHANGED <<puAt, puNext, puImage, puFile, puStopped, puWritten, puStaging, puOutcome,
                 puDoubt, puForeign>>

OtherProgram ==
  /\ ~puForeign /\ puAt # "end" /\ puForeign' = TRUE
  /\ \E f \in Files : puFile' = [puFile EXCEPT ![f] = "other"]
  /\ UNCHANGED <<puAt, puNext, puImage, puStopped, puWritten, puStaging, puOutcome, puDoubt,
                 puRevoked>>

UpdaterDies ==
  /\ puAt # "end" /\ ToStep("end", 0) /\ puOutcome' = "crashed"
  /\ UNCHANGED <<puImage, puFile, puStopped, puWritten, puStaging, puDoubt, puRevoked, puForeign>>

UpdaterStep == BackUp \/ Disable \/ WriteFile \/ Enable \/ Confirm
               \/ RollBack \/ RestoreFile \/ EnableAgain

UpdateNext == UpdaterStep \/ RevokeLoad \/ OtherProgram \/ UpdaterDies

UpdateSpec == UpdateInit /\ [][UpdateNext]_updateVars

-----------------------------------------------------------------------------
(* Properties *)

Contents == {"old", "new", "other"}

\* Types of the state.
UpdateTypeOK ==
  /\ puAt \in {"start", "disable", "write", "enable", "confirm", "list", "restore",
               "reenable", "end"}
  /\ puNext \in 0..NFiles + 1
  /\ puImage \in [Plugins -> Contents \cup {"none", "pending"}] /\ puFile \in [Files -> Contents]
  /\ puStopped \subseteq Plugins /\ puWritten \in 0..NFiles
  /\ puOutcome \in {"none", "updated", "restored", "unknown", "refused", "crashed"}
  /\ puStaging \in BOOLEAN /\ puDoubt \in BOOLEAN /\ puRevoked \in BOOLEAN
  /\ puForeign \in BOOLEAN

\* The updater touches a file only while no image of a plug-in is resident.
TouchedUnloaded ==
  [][UpdaterStep => puFile' = puFile \/ ~Resident]_updateVars

\* After an unknown outcome the updater changes neither an image nor a file.
NothingAfterDoubt == [][puDoubt => puImage' = puImage /\ (UpdaterStep => puFile' = puFile)]_updateVars

\* The backup goes only when the files are all of one version again.
MixedKeepsBackup ==
  puAt = "end" /\ ~puStaging /\ ~puForeign =>
    \E version \in {"old", "new"} : \A f \in Files : puFile[f] = version

\* An update is reported only when every plug-in runs the new image, and a rollback
\* only when none does, the files are the old ones and what was disabled is loaded.
ReportIsTrue ==
  /\ puOutcome = "updated" => \A p \in Plugins : puImage[p] = "new"
  /\ puOutcome = "restored" /\ ~puForeign =>
       /\ \A f \in Files : puFile[f] = "old"
       /\ \A p \in Plugins : puImage[p] # "new" /\ (p \in puStopped => puImage[p] = "old")

\* What the error of a rollback says: the components are in the state confirmed before.
RestoredIsLoaded ==
  puOutcome = "restored" /\ ~puForeign => \A p \in Plugins : puImage[p] = "old"
=============================================================================
