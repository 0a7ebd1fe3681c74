----------------------------- MODULE PluginDeploy -----------------------------
(***************************************************************************)
(* The deployment of the components into the game's folder while the game  *)
(* is closed (services/native_plugin_deployment.py, _replace_file and      *)
(* deploy_native_component_files): the parts are replaced one after the    *)
(* other, the host that loads them last; on an error what was written is   *)
(* removed again in reverse, unless the game has been started meanwhile.   *)
(***************************************************************************)
EXTENDS Integers

CONSTANTS NParts    \* component files, the host being the last one

ASSUME DeployAssumption == NParts \in Nat \ {0}

Parts == 1..NParts

VARIABLES
  pdAt,             \* start, write, verify, last, remove, end
  pdPart,           \* the part that is next
  pdOriginal,       \* originals: absent, prior
  pdFile,           \* absent, prior, new, other
  pdWritten,        \* written
  pdBlocked,        \* require_idle() raises: the game runs, or the mode forbids it
  pdOutcome,        \* none, deployed, failed, pending, crashed
  pdReported,       \* the files the caller is told to have been written
  pdForeign         \* history: another program changed a file

deployVars == <<pdAt, pdPart, pdOriginal, pdFile, pdWritten, pdBlocked, pdOutcome, pdReported,
                pdForeign>>

DeployInit ==
  /\ pdAt = "start" /\ pdPart = 0
  /\ pdOriginal \in [Parts -> {"absent", "prior"}] /\ pdFile = pdOriginal
  /\ pdWritten = {} /\ pdBlocked \in BOOLEAN /\ pdOutcome = "none" /\ pdReported = {}
  /\ pdForeign = FALSE

-----------------------------------------------------------------------------

DeployEnds(outcome, reported) ==
  pdAt' = "end" /\ pdPart' = 0 /\ pdOutcome' = outcome /\ pdReported' = reported
At(at, part) == pdAt' = at /\ pdPart' = part /\ UNCHANGED <<pdOutcome, pdReported>>
DeployFails == IF pdWritten = {} THEN DeployEnds("failed", {}) ELSE At("remove", 0)

CheckParts ==        \* the digests of the sources and of the targets
  /\ pdAt = "start"
  /\ \/ ~pdBlocked /\ ~pdForeign /\ At("write", 1)
     \/ DeployEnds("failed", {})
  /\ UNCHANGED <<pdOriginal, pdFile, pdWritten, pdBlocked, pdForeign>>

WritePart ==         \* the target must still be what it was
  /\ pdAt = "write"
  /\ \/ /\ ~pdBlocked /\ pdFile[pdPart] = pdOriginal[pdPart]
        /\ pdFile' = [pdFile EXCEPT ![pdPart] = "new"]
        /\ pdWritten' = pdWritten \cup {pdPart} /\ At("verify", pdPart)
     \/ DeployFails /\ UNCHANGED <<pdFile, pdWritten>>
  /\ UNCHANGED <<pdOriginal, pdBlocked, pdForeign>>

VerifyPart ==
  /\ pdAt = "verify"
  /\ \/ pdFile[pdPart] = "new" /\ At(IF pdPart = NParts THEN "last" ELSE "write", pdPart + 1)
     \/ pdFile[pdPart] # "new" /\ DeployFails
  /\ UNCHANGED <<pdOriginal, pdFile, pdWritten, pdBlocked, pdForeign>>

LastCheck ==
  /\ pdAt = "last"
  /\ IF pdBlocked THEN DeployFails ELSE DeployEnds("deployed", pdWritten)
  /\ UNCHANGED <<pdOriginal, pdFile, pdWritten, pdBlocked, pdForeign>>

IsLast(part) == \A q \in pdWritten : q <= part

RemovePart_Forward ==
  /\ pdAt = "remove" /\ pdWritten # {}
  /\ \E part \in pdWritten :
       /\ \A q \in pdWritten : part <= q
       /\ ~pdBlocked /\ pdFile[part] = "new"
       /\ pdFile' = [pdFile EXCEPT ![part] = "absent"] /\ pdWritten' = pdWritten \ {part}
  /\ UNCHANGED <<pdAt, pdPart, pdOriginal, pdBlocked, pdOutcome, pdReported, pdForeign>>

RemovePart ==        \* the last one written first; it must still be what was written
  /\ pdAt = "remove" /\ pdWritten # {}
  /\ \E part \in pdWritten :
       /\ IsLast(part)
       /\ \/ /\ ~pdBlocked /\ pdFile[part] = "new"
             /\ pdFile' = [pdFile EXCEPT ![part] = "absent"] /\ pdWritten' = pdWritten \ {part}
             /\ UNCHANGED <<pdAt, pdPart, pdOutcome, pdReported>>
          \/ DeployEnds("pending", pdWritten) /\ UNCHANGED <<pdFile, pdWritten>>
  /\ UNCHANGED <<pdOriginal, pdBlocked, pdForeign>>

Removed ==
  /\ pdAt = "remove" /\ pdWritten = {} /\ DeployEnds("failed", {})
  /\ UNCHANGED <<pdOriginal, pdFile, pdWritten, pdBlocked, pdForeign>>

-----------------------------------------------------------------------------

GameStartsOrStops ==
  /\ pdAt # "end" /\ pdBlocked' = ~pdBlocked
  /\ UNCHANGED <<pdAt, pdPart, pdOriginal, pdFile, pdWritten, pdOutcome, pdReported, pdForeign>>

FileIsTaken ==       \* another program writes or deletes one
  /\ pdAt # "end" /\ ~pdForeign /\ pdForeign' = TRUE
  /\ \E part \in Parts : pdFile' = [pdFile EXCEPT ![part] = "other"]
  /\ UNCHANGED <<pdAt, pdPart, pdOriginal, pdWritten, pdBlocked, pdOutcome, pdReported>>

DeployerDies ==
  /\ pdAt # "end" /\ DeployEnds("crashed", {})
  /\ UNCHANGED <<pdOriginal, pdFile, pdWritten, pdBlocked, pdForeign>>

DeployNext ==
  \/ CheckParts \/ WritePart \/ VerifyPart \/ LastCheck \/ RemovePart \/ Removed
  \/ GameStartsOrStops \/ FileIsTaken \/ DeployerDies

DeploySpec == DeployInit /\ [][DeployNext]_deployVars

-----------------------------------------------------------------------------
(* Properties *)

\* Types of the state.
DeployTypeOK ==
  /\ pdAt \in {"start", "write", "verify", "last", "remove", "end"} /\ pdPart \in 0..NParts + 1
  /\ pdOriginal \in [Parts -> {"absent", "prior"}]
  /\ pdFile \in [Parts -> {"absent", "prior", "new", "other"}]
  /\ pdWritten \subseteq Parts /\ pdReported \subseteq Parts
  /\ pdOutcome \in {"none", "deployed", "failed", "pending", "crashed"}
  /\ pdBlocked \in BOOLEAN /\ pdForeign \in BOOLEAN

\* The game never finds a new host beside a part that is missing or older, not even
\* after a crash or in the middle of the removal.
HostIsLast ==
  ~pdForeign /\ pdFile[NParts] = "new" => \A part \in Parts : pdFile[part] = "new"

\* What the caller records to clean up later is what lies in the folder.
RecordIsComplete ==
  pdOutcome \in {"deployed", "failed", "pending"} =>
    \A part \in Parts : pdFile[part] = "new" <=> part \in pdReported /\ pdFile[part] # "other"
=============================================================================
