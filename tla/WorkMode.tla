------------------------------- MODULE WorkMode -------------------------------
(***************************************************************************)
(* The authority the user has given (services/work_mode_service.py over    *)
(* domain/work_mode.py and integrations/work_mode_settings.py).  Every     *)
(* change holds _lock; allowed() reads the settings without it, so what is *)
(* in memory while a change is saved counts.  The save may fail, and the   *)
(* application may be restarted, at any time.                              *)
(* The executable and the deployment record are not modelled.              *)
(***************************************************************************)

VARIABLES
  wmMemory,         \* _settings
  wmDisk,           \* the settings file
  wmSaving,         \* a change is being saved
  wmBefore,         \* history: the settings before the last change
  wmWanted,         \* the candidate of the last change
  wmFailed,         \* history: it could not be saved
  wmOwed            \* history: the authority over the native component has ended and no
                    \* cleanup was acknowledged since

workVars == <<wmMemory, wmDisk, wmSaving, wmBefore, wmWanted, wmFailed, wmOwed>>

WorkModes == {"offline", "low", "medium", "developer"}
NativeCapabilities == {"native_load", "native_sync", "native_battle", "native_equipment"}

\* allowed_capabilities
Capabilities(s) ==
  {"local", "diagnostics"} \cup
  IF s.mode = "offline" \/ ~s.confirmed THEN {}
  ELSE {"interface_input"}
       \cup (IF s.mode \in {"low", "developer"} THEN {"packet_capture"} ELSE {})
       \cup (IF s.mode \in {"medium", "developer"} THEN NativeCapabilities ELSE {})
       \cup (IF s.mode = "developer" THEN {"compare_sources"} ELSE {})

\* What allowed(capability, automatic=True) grants.
Automatic(s) ==
  {c \in Capabilities(s) :
     /\ ~s.paused
     /\ \/ c \in {"packet_capture", "native_sync"} /\ s.auto
        \/ c = "native_load" /\ s.ready}

Default == [mode |-> "offline", confirmed |-> FALSE, paused |-> FALSE, auto |-> FALSE,
            ready |-> FALSE, cleanup |-> TRUE]

WorkInit ==
  /\ wmMemory = Default /\ wmDisk = Default /\ wmSaving = FALSE
  /\ wmBefore = Default /\ wmWanted = Default /\ wmFailed = FALSE /\ wmOwed = TRUE

-----------------------------------------------------------------------------

HasNative(s) == NativeCapabilities \subseteq Capabilities(s)

\* _set_settings: what memory holds from now on.
Hold(s, acknowledged) ==
  /\ wmMemory' = s
  /\ wmOwed' = IF acknowledged THEN FALSE
               ELSE IF HasNative(s) THEN FALSE ELSE wmOwed \/ HasNative(wmMemory)

\* _save: the candidate is in memory first when it takes authority away.
BeginChange(wanted, first) ==
  /\ ~wmSaving /\ wmSaving' = TRUE /\ wmFailed' = FALSE
  /\ wmBefore' = wmMemory /\ wmWanted' = wanted
  /\ Hold(first, FALSE) /\ UNCHANGED wmDisk

Mode(mode) ==
  [wmMemory EXCEPT !.mode = mode, !.confirmed = mode # "offline", !.paused = FALSE,
                   !.cleanup = @ \/ mode \in {"offline", "low"}]

SharedFirst_Unpaused(wanted) ==
  LET old == Capabilities(wmMemory)
      new == Capabilities(wanted)
  IN IF old \subseteq new THEN wmMemory
     ELSE IF new \subseteq old THEN wanted
     ELSE [wmMemory EXCEPT !.mode = "offline", !.confirmed = FALSE, !.cleanup = TRUE]

SharedFirst(wanted) ==   \* only the authority shared by both, until the change is saved
  LET old == Capabilities(wmMemory)
      new == Capabilities(wanted)
  IN IF old \subseteq new THEN wmMemory
     ELSE IF new \subseteq old THEN [wanted EXCEPT !.paused = wmMemory.paused]
     ELSE [wmMemory EXCEPT !.mode = "offline", !.confirmed = FALSE, !.cleanup = TRUE]

SelectMode(mode) == BeginChange(Mode(mode), SharedFirst(Mode(mode)))

SetPaused(paused) ==
  LET wanted == [wmMemory EXCEPT !.paused = paused]
  IN BeginChange(wanted, IF paused THEN wanted ELSE wmMemory)

SetAutoSync(enabled) ==
  LET wanted == [wmMemory EXCEPT !.auto = enabled]
  IN BeginChange(wanted, IF enabled THEN wmMemory ELSE wanted)

SetAutoReady(ready) ==
  LET wanted == [wmMemory EXCEPT !.ready = ready]
  IN BeginChange(wanted, IF ready THEN wmMemory ELSE wanted)

EnableAfterPreflight(resume) ==
  /\ resume => wmMemory.confirmed /\ ~wmMemory.cleanup
  /\ BeginChange([wmMemory EXCEPT !.paused = @ /\ ~resume, !.auto = TRUE, !.ready = TRUE], wmMemory)

SetCleanup(due) ==
  LET wanted == [wmMemory EXCEPT !.cleanup = due]
  IN BeginChange(wanted, IF due THEN wanted ELSE wmMemory)

Acknowledges == wmBefore.cleanup /\ ~wmWanted.cleanup

SaveSettings ==      \* the file is replaced as a whole
  /\ wmSaving /\ wmSaving' = FALSE /\ wmDisk' = wmWanted
  /\ Hold(wmWanted, Acknowledges)
  /\ UNCHANGED <<wmBefore, wmWanted, wmFailed>>

SaveFails ==
  /\ wmSaving /\ wmSaving' = FALSE /\ wmFailed' = TRUE
  /\ UNCHANGED <<wmMemory, wmDisk, wmBefore, wmWanted, wmOwed>>

LoadedSettings ==    \* WorkModeSettingsStore.load
  [wmDisk EXCEPT !.mode = IF wmDisk.confirmed THEN @ ELSE "offline",
                 !.confirmed = @ /\ wmDisk.mode # "offline"]

Restart ==           \* also after the file was replaced and before memory was set
  /\ \E replaced \in BOOLEAN :
       /\ replaced => wmSaving
       /\ wmDisk' = (IF replaced THEN wmWanted ELSE wmDisk) /\ wmMemory' = LoadedSettings'
       /\ wmOwed' = (wmOwed /\ ~HasNative(wmMemory') /\ ~(replaced /\ Acknowledges))
  /\ wmSaving' = FALSE /\ wmFailed' = FALSE
  /\ wmBefore' = wmMemory' /\ wmWanted' = wmMemory'

WorkNext ==
  \/ \E mode \in WorkModes : SelectMode(mode)
  \/ \E b \in BOOLEAN : SetPaused(b) \/ SetAutoSync(b) \/ SetAutoReady(b) \/ SetCleanup(b)
                        \/ EnableAfterPreflight(b)
  \/ SaveSettings \/ SaveFails \/ Restart

WorkSpec == WorkInit /\ [][WorkNext]_workVars

-----------------------------------------------------------------------------
(* Properties *)

Settings == [mode : WorkModes, confirmed : BOOLEAN, paused : BOOLEAN, auto : BOOLEAN,
             ready : BOOLEAN, cleanup : BOOLEAN]

\* Types of the state.
WorkTypeOK ==
  /\ wmMemory \in Settings /\ wmDisk \in Settings
  /\ wmBefore \in Settings /\ wmWanted \in Settings
  /\ wmSaving \in BOOLEAN /\ wmFailed \in BOOLEAN /\ wmOwed \in BOOLEAN

\* While a change is saved, and after it could not be saved, nothing is allowed that
\* was not allowed before it or would not be allowed by it, by hand or automatically.
SharedAuthority ==
  wmSaving \/ wmFailed =>
    /\ Capabilities(wmMemory) \subseteq Capabilities(wmBefore) \cap Capabilities(wmWanted)
    /\ Automatic(wmMemory) \subseteq Automatic(wmBefore) \cap Automatic(wmWanted)

\* Once the native component is no longer allowed its cleanup stays due until it is
\* acknowledged, also when the change of the mode could not be saved.
CleanupOwed == wmOwed => wmMemory.cleanup

\* A restart gives back no authority that had been taken away.
RestartGivesNothing ==
  [][Restart => Capabilities(wmMemory') \subseteq Capabilities(wmMemory)]_workVars
=============================================================================
