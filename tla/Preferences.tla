---------------------------- MODULE Preferences ----------------------------
(***************************************************************************)
(* Preferences and the life of the program: liboul/prefs.c with the file   *)
(* writing of liboul/util.c, and the startup and quitting of liboul/core.c *)
(* and beasy/beasy.c that load and save the list of loaded plugins.        *)
(*                                                                         *)
(* Setting a known preference calls its callbacks and those of all its     *)
(* parents; prefs_save_cb sits at the root and schedules a save in five    *)
(* seconds.  Adding one calls nobody.  A save writes a temporary file and  *)
(* renames it.  The process may be killed or crash anywhere, also between  *)
(* the two.                                                                *)
(***************************************************************************)
EXTENDS Naturals, FiniteSets

CONSTANTS
    Pref,           \* preferences other than the list of loaded plugins
    Default,        \* those that ui_prefs_init adds; plugins add the others
    Val,            \* their values
    default,        \* the value they are added with
    Plugin,         \* plugins that were probed
    DiskFails       \* TRUE: writing the file may fail

ASSUME PrefsAssumption ==
    /\ Default \subseteq Pref
    /\ default \in Val
    /\ DiskFails \in BOOLEAN

VARIABLES
    phase,          \* what the main loop is doing, "off" when the process is gone
    mem,            \* the preferences in memory
    file,           \* prefs.xml
    temp,           \* prefs.xml.save: what it holds when it is whole, or {}
    save_timer,     \* the timer save_cb is pending
    connected,      \* prefs_save_cb is connected to "/"
    loaded,         \* plugins loaded
    to_disable,     \* plugins_to_disable
    added,          \* preferences added, and not set, since the last save
    failed,         \* plugins of the list that could not be loaded at startup
    atquit,         \* plugins to come back, when the user quit
    ended           \* how the last session ended: "quit", "killed"; "disk" if a
                    \* write had failed before

vars == <<phase, mem, file, temp, save_timer, connected, loaded, to_disable,
          added, failed, atquit, ended>>

Absent == "absent"
Prefs == [prefs : [Pref -> Val \cup {Absent}], list : SUBSET Plugin]
NoFile == [prefs |-> [p \in Pref |-> Absent], list |-> {}]

plugins == <<loaded, to_disable, failed, atquit>>

-----------------------------------------------------------------------------
(* Startup *)

\* oul_prefs_load, then ui_prefs_init, which adds what the file did not have.
WithDefaults(f) ==
    [f EXCEPT !.prefs = [p \in Pref |-> IF p \in Default /\ @[p] = Absent
                                        THEN default ELSE @[p]]]

\* main() to oul_core_init.  Everything read or added counts as not set.
Start ==
    /\ phase = "off"
    /\ phase' = "starting"
    /\ mem' = WithDefaults(file)
    /\ connected' = TRUE
    /\ added' = {p \in Pref : mem'.prefs[p] # file.prefs[p]}
    /\ save_timer' = FALSE
    /\ loaded' = {} /\ to_disable' = {} /\ failed' = {}
    /\ ended' = "no"
    /\ UNCHANGED <<file, temp, atquit>>

\* oul_plugins_load_saved: each plugin of the list is loaded, or fails to.
LoadSaved ==
    /\ phase = "starting"
    /\ phase' = "running"
    /\ \E S \in SUBSET mem.list : loaded' = S /\ failed' = mem.list \ S
    /\ UNCHANGED <<mem, file, temp, save_timer, connected, to_disable, added, atquit, ended>>

-----------------------------------------------------------------------------
(* Changing preferences *)

\* do_callbacks as far as it matters: prefs_save_cb, schedule_prefs_save
Changed == save_timer' = (save_timer \/ connected)

\* oul_prefs_set_*: an unknown preference is added, an equal value ignored.
Set(p, v) ==
    /\ mem.prefs[p] # v
    /\ mem' = [mem EXCEPT !.prefs[p] = v]
    /\ IF mem.prefs[p] = Absent
       THEN added' = added \cup {p} /\ UNCHANGED save_timer
       ELSE added' = added \ {p} /\ Changed

SetPref ==
    /\ phase \in {"running", "q_destroy"}
    /\ \E p \in Pref, v \in Val : Set(p, v)
    /\ UNCHANGED <<phase, file, temp, connected, plugins, ended>>

\* oul_prefs_add_*: nothing when it exists.
AddPref ==
    /\ phase = "running"
    /\ \E p \in Pref :
          /\ mem.prefs[p] = Absent
          /\ mem' = [mem EXCEPT !.prefs[p] = default]
          /\ added' = added \cup {p}
    /\ UNCHANGED <<phase, file, temp, save_timer, connected, plugins, ended>>

\* oul_plugins_save_loaded
ToSave(l, d) == l \ d

\* plugin_toggled_stage_two and beasy_plugins_save: a plugin was loaded, unloaded,
\* or refused and is to be disabled; a path list is set even when it is equal.
Toggle(p) ==
    /\ phase = "running"
    /\ \/ p \notin loaded /\ loaded' = loaded \cup {p} /\ UNCHANGED to_disable
       \/ p \notin loaded /\ UNCHANGED <<loaded, to_disable>>
       \/ p \in loaded /\ loaded' = loaded \ {p} /\ to_disable' = to_disable \ {p}
       \/ p \in loaded /\ UNCHANGED loaded /\ to_disable' = to_disable \cup {p}
    /\ mem' = [mem EXCEPT !.list = ToSave(loaded', to_disable')]
    /\ Changed
    /\ UNCHANGED <<phase, file, temp, connected, added, failed, atquit, ended>>

-----------------------------------------------------------------------------
(* Saving: save_cb, sync_prefs, oul_util_write_data_to_file_absolute *)

\* Mutant: sync_prefs believes that the preferences were not read
SaveCb_NotRead ==
    /\ phase = "running" /\ save_timer
    /\ save_timer' = FALSE
    /\ UNCHANGED <<phase, mem, file, temp, connected, plugins, added, ended>>

SaveCb ==
    /\ phase = "running" /\ save_timer
    /\ phase' = "sync"
    /\ UNCHANGED <<mem, file, temp, save_timer, connected, plugins, added, ended>>

Saving == phase \in {"sync", "q_sync"}

\* What comes behind the save: the timer's id is cleared after it, at quitting
\* before it.
AfterSave ==
    IF phase = "sync" THEN phase' = "running" /\ save_timer' = FALSE
                           /\ UNCHANGED connected
                      ELSE phase' = "q_destroy" /\ connected' = FALSE
                           /\ UNCHANGED save_timer

\* The old temporary file is removed, the new one written and its size checked.
WriteTemp ==
    /\ Saving /\ temp # {mem}
    /\ temp' = {mem}
    /\ UNCHANGED <<phase, mem, file, save_timer, connected, plugins, added, ended>>

\* Mutant: a write that failed is renamed all the same
WriteFails_Unseen ==
    /\ Saving /\ DiskFails
    /\ temp' = {} /\ file' = NoFile
    /\ ended' = "disk"
    /\ AfterSave
    /\ UNCHANGED <<mem, plugins, added>>

\* It cannot be opened, written or synced: the file stays as it was, and so does
\* everything else; the result is not looked at.
WriteFails ==
    /\ Saving /\ DiskFails
    /\ temp' = {}
    /\ ended' = "disk"
    /\ AfterSave
    /\ UNCHANGED <<mem, file, plugins, added>>

Rename ==
    /\ Saving /\ temp = {mem}
    /\ \E whole \in temp : file' = whole
    /\ temp' = {}
    /\ added' = {}
    /\ ended' = "no"
    /\ AfterSave
    /\ UNCHANGED <<mem, plugins>>

-----------------------------------------------------------------------------
(* Ending *)

\* Mutant: quitting does not save what is pending
Quit_Unsaved ==
    /\ phase = "running"
    /\ atquit' = ToSave(loaded, to_disable)
    /\ save_timer' = FALSE
    /\ phase' = "q_destroy" /\ connected' = FALSE
    /\ UNCHANGED <<mem, file, temp, loaded, to_disable, failed, added, ended>>

\* oul_core_quit up to oul_prefs_uninit
Quit ==
    /\ phase = "running"
    /\ atquit' = ToSave(loaded, to_disable)
    /\ save_timer' = FALSE
    /\ IF save_timer THEN phase' = "q_sync" /\ UNCHANGED connected
                     ELSE phase' = "q_destroy" /\ connected' = FALSE
    /\ UNCHANGED <<mem, file, temp, loaded, to_disable, failed, added, ended>>

\* oul_plugins_destroy_all, then beasy_quit, whose beasy_plugins_save finds no
\* plugin loaded and no callback connected.
QuitUi ==
    /\ phase = "q_destroy"
    /\ phase' = "off"
    /\ loaded' = {} /\ to_disable' = {}
    /\ mem' = [mem EXCEPT !.list = {}]
    /\ Changed
    /\ ended' = IF ended = "disk" THEN "disk" ELSE "quit"
    /\ UNCHANGED <<file, temp, connected, added, failed, atquit>>

\* A termination signal, whose handler unloads the plugins and exits, or a crash.
Die ==
    /\ phase # "off"
    /\ phase' = "off"
    /\ loaded' = {} /\ to_disable' = {}
    /\ ended' = "killed"
    /\ UNCHANGED <<mem, file, temp, save_timer, connected, added, failed, atquit>>

-----------------------------------------------------------------------------
\* The first session finds no file, or one that an earlier session has saved.
Init ==
    /\ phase = "off"
    /\ file \in {NoFile} \cup {[prefs |-> [p \in Pref |-> default], list |-> S] : S \in SUBSET Plugin}
    /\ mem = WithDefaults(file)
    /\ temp = {} /\ save_timer = FALSE /\ connected = FALSE
    /\ loaded = {} /\ to_disable = {} /\ added = {} /\ failed = {} /\ atquit = {}
    /\ ended = "no"

Saves == WriteTemp \/ Rename

Next ==
    \/ Start \/ LoadSaved
    \/ SetPref \/ AddPref \/ (\E p \in Plugin : Toggle(p))
    \/ SaveCb \/ Saves \/ WriteFails
    \/ Quit \/ QuitUi \/ Die

Spec == Init /\ [][Next]_vars

\* The main loop dispatches the timer, and a handler runs to its end.
FairSpec == Spec /\ WF_vars(SaveCb) /\ WF_vars(Saves) /\ WF_vars(LoadSaved) /\ WF_vars(QuitUi)

-----------------------------------------------------------------------------
(* Properties. *)

\* Every variable keeps its type.
TypeOK ==
    /\ phase \in {"off", "starting", "running", "sync", "q_sync", "q_destroy"}
    /\ mem \in Prefs /\ file \in Prefs
    /\ temp \subseteq Prefs
    /\ save_timer \in BOOLEAN /\ connected \in BOOLEAN
    /\ loaded \subseteq Plugin /\ to_disable \subseteq loaded
    /\ added \subseteq Pref
    /\ ended \in {"no", "quit", "killed", "disk"}

\* While the program runs, a preference that differs from the file is on its way
\* into it, unless it was only added or the last write failed (schedule_prefs_save).
ChangesAreScheduled ==
    phase = "running" /\ ended # "disk" =>
        \/ save_timer
        \/ mem.list = file.list /\ \A p \in Pref \ added : mem.prefs[p] = file.prefs[p]

\* The plugins loaded when the user quit, without those that are to be disabled,
\* are in the file, and others only when they could not be loaded (beasy.c says
\* that they are saved for next time, and loads the plugins we had when we quit).
PluginsComeBack ==
    phase = "off" /\ ended = "quit" =>
        atquit \subseteq file.list /\ file.list \subseteq atquit \cup failed

\* Settings are not lost: changes are on their way to the file, and the list of
\* plugins in it is that of the last session.
SettingsAreKept == TypeOK /\ ChangesAreScheduled /\ PluginsComeBack

\* The file is always a whole snapshot of the settings, and a session starts from
\* it, through failed writes, crashes and restarts.
Durable == INSTANCE SavedSettings WITH
               Settings <- Prefs, Started <- WithDefaults, current <- mem, saved <- file
DurablePromise == Durable!Spec

\* A value that was set reaches the file unless it changes again, the program ends
\* or a write fails.
SetIsSaved ==
    \A p \in Pref, v \in Val :
        (phase = "running" /\ mem.prefs[p] = v /\ p \notin added) ~>
            (file.prefs[p] = v \/ mem.prefs[p] # v \/ phase = "off" \/ ended = "disk")
=============================================================================
