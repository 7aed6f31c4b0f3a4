---------------------------- MODULE PluginFiles ----------------------------
(***************************************************************************)
(* Finding plugins: liboul/plugin.c probes the files of its directories    *)
(* and takes at most one plugin of each name, loads loaders at once and    *)
(* probes for what they can load, and loads what was loaded in the last    *)
(* session; the dialog of beasy/gtkplugin.c shows what was found, turns it *)
(* on and off and saves what is on.                                        *)
(*                                                                         *)
(* A file is what probing tells apart of it: Meta[f] says how far probing  *)
(* gets.  One loader at most is among them: a second one that fails would  *)
(* take the first one's plugins with it.  Here a plugin needs one other at *)
(* most, and that one none: deeper dependencies are the subject of module  *)
(* Plugins.                                                                *)
(***************************************************************************)
EXTENDS Naturals, FiniteSets, SequencesExt, FiniteSetsExt

CONSTANTS
    PluginFile,     \* paths of plugins
    Meta,           \* what is in a file, a function on PluginFile
    SearchOrder,    \* the files of the search paths, in the order they are read
    OldDisks,       \* the files that may exist at first
    OldSaved,       \* what prefs.xml may name at first
    MayFail,        \* plugins whose load function may fail
    MaxDiskChanges, \* bound on the files that come and go
    MaxNotes        \* bound on dependent_plugins

MetaFields == {"base", "native", "opens", "symbol", "starts", "ui", "id", "magic", "version", "loader", "needs"}
ASSUME PluginFilesAssumption ==
    /\ \A f \in PluginFile :
        /\ DOMAIN Meta[f] = MetaFields /\ Meta[f].native \in BOOLEAN
        /\ Meta[f].opens \in {"now", "lazily", "never"} /\ Meta[f].magic \in {"right", "old", "other"}
        /\ Meta[f].needs \subseteq {Meta[g].base : g \in PluginFile}
        /\ \A base, other \in Meta[f].needs : base = other
        /\ \A g \in PluginFile : Meta[g].base \in Meta[f].needs => Meta[g].needs = {}
    /\ \A f, g \in PluginFile : Meta[f].loader /\ Meta[g].loader => f = g
    /\ SearchOrder \in Seq(PluginFile) /\ MayFail \subseteq PluginFile
    /\ OldDisks \cup OldSaved \subseteq SUBSET PluginFile
    \* Loaders are not saved.
    /\ \A old \in OldSaved : IsFiniteSet(old) /\ \A f \in old : ~Meta[f].loader
    /\ MaxDiskChanges \in Nat /\ MaxNotes \in Nat

VARIABLES
    pluginDisk,     \* the files that exist
    diskChanges,    \* how often that changed
    reg,            \* the lists of plugin.c and the flags of its plugins
    running,        \* whether the program runs
    saved,          \* /beasy/plugins/loaded
    fresh,          \* the dialog was not shown in this session
    scanned,        \* the files that existed when they were last probed
    dialogRows,     \* the rows of the dialog, a function from files to "Enabled"; none if it is closed
    configs         \* plugin_pref_dialogs

pluginFileVars == <<pluginDisk, diskChanges, reg, running, saved, fresh, scanned, dialogRows, configs>>

NoPlugins(failing) ==
    [plugins |-> <<>>, queue |-> <<>>, loaded |-> {}, unloadable |-> {}, disabled |-> {},
     noted |-> [f \in PluginFile |-> 0], failing |-> failing]
NoRows == [open |-> FALSE, of |-> <<>>]

\* oul_plugins_find_with_basename, as the set of at most one: the first of that name.
\* Probing, loading and the dependencies look for plugins this way; an id is taken for the name.
Named(s, base) ==
    LET at == {i \in DOMAIN s.plugins : Meta[s.plugins[i]].base = base}
    IN IF at = {} THEN {} ELSE {s.plugins[Min(at)]}

Loaders(s) == {f \in s.loaded : Meta[f].loader}

-----------------------------------------------------------------------------
(* Probing *)

\* How far oul_plugin_probe gets with the file: "none" is registered, or one that
\* cannot be loaded, to be shown in grey, or one that can.
Verdict(s, f) ==
    LET m == Meta[f] IN
    IF \/ m.native /\ (m.opens = "never" \/ ~m.symbol)
       \/ ~m.native /\ Loaders(s) = {}
       \/ ~m.starts
       \/ m.ui /\ m.id /\ m.magic = "other"
    THEN "none"
    ELSE IF m.ui /\ m.id /\ m.magic = "right" /\ m.version /\ ~(m.native /\ m.opens = "lazily")
    THEN "good" ELSE "grey"

\* oul_plugin_destroy of a plugin that is not loaded.
DestroyedPlugin(s, f) ==
    [s EXCEPT !.plugins = RemoveFirst(@, f), !.queue = RemoveFirst(@, f),
              !.unloadable = @ \ {f}, !.noted[f] = 0]

\* oul_plugin_register, when oul_plugin_probe has found no reason to leave the file alone.
RegisteredPlugin(s, f, verdict) ==
    IF verdict = "none" THEN s
    ELSE [s EXCEPT !.plugins = Append(@, f), !.queue = Append(@, f),
                   !.unloadable = IF verdict = "grey" THEN @ \cup {f} ELSE @ \ {f}]
FoundPlugin(s, f) == RegisteredPlugin(s, f, Verdict(s, f))

\* Mutant: of two files of a name the first one stays, loadable or not.
ProbedFile_FirstStays(s, f) ==
    IF f \notin pluginDisk \/ Named(s, Meta[f].base) # {} THEN s ELSE FoundPlugin(s, f)

\* oul_plugin_probe: a plugin that is known stays, and one of the same name stays if
\* it can be loaded, else it makes place.
ProbedFile(s, f) ==
    LET old == Named(s, Meta[f].base)
    IN IF f \notin pluginDisk \/ f \in old \/ (old # {} /\ old \cap s.unloadable = {}) THEN s
       ELSE FoundPlugin(IF old = {} THEN s ELSE DestroyedPlugin(s, CHOOSE g \in old : TRUE), f)

\* The directories of the search path are read for files of one kind.
ProbedOfKind(s, f, native) == IF Meta[f].native = native THEN ProbedFile(s, f) ELSE s
ProbedPlugins(s, native) ==
    LET after[i \in 0..Len(SearchOrder)] ==
            IF i = 0 THEN s ELSE ProbedOfKind(after[i - 1], SearchOrder[i], native)
    IN after[Len(SearchOrder)]

-----------------------------------------------------------------------------
(* Loading and unloading *)

\* oul_plugin_load without its dependencies; they note who depends on them first.
LoadedAlone(s, f, deps) ==
    LET t == [s EXCEPT !.noted = [g \in PluginFile |-> IF g \in deps THEN @[g] + 1 ELSE @[g]]]
    IN IF ~Meta[f].native /\ Loaders(s) = {} THEN t
       ELSE IF f \in s.failing THEN t
       ELSE [t EXCEPT !.loaded = @ \cup {f}]

\* The dependencies, of which there is one at most, are loaded first, and needed.
NeededPlugins(s, f) == UNION {Named(s, base) : base \in Meta[f].needs}
WithNeeded(s, deps) ==
    IF deps \subseteq s.loaded \cup s.unloadable THEN s ELSE LoadedAlone(s, CHOOSE g \in deps : TRUE, {})
LoadedAfter(s, f, deps) == IF deps \subseteq s.loaded THEN LoadedAlone(s, f, deps) ELSE s

\* oul_plugin_load
LoadedPlugin(s, f) ==
    IF f \in s.loaded \/ f \in s.unloadable \/ \E base \in Meta[f].needs : Named(s, base) = {} THEN s
    ELSE LoadedAfter(WithNeeded(s, NeededPlugins(s, f)), f, NeededPlugins(s, f))

\* oul_plugin_unload of a plugin that no other is noted to need: what it needs forgets it
\* before its unload function is asked.
Forgets(s, f) ==
    [s EXCEPT !.noted = [g \in PluginFile |-> IF g \in NeededPlugins(s, f) /\ @[g] > 0 THEN @[g] - 1 ELSE @[g]]]
UnloadedPlugin(s, f) == [Forgets(s, f) EXCEPT !.loaded = @ \ {f}, !.disabled = @ \ {f}]
RefusingPlugin(s, f) == [Forgets(s, f) EXCEPT !.disabled = @ \cup {f}]

\* The rest of oul_plugins_probe: loaders among the plugins that wait are loaded, and
\* what they can load is probed, or they are destroyed.
LoaderTried(s, f) == IF f \in s.loaded THEN ProbedPlugins(s, FALSE) ELSE DestroyedPlugin(s, f)
FirstInQueue(s) ==
    IF s.queue = <<>> THEN s
    ELSE IF ~Meta[Head(s.queue)].loader THEN [s EXCEPT !.queue = Tail(@)]
    ELSE LoaderTried(LoadedPlugin([s EXCEPT !.queue = Tail(@)], Head(s.queue)), Head(s.queue))

\* oul_plugins_probe(G_MODULE_SUFFIX): the queue holds what waited before and what was
\* found, and a loader adds what it can load, once.
Turns(s) == Len(s.queue) + Len(SearchOrder)
QueueDone(s) ==
    LET after[i \in 0..Turns(s)] == IF i = 0 THEN s ELSE FirstInQueue(after[i - 1])
    IN after[Turns(s)]
Probed(s) == QueueDone(ProbedPlugins(s, TRUE))

-----------------------------------------------------------------------------
(* The list of loaded plugins *)

\* oul_plugins_save_loaded
ToSave(s) == {f \in s.loaded : ~Meta[f].loader /\ f \notin s.disabled}

\* One turn of the loop of oul_plugins_load_saved: the plugin at that path, or one of
\* its name, or the file itself, which the search paths did not have.
AtPathOrNamed(s, f) == IF f \in Range(s.plugins) THEN {f} ELSE Named(s, Meta[f].base)
LoadFound(s, f) ==
    IF AtPathOrNamed(s, f) = {} THEN s ELSE LoadedPlugin(s, CHOOSE g \in AtPathOrNamed(s, f) : TRUE)
LoadedSaved(s, f) == LoadFound(IF AtPathOrNamed(s, f) = {} THEN ProbedFile(s, f) ELSE s, f)

\* oul_plugins_load_saved: they were saved in the order of their names.
AllSavedLoaded(s, order) ==
    LET after[i \in 0..Len(order)] == IF i = 0 THEN s ELSE LoadedSaved(after[i - 1], order[i])
    IN after[Len(order)]
Orders(S) == {order \in [1..Cardinality(S) -> S] : Range(order) = S}

\* oul_core_init probes the plugins, beasy's main loads those of the last session.
StartPlugins ==
    /\ ~running /\ running' = TRUE
    /\ \E failing \in SUBSET MayFail, order \in Orders(saved) :
        reg' = AllSavedLoaded(Probed(NoPlugins(failing)), order)
    /\ scanned' = pluginDisk /\ fresh' = TRUE
    /\ UNCHANGED <<pluginDisk, diskChanges, saved, dialogRows, configs>>

\* The program ends; what is in the preferences then is in prefs.xml (module Preferences).
StopPlugins ==
    /\ running /\ running' = FALSE
    /\ reg' = NoPlugins({}) /\ dialogRows' = NoRows /\ configs' = {} /\ fresh' = FALSE
    /\ UNCHANGED <<pluginDisk, diskChanges, saved, scanned>>

DiskChanges(f) ==
    /\ diskChanges < MaxDiskChanges /\ diskChanges' = diskChanges + 1
    /\ pluginDisk' = IF f \in pluginDisk THEN pluginDisk \ {f} ELSE pluginDisk \cup {f}
    /\ UNCHANGED <<reg, running, saved, fresh, scanned, dialogRows, configs>>

-----------------------------------------------------------------------------
(* The dialog *)

DialogRowsOf(s) == [open |-> TRUE, of |-> [f \in {g \in Range(s.plugins) : ~Meta[g].loader} |-> f \in s.loaded]]

\* plugin_load_cb and plugin_unload_cb: the row of a plugin that was loaded or unloaded.
RowsChanged(s, t) ==
    [f \in DOMAIN dialogRows.of |-> IF (f \in s.loaded) # (f \in t.loaded) THEN f \in t.loaded ELSE dialogRows.of[f]]

\* beasy_plugin_dialog_show and update_plugin_list
ProbedForLoaders(s) == IF \E f \in Range(s.plugins) : Meta[f].loader THEN ProbedPlugins(s, FALSE) ELSE s
ShowDialog ==
    /\ running /\ ~dialogRows.open
    /\ reg' = [ProbedForLoaders(Probed(reg)) EXCEPT !.queue = <<>>]
    /\ dialogRows' = DialogRowsOf(reg')
    /\ scanned' = pluginDisk /\ fresh' = FALSE
    /\ UNCHANGED <<pluginDisk, diskChanges, running, saved, configs>>

\* plugin_toggled of a plugin that is off, with plugin_toggled_stage_two
TurnOn(f) ==
    /\ dialogRows.open /\ f \in DOMAIN dialogRows.of /\ f \notin reg.unloadable /\ f \notin reg.loaded
    /\ \A g \in PluginFile : reg.noted[g] < MaxNotes
    /\ \E failing \in SUBSET MayFail : reg' = LoadedPlugin([reg EXCEPT !.failing = failing], f)
    /\ dialogRows' = [dialogRows EXCEPT !.of = [RowsChanged(reg, reg') EXCEPT ![f] = f \in reg'.loaded]]
    /\ saved' = ToSave(reg')
    /\ UNCHANGED <<pluginDisk, diskChanges, running, fresh, scanned, configs>>

\* plugin_toggled of a plugin that is on: its configuration is closed; it is unloaded, or,
\* if it refuses, will not be saved.  When other plugins were noted nobody is asked and
\* nothing happens.
TurnOff(f) ==
    /\ dialogRows.open /\ f \in DOMAIN dialogRows.of /\ f \in reg.loaded
    /\ configs' = configs \ {f}
    /\ IF reg.noted[f] > 0 THEN UNCHANGED <<reg, dialogRows, saved>>
       ELSE /\ \/ reg' = UnloadedPlugin(reg, f)
               \/ reg' = RefusingPlugin(reg, f)
            /\ dialogRows' = [dialogRows EXCEPT !.of[f] = f \in reg'.loaded]
            /\ saved' = ToSave(reg')
    /\ UNCHANGED <<pluginDisk, diskChanges, running, fresh, scanned>>

\* plugin_dialog_response_cb with BEASY_RESPONSE_CONFIGURE: the button is sensitive, and a
\* row activated, for loaded plugins only.
Configure(f) ==
    /\ dialogRows.open /\ f \in DOMAIN dialogRows.of /\ f \in reg.loaded
    /\ configs' = configs \cup {f}
    /\ UNCHANGED <<pluginDisk, diskChanges, reg, running, saved, fresh, scanned, dialogRows>>

\* pref_dialog_response_cb
CloseConfig(f) ==
    /\ f \in configs /\ configs' = configs \ {f}
    /\ UNCHANGED <<pluginDisk, diskChanges, reg, running, saved, fresh, scanned, dialogRows>>

\* plugin_dialog_response_cb, the dialog is closed and its children with it
CloseDialog ==
    /\ dialogRows.open /\ dialogRows' = NoRows /\ configs' = {}
    /\ UNCHANGED <<pluginDisk, diskChanges, reg, running, saved, fresh, scanned>>

PluginFilesInit ==
    /\ pluginDisk \in OldDisks /\ diskChanges = 0
    /\ reg = NoPlugins({}) /\ running = FALSE
    /\ saved \in OldSaved /\ fresh = FALSE /\ scanned = {}
    /\ dialogRows = NoRows /\ configs = {}

PluginFilesNext ==
    \/ StartPlugins \/ StopPlugins \/ ShowDialog \/ CloseDialog
    \/ \E f \in PluginFile : DiskChanges(f) \/ TurnOn(f) \/ TurnOff(f) \/ Configure(f) \/ CloseConfig(f)

PluginFilesSpec == PluginFilesInit /\ [][PluginFilesNext]_pluginFileVars

-----------------------------------------------------------------------------
\* Two registered plugins never have the same name, however often the directories are
\* read and whatever they hold by then (plugin.c:173).
OneOfEachName ==
    \A i, j \in DOMAIN reg.plugins : Meta[reg.plugins[i]].base = Meta[reg.plugins[j]].base => i = j

\* A loader that fails to load is destroyed after the files were read, and one of its
\* name that was passed over for it is not looked for again.
FoundBySearch == {f \in Range(SearchOrder) : \A l \in PluginFile : Meta[l].loader => Meta[l].base # Meta[f].base}

\* A plugin that cannot be loaded does not keep one of its name that can from being
\* found, in whatever order the files are read (the comment at plugin.c:188).
GoodOnesAreFound ==
    running => \A f \in scanned \cap FoundBySearch :
        Verdict(reg, f) = "good" => \E g \in Named(reg, Meta[f].base) : g \notin reg.unloadable

\* What was on when the list was last saved is on again after a start, though perhaps
\* from another file of its name, unless no such file is there, or it or what it needs
\* cannot be loaded.  What it needs is found by the search: a plugin that only its own
\* path in the list leads to may come after the one that needs it.
SavedOnesAreLoaded ==
    running /\ fresh => \A f \in saved : \A g \in Named(reg, Meta[f].base) :
        (/\ ({g} \cup NeededPlugins(reg, g)) \cap (reg.failing \cup reg.unloadable) = {}
         /\ NeededPlugins(reg, g) \subseteq FoundBySearch
         /\ \A base \in Meta[g].needs : Named(reg, base) # {}) => g \in reg.loaded

\* The dialog has a row for every plugin but loaders, which says whether the plugin is
\* loaded, also for plugins that were loaded because another one needs them; and the
\* windows with preferences belong to loaded plugins.
DialogIsTrue ==
    /\ dialogRows.open => \A f \in DOMAIN dialogRows.of : f \in Range(reg.plugins) /\ dialogRows.of[f] = (f \in reg.loaded)
    /\ configs \subseteq reg.loaded

PluginsAreFound == OneOfEachName /\ GoodOnesAreFound /\ SavedOnesAreLoaded /\ DialogIsTrue
=============================================================================
