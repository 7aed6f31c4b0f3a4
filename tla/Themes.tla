------------------------------- MODULE Themes -------------------------------
(***************************************************************************)
(* The popup themes the program has (gtkntf_theme.c) and the preferences    *)
(* page that loads and unloads them (gtkpref_theme.c): the list of theme    *)
(* files that were probed, the list of themes that are loaded, the          *)
(* preference that remembers the loaded ones, the rows of the page, and the *)
(* files themselves, which change behind the program's back.                *)
(***************************************************************************)
EXTENDS Naturals, Sequences, FiniteSets, SequencesExt

CONSTANTS ThemePath,        \* theme.xml paths in the order the directories list them
          Version,          \* contents of a file that can be read as a theme
          CopyOf,           \* [paths of themes the user copies -> path of the copy]
          MaxFileChanges    \* bound: files changed by others while the program runs

ASSUME ThemesAssumption ==
  /\ \A i, j \in DOMAIN ThemePath : ThemePath[i] = ThemePath[j] => i = j
  /\ ThemePath \in Seq(ToSet(ThemePath))
  /\ {"none", "broken"} \cap Version = {}
  /\ DOMAIN CopyOf \subseteq ToSet(ThemePath)
  /\ \A file \in DOMAIN CopyOf : CopyOf[file] \in ToSet(ThemePath)

VARIABLES disk,             \* [paths -> "none", "broken" or a version]
          changes,          \* how often it was changed by others
          themesOn,         \* beasy_notify_init was called and not yet undone
          probed,           \* probed_themes
          loaded,           \* loaded_themes: records [file, version]
          savedThemes,      \* the preference BEASY_PREFS_NTF_LOADED_THEMES
          rows              \* the page's rows: records [file, loaded], or <<>>

themesVars == <<disk, changes, themesOn, probed, loaded, savedThemes, rows>>

-----------------------------------------------------------------------------
Paths == ToSet(ThemePath)

\* gtkntf_theme_new_from_file: <<>> when the file is missing or cannot be read.
ThemeIn(d, file) == IF d[file] \in Version
                      THEN <<[file |-> file, version |-> d[file]]>> ELSE <<>>

IsLoaded(themes, file) == \E i \in DOMAIN themes : themes[i].file = file

\* gtkntf_theme_unload of the theme find_theme_by_filename returns, the first.
Unloaded(themes, file) ==
  RemoveAt(themes, CHOOSE i \in DOMAIN themes :
                     /\ themes[i].file = file
                     /\ \A j \in 1 .. i - 1 : themes[j].file # file)

(***************************************************************************)
(* gtkntf_theme_probe: a file is read anew.  When it was loaded, the theme  *)
(* it was loaded as goes, and what is read now takes its place at the end   *)
(* of the list, if anything is.  What it was probed as goes, which is in the *)
(* list once at most (LoadedOnce).                                           *)
(***************************************************************************)
Probe(d, lists, file) ==
  LET was   == IsLoaded(lists.loaded, file)
      found == ThemeIn(d, file)
      kept  == IF was THEN Unloaded(lists.loaded, file) ELSE lists.loaded
      rest  == RemoveFirst(lists.probed, file)
  IN [probed |-> IF found = <<>> THEN rest ELSE Append(rest, file),
      loaded |-> IF was THEN kept \o found ELSE kept]

\* gtkntf_themes_probe, from the lists there are: every file that exists.
ProbedIfThere(d, lists, file) == IF d[file] = "none" THEN lists ELSE Probe(d, lists, file)
ProbedAll(d, lists) ==
  LET after[i \in 0 .. Len(ThemePath)] ==
        IF i = 0 THEN lists ELSE ProbedIfThere(d, after[i - 1], ThemePath[i])
  IN after[Len(ThemePath)]

\* gtkntf_themes_load_saved: only the files that were probed are loaded.
LoadedIfProbed(themes, names, file) ==
  IF Contains(names, file) THEN themes \o ThemeIn(disk, file) ELSE themes
LoadSaved(lists) ==
  LET after[i \in 0 .. Len(savedThemes)] ==
        IF i = 0 THEN lists.loaded
        ELSE LoadedIfProbed(after[i - 1], lists.probed, savedThemes[i])
  IN after[Len(savedThemes)]

\* gtkntf_themes_save_loaded.
FilesOf(themes) == [i \in DOMAIN themes |-> themes[i].file]

\* create_theme_store: the themes are unprobed, probed again and listed.
Refreshed(d) == ProbedAll(d, [probed |-> <<>>, loaded |-> loaded])
RowsOf(lists) ==
  [i \in DOMAIN lists.probed |->
     [file |-> lists.probed[i], loaded |-> IsLoaded(lists.loaded, lists.probed[i])]]

ShowRefreshed(d) ==
  /\ probed' = Refreshed(d).probed
  /\ loaded' = Refreshed(d).loaded
  /\ rows' = RowsOf(Refreshed(d))

-----------------------------------------------------------------------------
ThemesInit ==
  /\ disk \in [Paths -> {"none", "broken"} \cup Version]
  /\ changes = 0
  /\ themesOn = FALSE
  /\ probed = <<>> /\ loaded = <<>> /\ rows = <<>>
  /\ savedThemes \in {<<>>} \cup {<<f>> : f \in Paths}

\* beasy_notify_init, at the start of the program.
StartPopups ==
  /\ ~themesOn
  /\ themesOn' = TRUE
  /\ LET lists == ProbedAll(disk, [probed |-> <<>>, loaded |-> <<>>])
     IN /\ probed' = lists.probed
        /\ loaded' = LoadSaved(lists)
  /\ UNCHANGED <<disk, changes, savedThemes, rows>>

\* What is remembered is what is loaded when the program ends.
QuitSaves(themes) == FilesOf(themes)

\* beasy_notify_uninit: unprobe, save, unload.
StopPopups ==
  /\ themesOn
  /\ rows = <<>>
  /\ themesOn' = FALSE
  /\ probed' = <<>>
  /\ savedThemes' = QuitSaves(loaded)
  /\ loaded' = <<>>
  /\ UNCHANGED <<disk, changes, rows>>

\* beasy_theme_prefpage_get; the page of no theme at all looks like none here.
OpenPage ==
  /\ themesOn
  /\ rows = <<>>
  /\ ShowRefreshed(disk)
  /\ UNCHANGED <<disk, changes, themesOn, savedThemes>>

ClosePage ==
  /\ rows # <<>>
  /\ rows' = <<>>
  /\ UNCHANGED <<disk, changes, themesOn, probed, loaded, savedThemes>>

\* Mutant: an unload leaves the theme in the list of the loaded ones.
Toggled_Keeps(row) ==
  IF ~row.loaded THEN loaded \o ThemeIn(disk, row.file) ELSE loaded

(***************************************************************************)
(* theme_load_cb goes by what the row says, and turns the row over whether  *)
(* or not the file could be loaded.                                         *)
(***************************************************************************)
Toggled(row) ==
  IF ~row.loaded THEN loaded \o ThemeIn(disk, row.file)
  ELSE IF IsLoaded(loaded, row.file) THEN Unloaded(loaded, row.file) ELSE loaded

ToggleRow(i) ==
  /\ i \in DOMAIN rows
  /\ loaded' = Toggled(rows[i])
  /\ rows' = [rows EXCEPT ![i].loaded = ~@]
  /\ savedThemes' = FilesOf(loaded')
  /\ UNCHANGED <<disk, changes, themesOn, probed>>

(***************************************************************************)
(* theme_list_copy_cb: a theme that can be read is written to a file of the *)
(* user's own and the page is refreshed, which reads that file whether it   *)
(* was loaded before or not.                                                *)
(***************************************************************************)
CopyRow(i) ==
  /\ i \in DOMAIN rows
  /\ rows[i].file \in DOMAIN CopyOf
  /\ ThemeIn(disk, rows[i].file) # <<>>
  /\ disk' = [disk EXCEPT ![CopyOf[rows[i].file]] = disk[rows[i].file]]
  /\ ShowRefreshed(disk')
  /\ UNCHANGED <<changes, themesOn, savedThemes>>

(***************************************************************************)
(* theme_install_theme unpacks an archive below oul_user_dir()/beasy/themes,*)
(* which is not one of the directories that are probed, and refreshes.      *)
(***************************************************************************)
InstallTheme ==
  /\ rows # <<>>
  /\ ShowRefreshed(disk)
  /\ UNCHANGED <<disk, changes, themesOn, savedThemes>>

\* A theme is edited, broken or deleted by another program.
FileChanges(file, content) ==
  /\ changes < MaxFileChanges
  /\ changes' = changes + 1
  /\ disk' = [disk EXCEPT ![file] = content]
  /\ UNCHANGED <<themesOn, probed, loaded, savedThemes, rows>>

ThemesNext ==
  \/ StartPopups \/ StopPopups \/ OpenPage \/ ClosePage \/ InstallTheme
  \/ \E i \in 1 .. Len(ThemePath) : ToggleRow(i) \/ CopyRow(i)
  \/ \E file \in Paths, content \in {"none", "broken"} \cup Version : FileChanges(file, content)

ThemesSpec == ThemesInit /\ [][ThemesNext]_themesVars

-----------------------------------------------------------------------------
(***************************************************************************)
(* No file is loaded twice, whatever the rows, the refreshes and the saved  *)
(* names were, and so no popup is drawn from a theme the page cannot unload *)
(* any more: a row that says "not loaded" is the row of a file that is not. *)
(* The names that are saved while the page is open are those of the loaded  *)
(* themes and of themes a refresh has dropped since.                        *)
(***************************************************************************)
LoadedOnce ==
  /\ IsInjective(FilesOf(loaded)) /\ IsInjective(probed)
  /\ \A i \in DOMAIN rows : ~rows[i].loaded => ~IsLoaded(loaded, rows[i].file)
  /\ loaded # <<>> => themesOn

\* The themes are those of the names whose file can be read, in the order of the names.
BroughtBack(themes, names) ==
  /\ ToSet(FilesOf(themes)) = {f \in ToSet(names) : disk[f] \in Version}
  /\ \A i, j \in DOMAIN themes, m, n \in DOMAIN names :
       themes[i].file = names[m] /\ themes[j].file = names[n] => (i < j <=> m < n)

(***************************************************************************)
(* What comes back.  A program that starts has exactly the themes loaded    *)
(* that were when it stopped, in their order, but for those whose file can  *)
(* no longer be read; and a refresh leaves no loaded theme that is listed   *)
(* other than its file now is, and drops one only if its file is broken.    *)
(* Every step leaves each file loaded once (LoadedOnce).                    *)
(***************************************************************************)
ComeBack ==
  /\ LoadedOnce'
  /\ (themesOn' /\ ~themesOn) => BroughtBack(loaded', savedThemes)
  /\ (themesOn /\ ~themesOn') => savedThemes' = FilesOf(loaded)
  /\ (OpenPage \/ InstallTheme \/ \E i \in DOMAIN rows : CopyRow(i)) =>
       /\ ToSet(FilesOf(loaded')) = {f \in ToSet(FilesOf(loaded)) : disk'[f] # "broken"}
       /\ \A i \in DOMAIN loaded' :
            Contains(probed', loaded'[i].file) =>
              loaded'[i].version = disk'[loaded'[i].file]
\* Nothing else ever happens to the themes: every step is as gtkntf_themes_load_saved,
\* gtkntf_themes_save_loaded and the refresh of the page promise (ComeBack).
ThemesComeBack == [][ComeBack]_themesVars
=============================================================================
