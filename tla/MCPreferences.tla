--------------------------- MODULE MCPreferences ---------------------------
(* One preference the user interface adds, one that a plugin adds.         *)
EXTENDS Preferences

CONSTANTS ui, late, p1, p2

TwoPrefs == {ui, late}
UiPrefs == {ui}
TwoPlugins == {p1, p2}
=============================================================================
