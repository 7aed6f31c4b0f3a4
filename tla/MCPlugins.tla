----------------------------- MODULE MCPlugins -----------------------------
(* Three plugins: mid depends on lib, app on both.                         *)
EXTENDS Plugins

CONSTANTS lib, mid, app

ThreePlugins == {lib, mid, app}
Diamond == [p \in ThreePlugins |-> CASE p = lib -> <<>>
                                     [] p = mid -> <<lib>>
                                     [] OTHER   -> <<lib, mid>>]
ByName == [p \in ThreePlugins |-> CASE p = lib -> 2 [] p = mid -> 3 [] OTHER -> 1]

\* No plugin refuses to unload, or none fails to load.
OneKind == { [load |-> ThreePlugins, unload |-> {}], [load |-> {}, unload |-> ThreePlugins] }
BothKinds == { [load |-> ThreePlugins, unload |-> ThreePlugins] }
=============================================================================
